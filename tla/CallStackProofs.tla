--------------------------- MODULE CallStackProofs ---------------------------
(***************************************************************************)
(* Proofs about CallStack: its type invariant, that the top index follows  *)
(* the number of entries, and that it implements LifoStack.                *)
(***************************************************************************)
EXTENDS CallStack, DataLemmas, TLAPS

USE LimitsAssumption, AddrAssumption

IInv == TypeOK /\ TopTracksLevel

LEMMA InitIInv == Init => IInv
<1> SUFFICES ASSUME Init PROVE IInv
  OBVIOUS
<1>1. recursion_limit \in Limits \ {0}
  BY DEF Init
<1>2. TypeOK
  <2>1. recursion_limit \in 0 .. FarIndex - 2 /\ FarIndex \in Nat /\ WordMod \in Nat
    BY <1>1
  <2>2. 0 \in 0 .. FarIndex - 1 /\ 0 \in 0 .. WordMod - 1
    BY <2>1
  <2>3. stk \in [Cells(recursion_limit) -> Addr \cup {Junk}]
    BY DEF Init
  <2> QED BY <1>1, <2>2, <2>3 DEF Init, TypeOK
<1>3. TopTracksLevel
  BY DEF Init, TopTracksLevel
<1> QED BY <1>2, <1>3 DEF IInv

\* An exception and an access violation change nothing but err.
LEMMA ThrowIInv ==
  ASSUME IInv, NEW e \in {"fault"} \cup Errors, Throw(e)
  PROVE  IInv'
BY DEF IInv, TypeOK, TopTracksLevel, Throw, Cells

LEMMA PushIInv ==
  ASSUME IInv, NEW a \in Addr, push_addr(a)
  PROVE  IInv'
<1> DEFINE ndx == IF recur_level > 0 THEN Inc(curr_top_ndx) ELSE curr_top_ndx
<1>1. CASE Throw("CALLSTACK_EXCEEDED_RECUR_LIMIT")
  BY <1>1, ThrowIInv DEF Errors
<1>2. CASE Fault(ndx)
  BY <1>2, ThrowIInv DEF Fault
<1>3. CASE /\ curr_top_ndx # recursion_limit
           /\ Write(ndx, a)
           /\ curr_top_ndx' = ndx
           /\ recur_level' = Inc(recur_level)
           /\ UNCHANGED <<recursion_limit, ret, err>>
  <2>1. recursion_limit \in 1 .. FarIndex - 2
    BY DEF IInv, TypeOK
  <2>2. recur_level > 0 => ndx = curr_top_ndx + 1 /\ ndx = recur_level
    BY <2>1 DEF IInv, TypeOK, TopTracksLevel, Inc
  <2>3. recur_level = 0 => ndx = 0
    BY <2>1, <1>3 DEF IInv, TypeOK, TopTracksLevel, Write, InBlock, Cells
  <2>4. recur_level <= recursion_limit
    BY <1>3, <2>1 DEF IInv, TypeOK, TopTracksLevel
  <2>5. recur_level' = recur_level + 1
    BY <1>3, <2>1, <2>4 DEF IInv, TypeOK, Inc
  <2>6. TopTracksLevel'
    BY <1>3, <2>1, <2>2, <2>3, <2>4, <2>5 DEF IInv, TypeOK, TopTracksLevel
  <2>7. stk' \in [Cells(recursion_limit) -> Addr \cup {Junk}] /\ overrun' \in BOOLEAN
    BY <1>3 DEF IInv, TypeOK, Write
  <2>8. TypeOK'
    BY <1>3, <2>1, <2>2, <2>3, <2>4, <2>5, <2>7 DEF IInv, TypeOK, TopTracksLevel
  <2> QED BY <2>6, <2>8 DEF IInv
<1> QED BY <1>1, <1>2, <1>3 DEF push_addr

\* What pop_addr and remove_addr do to the index and the count.
LEMMA DropIInv ==
  ASSUME IInv, recur_level > 0,
         curr_top_ndx' = Dec(curr_top_ndx), recur_level' = recur_level - 1,
         UNCHANGED recursion_limit
  PROVE  /\ TopTracksLevel'
         /\ curr_top_ndx' \in 0 .. WordMod - 1
         /\ recur_level' \in 0 .. FarIndex - 1
         /\ recur_level > 1 => curr_top_ndx' = recur_level - 2
         /\ recur_level = 1 => curr_top_ndx' = WordMod - 1
<1>1. recursion_limit \in 1 .. FarIndex - 2 /\ curr_top_ndx = recur_level - 1
  BY DEF IInv, TypeOK, TopTracksLevel
<1>2. CASE recur_level = 1
  <2>1. curr_top_ndx' = WordMod - 1
    BY <1>1, <1>2 DEF Dec
  <2> QED BY <1>1, <1>2, <2>1 DEF IInv, TypeOK, TopTracksLevel
<1>3. CASE recur_level > 1
  <2>1. curr_top_ndx' = curr_top_ndx - 1
    BY <1>1, <1>3 DEF Dec, IInv, TypeOK
  <2> QED BY <1>1, <1>3, <2>1 DEF IInv, TypeOK, TopTracksLevel
<1> QED BY <1>2, <1>3 DEF IInv, TypeOK

LEMMA PopIInv == ASSUME IInv, pop_addr PROVE IInv'
<1>1. CASE Throw("CALLSTACK_EMPTY_POP")
  BY <1>1, ThrowIInv DEF Errors
<1>2. CASE Fault(curr_top_ndx)
  BY <1>2, ThrowIInv DEF Fault
<1>3. CASE /\ recur_level > 0
           /\ ret' \in ReadOf(curr_top_ndx)
           /\ curr_top_ndx' = Dec(curr_top_ndx)
           /\ recur_level' = recur_level - 1
           /\ UNCHANGED <<stk, recursion_limit, err, overrun>>
  <2>1. ReadOf(curr_top_ndx) \subseteq Addr \cup {Junk}
    BY DEF IInv, TypeOK, ReadOf, InBlock
  <2> QED BY <1>3, <2>1, DropIInv DEF IInv, TypeOK
<1> QED BY <1>1, <1>2, <1>3 DEF pop_addr

LEMMA RemoveIInv ==
  ASSUME IInv, NEW i \in 0 .. WordMod - 1, remove_addr(i)
  PROVE  IInv'
<1>1. CASE Throw("CALLSTACK_EMPTY_POP")
  BY <1>1, ThrowIInv DEF Errors
<1>2. CASE Fault(curr_top_ndx)
  BY <1>2, ThrowIInv DEF Fault
<1>3. ASSUME NEW outside \in Addr,
             recur_level > 0,
             stk' = [c \in DOMAIN stk |->
                       IF i <= c /\ c < curr_top_ndx
                       THEN IF c + 1 \in DOMAIN stk THEN stk[c + 1] ELSE outside
                       ELSE stk[c]],
             curr_top_ndx' = Dec(curr_top_ndx),
             recur_level' = recur_level - 1,
             UNCHANGED <<recursion_limit, ret, err, overrun>>
      PROVE  IInv'
  <2>1. stk' \in [Cells(recursion_limit) -> Addr \cup {Junk}]
    BY <1>3 DEF IInv, TypeOK
  <2> QED BY <1>3, <2>1, DropIInv DEF IInv, TypeOK
<1> QED BY <1>1, <1>2, <1>3 DEF remove_addr

LEMMA ModifyIInv ==
  ASSUME IInv, NEW n \in Limits, modify_recur_limit(n)
  PROVE  IInv'
<1>1. CASE Throw("INVALID_CALLSTACK_RECUR_MOD")
  BY <1>1, ThrowIInv DEF Errors
<1>2. CASE Throw("AssemblerError")
  BY <1>2, ThrowIInv DEF Errors
<1>3. CASE /\ curr_top_ndx <= n /\ n > 0
           /\ stk' = [c \in Cells(n) |-> IF c \in DOMAIN stk THEN stk[c] ELSE Junk]
           /\ recursion_limit' = n
           /\ overrun' = (overrun \/ recur_level > n \div 4)
           /\ UNCHANGED <<curr_top_ndx, recur_level, ret, err>>
  <2>1. stk' \in [Cells(n) -> Addr \cup {Junk}]
    BY <1>3 DEF IInv, TypeOK
  <2>2. n \in Limits \ {0} /\ overrun' \in BOOLEAN
    BY <1>3 DEF IInv, TypeOK
  <2> QED BY <1>3, <2>1, <2>2 DEF IInv, TypeOK, TopTracksLevel
<1> QED BY <1>1, <1>2, <1>3 DEF modify_recur_limit

LEMMA NextIInv == IInv /\ [Next]_vars => IInv'
<1> SUFFICES ASSUME IInv, [Next]_vars PROVE IInv'
  OBVIOUS
<1>1. CASE \E a \in Addr : push_addr(a)
  BY <1>1, PushIInv
<1>2. CASE pop_addr
  BY <1>2, PopIInv
<1>3. CASE \E i \in 0 .. WordMod - 1 : remove_addr(i)
  BY <1>3, RemoveIInv
<1>4. CASE reset
  BY <1>4 DEF reset, IInv, TypeOK, TopTracksLevel
<1>5. CASE \E n \in Limits : modify_recur_limit(n)
  BY <1>5, ModifyIInv
<1>6. CASE UNCHANGED vars
  BY <1>6 DEF vars, IInv, TypeOK, TopTracksLevel
<1> QED BY <1>1, <1>2, <1>3, <1>4, <1>5, <1>6 DEF Next

LEMMA AlwaysIInv == Spec => []IInv
BY InitIInv, NextIInv, PTL DEF Spec

\* CallStack keeps its types.
THEOREM TypeCorrect == Spec => []TypeOK
<1>1. IInv => TypeOK
  BY DEF IInv
<1> QED BY <1>1, AlwaysIInv, PTL

\* The two counters push_addr, pop_addr and remove_addr keep apart agree.
THEOREM TopTracksLevelHolds == Spec => []TopTracksLevel
<1>1. IInv => TopTracksLevel
  BY DEF IInv
<1> QED BY <1>1, AlwaysIInv, PTL

-----------------------------------------------------------------------------
(***************************************************************************)
(* CallStack implements LifoStack.  The simulation needs one more fact: up *)
(* to the first access outside the block, the entries lie inside it.       *)
(***************************************************************************)

RInv == IInv /\ EntriesInBlock

LEMMA BrokenForever == Broken /\ [Next]_vars => Broken'
BY DEF Broken, Next, vars, push_addr, pop_addr, remove_addr, reset,
       modify_recur_limit, Throw, Fault, Write

\* The cell push_addr writes, in a state that keeps the invariant.
LEMMA PushCell ==
  ASSUME RInv, ~Broken,
         NEW ndx, ndx = IF recur_level > 0 THEN Inc(curr_top_ndx) ELSE curr_top_ndx
  PROVE  /\ recur_level > 0 => ndx = recur_level
         /\ recur_level = 0 => ndx = curr_top_ndx /\ ndx \in {0, WordMod - 1}
         /\ ~InBlock(ndx) => recur_level >= recursion_limit \div 4 \/ curr_top_ndx = WordMod - 1
         /\ InBlock(ndx) => /\ ndx = recur_level
                           /\ recur_level < recursion_limit \div 4
                           /\ curr_top_ndx # WordMod - 1
         /\ recur_level' = Inc(recur_level) => recur_level' = recur_level + 1
<1>1. recursion_limit \in 1 .. FarIndex - 2 /\ recur_level \in 0 .. FarIndex - 1
  BY DEF RInv, IInv, TypeOK
<1>2. recur_level <= recursion_limit \div 4
  BY DEF RInv, EntriesInBlock
<1>3. recur_level > 0 => ndx = recur_level /\ curr_top_ndx = recur_level - 1
  BY <1>1 DEF RInv, IInv, TypeOK, TopTracksLevel, Inc
<1>4. recur_level = 0 => ndx = curr_top_ndx /\ ndx \in {0, WordMod - 1}
  BY DEF RInv, IInv, TopTracksLevel
<1>5. recursion_limit \div 4 <= recursion_limit /\ recursion_limit \div 4 \in Nat
  BY <1>1
<1> QED BY <1>1, <1>2, <1>3, <1>4, <1>5 DEF InBlock, Cells, Inc

LEMMA NextEntries == RInv /\ [Next]_vars => EntriesInBlock'
<1> SUFFICES ASSUME RInv, [Next]_vars, ~Broken, ~Broken'
             PROVE  EntriesInBlock'
  BY BrokenForever DEF EntriesInBlock
<1> USE DEF EntriesInBlock
<1>1. /\ recur_level <= recursion_limit \div 4
      /\ \A c \in 0 .. recur_level - 1 : stk[c] \in Addr
      /\ recursion_limit \in 1 .. FarIndex - 2
      /\ recur_level \in 0 .. FarIndex - 1
      /\ stk \in [Cells(recursion_limit) -> Addr \cup {Junk}]
      /\ recur_level > 0 => curr_top_ndx = recur_level - 1
  BY DEF RInv, IInv, TypeOK, TopTracksLevel
<1>2. ASSUME NEW a \in Addr, push_addr(a) PROVE EntriesInBlock'
  <2> DEFINE ndx == IF recur_level > 0 THEN Inc(curr_top_ndx) ELSE curr_top_ndx
  <2>1. CASE \E e : Throw(e)
    BY <2>1, <1>1 DEF Throw
  <2>2. CASE Write(ndx, a) /\ recur_level' = Inc(recur_level) /\ UNCHANGED recursion_limit
    <3>1. InBlock(ndx) /\ stk' = [stk EXCEPT ![ndx] = a]
      BY <2>2 DEF Write, Broken
    <3>2. ndx = recur_level /\ recur_level < recursion_limit \div 4
          /\ recur_level' = recur_level + 1
      BY <3>1, <2>2, PushCell
    <3> QED BY <1>1, <2>2, <3>1, <3>2 DEF InBlock
  <2> QED BY <1>2, <2>1, <2>2 DEF push_addr, Fault
<1>3. CASE pop_addr
  BY <1>1, <1>3 DEF pop_addr, Throw, Fault
<1>4. ASSUME NEW i \in 0 .. WordMod - 1, remove_addr(i) PROVE EntriesInBlock'
  <2>1. CASE \E e : Throw(e)
    BY <2>1, <1>1 DEF Throw
  <2>2. ASSUME NEW outside \in Addr,
               recur_level > 0,
               stk' = [c \in DOMAIN stk |->
                         IF i <= c /\ c < curr_top_ndx
                         THEN IF c + 1 \in DOMAIN stk THEN stk[c + 1] ELSE outside
                         ELSE stk[c]],
               recur_level' = recur_level - 1,
               UNCHANGED recursion_limit
        PROVE  EntriesInBlock'
    <3>1. ASSUME NEW c \in 0 .. recur_level - 2 PROVE stk'[c] \in Addr
      <4>1. c \in DOMAIN stk /\ c + 1 \in DOMAIN stk
            /\ c + 1 \in 0 .. recur_level - 1 /\ c \in 0 .. recur_level - 1
        BY <1>1 DEF Cells
      <4> QED BY <1>1, <2>2, <4>1
    <3> QED BY <1>1, <2>2, <3>1
  <2> QED BY <1>4, <2>1, <2>2 DEF remove_addr, Fault
<1>5. CASE reset
  BY <1>1, <1>5 DEF reset
<1>6. ASSUME NEW n \in Limits, modify_recur_limit(n) PROVE EntriesInBlock'
  <2>1. CASE \E e : Throw(e)
    BY <2>1, <1>1 DEF Throw
  <2>2. CASE /\ stk' = [c \in Cells(n) |-> IF c \in DOMAIN stk THEN stk[c] ELSE Junk]
             /\ recursion_limit' = n
             /\ overrun' = (overrun \/ recur_level > n \div 4)
             /\ UNCHANGED recur_level
    <3>1. recur_level <= n \div 4
      <4>1. ~(recur_level > n \div 4)
        BY <2>2, Zenon DEF Broken
      <4>2. n \div 4 \in Int
        OBVIOUS
      <4> QED BY <1>1, <4>1, <4>2
    <3>2. \A c \in 0 .. recur_level - 1 : c \in Cells(n) /\ c \in DOMAIN stk
      BY <1>1, <3>1 DEF Cells
    <3> QED BY <1>1, <2>2, <3>1, <3>2
  <2> QED BY <1>6, <2>1, <2>2 DEF modify_recur_limit
<1>7. CASE UNCHANGED vars
  BY <1>1, <1>7 DEF vars
<1> QED BY <1>2, <1>3, <1>4, <1>5, <1>6, <1>7 DEF Next

LEMMA AlwaysRInv == Spec => []RInv
<1>1. Init => EntriesInBlock
  BY DEF Init, EntriesInBlock
<1> QED BY <1>1, InitIInv, NextIInv, NextEntries, PTL DEF Spec, RInv

LEMMA EntriesSeq ==
  ASSUME RInv, ~Broken
  PROVE  /\ Entries \in Seq(Addr)
         /\ Len(Entries) = recur_level
         /\ \A i \in 1 .. recur_level : Entries[i] = stk[i - 1]
<1>1. recur_level \in Nat
  BY DEF RInv, IInv, TypeOK
<1>2. \A i \in 1 .. recur_level : stk[i - 1] \in Addr
  BY <1>1 DEF RInv, EntriesInBlock
<1>3. Entries \in [1 .. recur_level -> Addr]
  BY <1>2 DEF Entries
<1> QED BY <1>1, <1>3 DEF Entries

\* A step that leaves the stack unbroken, operation by operation.
LEMMA PushSimulates ==
  ASSUME RInv, RInv', ~Broken, ~Broken', NEW a \in Addr, push_addr(a),
         err' = "none"
  PROVE  Lifo!Push(a)
<1> DEFINE ndx == IF recur_level > 0 THEN Inc(curr_top_ndx) ELSE curr_top_ndx
<1>1. /\ InBlock(ndx) /\ stk' = [stk EXCEPT ![ndx] = a]
      /\ curr_top_ndx' = ndx /\ recur_level' = Inc(recur_level)
      /\ UNCHANGED <<recursion_limit, ret, err>>
  BY DEF push_addr, Throw, Fault, Write, Broken
<1>2. /\ ndx = recur_level /\ recur_level < recursion_limit \div 4
      /\ curr_top_ndx # WordMod - 1 /\ recur_level' = recur_level + 1
  BY <1>1, PushCell
<1>3. Entries \in Seq(Addr) /\ Len(Entries) = recur_level
  BY EntriesSeq
<1>4. recur_level \in Nat /\ stk \in [Cells(recursion_limit) -> Addr \cup {Junk}]
      /\ recursion_limit \in 1 .. FarIndex - 2
  BY DEF RInv, IInv, TypeOK
<1>5. Entries' = Append(Entries, a)
  <2>1. Entries' = [i \in 1 .. recur_level + 1 |-> stk'[i - 1]]
    BY <1>2 DEF Entries
  <2>2. \A i \in 1 .. recur_level : stk'[i - 1] = stk[i - 1]
    BY <1>1, <1>2, <1>4 DEF InBlock, Cells
  <2>3. stk'[recur_level] = a
    BY <1>1, <1>2, <1>4 DEF InBlock
  <2>4. \A i \in 1 .. recur_level : Entries[i] = stk[i - 1]
    BY EntriesSeq
  <2>5. \A i \in 1 .. recur_level + 1 :
           stk'[i - 1] = IF i <= recur_level THEN Entries[i] ELSE a
    <3> TAKE i \in 1 .. recur_level + 1
    <3>1. i \in 1 .. recur_level \/ i = recur_level + 1
      BY <1>4
    <3> QED BY <2>2, <2>3, <2>4, <3>1, <1>4
  <2>6. Entries' = [i \in 1 .. recur_level + 1 |-> IF i <= recur_level THEN Entries[i] ELSE a]
    BY <2>1, <2>5
  <2> QED BY <1>3, <2>6, AppendIsFunction
<1>6. curr_top_ndx' # WordMod - 1
  <2>1. ndx < WordMod - 1
    BY <1>2, <1>4
  <2> QED BY <1>1, <2>1
<1> QED BY <1>1, <1>2, <1>3, <1>5, <1>6 DEF Lifo!Push, Lifo!Running, push_addr

\* The entries that are left when one is taken out.
LEMMA PopSimulates ==
  ASSUME RInv, RInv', ~Broken, ~Broken', pop_addr, err' = "none"
  PROVE  Lifo!Pop
<1>1. /\ recur_level > 0 /\ ret' \in ReadOf(curr_top_ndx)
      /\ curr_top_ndx' = Dec(curr_top_ndx) /\ recur_level' = recur_level - 1
      /\ UNCHANGED <<stk, recursion_limit, err, overrun>> /\ err = "none"
  BY DEF pop_addr, Throw, Fault
<1>2. /\ recur_level \in Nat /\ curr_top_ndx = recur_level - 1
      /\ recur_level <= recursion_limit \div 4 /\ recur_level < FarIndex
      /\ recursion_limit \in Nat
  BY <1>1 DEF RInv, IInv, TypeOK, TopTracksLevel, EntriesInBlock
<1>3. Entries \in Seq(Addr) /\ Len(Entries) = recur_level
      /\ \A i \in 1 .. recur_level : Entries[i] = stk[i - 1]
  BY EntriesSeq
<1>4. ret' = Entries[recur_level]
  BY <1>1, <1>2, <1>3 DEF ReadOf, InBlock, Cells
<1>5. Entries' = SubSeq(Entries, 1, recur_level - 1)
  <2>1. Entries' = [i \in 1 .. recur_level - 1 |-> Entries[i]]
    BY <1>1, <1>2, <1>3 DEF Entries
  <2> QED BY <1>2, <1>3, <2>1
<1>6. (curr_top_ndx' = WordMod - 1) = (recur_level = 1)
  BY <1>1, <1>2, DropIInv DEF RInv
<1>7. Entries # <<>>
  BY <1>1, <1>2, <1>3
<1> QED BY <1>1, <1>3, <1>4, <1>5, <1>6, <1>7
        DEF Lifo!Pop, Lifo!DropOne, Lifo!Running, Lifo!Last, Lifo!Front

LEMMA RemoveSimulates ==
  ASSUME RInv, RInv', ~Broken, ~Broken', NEW index \in 0 .. WordMod - 1,
         remove_addr(index), err' = "none"
  PROVE  \E i \in 1 .. Len(Entries) : Lifo!TakeOut(i)
<1> DEFINE i == IF index < curr_top_ndx THEN index + 1 ELSE recur_level
<1>1. PICK outside \in Addr :
      /\ recur_level > 0
      /\ stk' = [c \in DOMAIN stk |->
                   IF index <= c /\ c < curr_top_ndx
                   THEN IF c + 1 \in DOMAIN stk THEN stk[c + 1] ELSE outside
                   ELSE stk[c]]
      /\ curr_top_ndx' = Dec(curr_top_ndx) /\ recur_level' = recur_level - 1
      /\ UNCHANGED <<recursion_limit, ret, err, overrun>> /\ err = "none"
  BY DEF remove_addr, Throw, Fault
<1>2. /\ recur_level \in Nat /\ curr_top_ndx = recur_level - 1
      /\ recur_level <= recursion_limit \div 4 /\ recur_level < FarIndex
      /\ recursion_limit \in Nat /\ stk \in [Cells(recursion_limit) -> Addr \cup {Junk}]
  BY <1>1 DEF RInv, IInv, TypeOK, TopTracksLevel, EntriesInBlock
<1>3. Entries \in Seq(Addr) /\ Len(Entries) = recur_level
      /\ \A k \in 1 .. recur_level : Entries[k] = stk[k - 1]
  BY EntriesSeq
<1>4. i \in 1 .. recur_level
  BY <1>1, <1>2
<1>5. Entries' = SubSeq(Entries, 1, i - 1) \o SubSeq(Entries, i + 1, recur_level)
  <2>1. Entries' = [k \in 1 .. recur_level - 1 |->
                      IF k < i THEN Entries[k] ELSE Entries[k + 1]]
    <3>1. Entries' = [k \in 1 .. recur_level - 1 |-> stk'[k - 1]]
      BY <1>1 DEF Entries
    <3>2. ASSUME NEW k \in 1 .. recur_level - 1
          PROVE  stk'[k - 1] = IF k < i THEN Entries[k] ELSE Entries[k + 1]
      <4>1. k - 1 \in DOMAIN stk /\ (k - 1) + 1 \in DOMAIN stk /\ (k - 1) + 1 = k
        BY <1>2 DEF Cells
      <4> QED BY <1>1, <1>2, <1>3, <4>1
    <3> QED BY <3>1, <3>2
  <2> HIDE DEF i
  <2> QED BY <1>3, <1>4, <2>1, RemoveAtIsFunction
<1>6. (curr_top_ndx' = WordMod - 1) = (recur_level = 1)
  BY <1>1, <1>2, DropIInv DEF RInv
<1>7. Entries # <<>>
  BY <1>1, <1>2, <1>3
<1>8. Lifo!TakeOut(i)
  BY <1>1, <1>3, <1>4, <1>5, <1>6, <1>7
     DEF Lifo!TakeOut, Lifo!DropOne, Lifo!Running, Lifo!RemoveAt
<1> QED BY <1>3, <1>4, <1>8

\* A step out of the promise is one that LifoStack's Break names.
LEMMA BreakSimulates ==
  ASSUME RInv, ~Broken, Broken', [Next]_vars
  PROVE  Lifo!Break
<1>1. /\ recur_level \in Nat /\ recur_level <= recursion_limit \div 4
      /\ recur_level > 0 => InBlock(curr_top_ndx)
      /\ Len(Entries) = recur_level
  <2>1. /\ recur_level \in Nat /\ recur_level <= recursion_limit \div 4
        /\ recur_level > 0 => curr_top_ndx = recur_level - 1
        /\ recursion_limit \in Nat
    BY DEF RInv, IInv, TypeOK, TopTracksLevel, EntriesInBlock
  <2> QED BY <2>1, EntriesSeq DEF InBlock, Cells
<1>2. ASSUME err = "none", UNCHANGED <<recursion_limit, ret>>,
             recur_level >= recursion_limit \div 4 \/ curr_top_ndx = WordMod - 1
      PROVE  Lifo!Break
  BY <1>1, <1>2 DEF Lifo!Break, Lifo!Running
<1>3. ASSUME NEW a \in Addr, push_addr(a) PROVE Lifo!Break
  <2> DEFINE ndx == IF recur_level > 0 THEN Inc(curr_top_ndx) ELSE curr_top_ndx
  <2>1. ~InBlock(ndx)
    BY <1>3 DEF push_addr, Throw, Fault, Write, Broken
  <2>2. UNCHANGED <<recursion_limit, ret>>
    BY <1>3 DEF push_addr, Throw, Fault
  <2> QED BY <1>2, <1>3, <2>1, <2>2, PushCell DEF push_addr
<1>4. CASE pop_addr
  BY <1>1, <1>4 DEF pop_addr, Throw, Fault, Broken
<1>5. ASSUME NEW i \in 0 .. WordMod - 1, remove_addr(i) PROVE Lifo!Break
  BY <1>1, <1>5 DEF remove_addr, Throw, Fault, Broken
<1>6. CASE reset
  BY <1>6 DEF reset, Broken
<1>7. ASSUME NEW n \in Limits, modify_recur_limit(n) PROVE Lifo!Break
  <2>1. err' # "fault"
    BY <1>7 DEF modify_recur_limit, Throw
  <2>2. /\ err = "none" /\ recursion_limit' = n /\ UNCHANGED ret
        /\ overrun' = (overrun \/ recur_level > n \div 4)
    BY <1>7 DEF modify_recur_limit, Throw, Broken
  <2>3. recur_level > n \div 4
    BY <2>1, <2>2, Zenon DEF Broken
  <2>4. n \div 4 < recur_level
    <3>1. n \div 4 \in Int
      OBVIOUS
    <3> QED BY <1>1, <2>3, <3>1
  <2> QED BY <1>1, <2>2, <2>4 DEF Lifo!Break, Lifo!Running
<1>8. CASE UNCHANGED vars
  BY <1>8 DEF vars, Broken
<1> QED BY <1>3, <1>4, <1>5, <1>6, <1>7, <1>8 DEF Next

\* An exception, and the two operations that only move the limits.
LEMMA ThrowSimulates ==
  ASSUME RInv, ~Broken, ~Broken', [Next]_vars, err = "none", err' # "none"
  PROVE  \E e \in Errors : Lifo!Refuse(e)
<1>0. Len(Entries) = recur_level
  BY EntriesSeq
<1>1. /\ recur_level \in Nat /\ recursion_limit \in Nat
      /\ recursion_limit > 0 /\ recur_level <= recursion_limit \div 4
      /\ recur_level > 0 => curr_top_ndx = recur_level - 1
      /\ recur_level = 0 => curr_top_ndx \in {0, WordMod - 1}
      /\ recursion_limit < WordMod - 1
  BY DEF RInv, IInv, TypeOK, TopTracksLevel, EntriesInBlock
<1>2. ASSUME NEW e \in Errors, Throw(e),
             e = "CALLSTACK_EMPTY_POP" => recur_level = 0,
             e # "CALLSTACK_EXCEEDED_RECUR_LIMIT",
             e = "INVALID_CALLSTACK_RECUR_MOD"
                => curr_top_ndx = WordMod - 1 \/ recur_level > 1
      PROVE  Lifo!Refuse(e)
  <2>1. Entries' = Entries /\ UNCHANGED <<recursion_limit, curr_top_ndx, ret>> /\ err' = e
    BY <1>2 DEF Throw, Entries
  <2>2. recur_level = 0 => Entries = <<>>
    BY DEF Entries
  <2>3. Lifo!Running
    BY DEF Lifo!Running
  <2>4. e # "none" /\ (CASE Broken -> "undefined"
                         [] ~Broken /\ err = "none" -> "running"
                         [] OTHER -> err)' = e
    BY <2>1 DEF Errors
  <2>5. UNCHANGED <<IF Broken THEN <<>> ELSE Entries, recursion_limit \div 4,
                    curr_top_ndx = WordMod - 1, ret>>
    BY <2>1
  <2>6. e = "INVALID_CALLSTACK_RECUR_MOD"
           => curr_top_ndx = WordMod - 1 \/ Len(IF Broken THEN <<>> ELSE Entries) > 1
    BY <1>0, <1>2
  <2> QED BY <1>2, <2>2, <2>3, <2>4, <2>5, <2>6 DEF Lifo!Refuse
<1>3. ASSUME NEW a \in Addr, push_addr(a) PROVE FALSE
  <2>1. curr_top_ndx = recursion_limit
    BY <1>3 DEF push_addr, Throw, Fault, Broken
  <2>2. recursion_limit \div 4 <= recursion_limit
    BY <1>1
  <2> QED BY <1>1, <2>1, <2>2
<1>4. CASE pop_addr
  <2>1. recur_level = 0 /\ Throw("CALLSTACK_EMPTY_POP")
    BY <1>4 DEF pop_addr, Throw, Fault, Broken
  <2> QED BY <1>2, <2>1 DEF Errors
<1>5. ASSUME NEW i \in 0 .. WordMod - 1, remove_addr(i)
      PROVE  \E e \in Errors : Lifo!Refuse(e)
  <2>1. recur_level = 0 /\ Throw("CALLSTACK_EMPTY_POP")
    BY <1>5 DEF remove_addr, Throw, Fault, Broken
  <2> QED BY <1>2, <2>1 DEF Errors
<1>6. ASSUME NEW n \in Limits, modify_recur_limit(n)
      PROVE  \E e \in Errors : Lifo!Refuse(e)
  <2>1. CASE curr_top_ndx > n /\ Throw("INVALID_CALLSTACK_RECUR_MOD")
    <3>1. curr_top_ndx = WordMod - 1 \/ recur_level > 1
      <4>1. n \in Nat
        OBVIOUS
      <4> QED BY <1>1, <2>1, <4>1
    <3> QED BY <1>2, <2>1, <3>1 DEF Errors
  <2>2. CASE Throw("AssemblerError")
    BY <1>2, <2>2 DEF Errors
  <2> QED BY <1>6, <2>1, <2>2 DEF modify_recur_limit
<1>7. ~reset /\ ~UNCHANGED vars
  BY DEF reset, vars
<1> QED BY <1>3, <1>4, <1>5, <1>6, <1>7 DEF Next

LEMMA ResizeSimulates ==
  ASSUME RInv, ~Broken, ~Broken', NEW n \in Limits, modify_recur_limit(n),
         err' = "none"
  PROVE  Lifo!Resize(n \div 4)
<1>1. /\ stk' = [c \in Cells(n) |-> IF c \in DOMAIN stk THEN stk[c] ELSE Junk]
      /\ recursion_limit' = n
      /\ overrun' = (overrun \/ recur_level > n \div 4)
      /\ UNCHANGED <<curr_top_ndx, recur_level, ret, err>> /\ err = "none"
  BY DEF modify_recur_limit, Throw
<1>2. Len(Entries) = recur_level /\ recur_level \in Nat /\ recursion_limit \in Nat
      /\ recur_level <= recursion_limit \div 4 /\ n \div 4 \in Int
      /\ stk \in [Cells(recursion_limit) -> Addr \cup {Junk}]
  BY EntriesSeq DEF RInv, IInv, TypeOK, EntriesInBlock
<1>3. recur_level <= n \div 4
  <2>1. ~(recur_level > n \div 4)
    BY <1>1, Zenon DEF Broken
  <2> QED BY <1>2, <2>1
<1>4. Entries' = Entries
  <2>1. \A i \in 1 .. recur_level : i - 1 \in Cells(n) /\ i - 1 \in DOMAIN stk
    BY <1>2, <1>3 DEF Cells
  <2>2. \A i \in 1 .. recur_level : stk'[i - 1] = stk[i - 1]
    BY <1>1, <2>1
  <2> QED BY <1>1, <2>2 DEF Entries
<1> QED BY <1>1, <1>2, <1>3, <1>4 DEF Lifo!Resize, Lifo!Running

LEMMA StepSimulates == RInv /\ RInv' /\ [Next]_vars => [Lifo!Next]_(Lifo!vars)
<1> SUFFICES ASSUME RInv, RInv', [Next]_vars PROVE [Lifo!Next]_(Lifo!vars)
  OBVIOUS
<1>1. CASE Broken
  BY <1>1, BrokenForever DEF Lifo!Next, Lifo!Undefined
<1>2. CASE ~Broken /\ Broken'
  BY <1>2, BreakSimulates DEF Lifo!Next
<1>3. CASE ~Broken /\ ~Broken' /\ err = "none" /\ err' # "none"
  BY <1>3, ThrowSimulates DEF Lifo!Next
<1>4. CASE ~Broken /\ ~Broken' /\ err' = "none"
  <2>1. ASSUME NEW a \in Addr, push_addr(a) PROVE Lifo!Next
    BY <1>4, <2>1, PushSimulates DEF Lifo!Next
  <2>2. CASE pop_addr
    BY <1>4, <2>2, PopSimulates DEF Lifo!Next
  <2>3. ASSUME NEW i \in 0 .. WordMod - 1, remove_addr(i) PROVE Lifo!Next
    BY <1>4, <2>3, RemoveSimulates DEF Lifo!Next
  <2>4. CASE reset
    <3>1. Entries' = <<>> /\ curr_top_ndx' # WordMod - 1
      <4>1. recur_level' = 0 /\ curr_top_ndx' = 0 /\ WordMod > 1
        BY <2>4 DEF reset, RInv, IInv, TypeOK
      <4> QED BY <4>1 DEF Entries
    <3> QED BY <1>4, <2>4, <3>1 DEF Lifo!Next, Lifo!Clear, Lifo!Running, reset
  <2>5. ASSUME NEW n \in Limits, modify_recur_limit(n) PROVE Lifo!Next
    BY <1>4, <2>5, ResizeSimulates DEF Lifo!Next
  <2>6. CASE UNCHANGED vars
    BY <2>6 DEF vars, Lifo!vars, Entries, Broken
  <2> QED BY <2>1, <2>2, <2>3, <2>4, <2>5, <2>6 DEF Next
<1>5. CASE err # "none"
  <2>1. UNCHANGED vars
    BY <1>5 DEF Next, push_addr, pop_addr, remove_addr, reset, modify_recur_limit
  <2> QED BY <2>1 DEF vars, Lifo!vars, Entries, Broken
<1> QED BY <1>1, <1>2, <1>3, <1>4, <1>5

\* CallStack implements a LIFO stack up to the first access outside its block,
\* and such an access has one of the two causes LifoStack's Break names.
THEOREM CallStackImplementsLifo == Spec => ImplementsLifo
<1>1. Init => Lifo!Init
  <2> SUFFICES ASSUME Init PROVE Lifo!Init
    OBVIOUS
  <2>1. Entries = <<>>
    BY DEF Init, Entries
  <2>2. recursion_limit \div 4 \in {n \div 4 : n \in Limits}
    BY DEF Init
  <2>3. ~Broken
    BY DEF Init, Broken
  <2>4. curr_top_ndx # WordMod - 1
    <3>1. recursion_limit \in 0 .. FarIndex - 2
      BY DEF Init
    <3> QED BY <3>1 DEF Init
  <2> QED BY <2>1, <2>2, <2>3, <2>4 DEF Init, Lifo!Init
<1> QED BY <1>1, AlwaysRInv, StepSimulates, PTL DEF Spec, ImplementsLifo, Lifo!Spec

=============================================================================
