--------------------------- MODULE WorkStackProofs ---------------------------
(***************************************************************************)
(* Proofs about WorkStack, for every size of memory, every set of words    *)
(* and every address users write to: the types of its variables, that the  *)
(* top address follows the count, that the words counted are whole, and    *)
(* that it implements TypedStack.                                          *)
(***************************************************************************)
EXTENDS WorkStack, DataLemmas, TLAPS

USE WorkStackAssumption

WordTypes == {"UINT32", "INT32"}

\* As long as the program runs, the top is inside the block; and until a word is
\* written across others or past the block, all of the top word is.
TopInBlock ==
    err = "none" =>
        /\ top_addr < memory_size
        /\ broken = "no" /\ obj_count > 0 => top_addr + 3 < memory_size

IInv == TypeOK /\ TopInBlock /\ TopTracksCount /\ WordsAreWhole

\* A word is at addr when its four bytes are.
Whole(m, r, addr) ==
    /\ r[addr] \in WordTypes
    /\ \A k \in 1 .. 3 : r[addr + k] \in {"INSIDE_UINT", "INSIDE_INT"}
    /\ \E v \in Value : \A k \in 0 .. 3 : addr + k \in DOMAIN m /\ m[addr + k] = <<v, k>>

LEMMA WordAtValue ==
  ASSUME NEW addr \in Int
  PROVE  /\ WordAt(addr) \in Value \cup {Torn}
         /\ WordAt(addr) \in Value <=>
                (\E v \in Value : \A k \in 0 .. 3 : addr + k \in DOMAIN mem /\ mem[addr + k] = <<v, k>>)
         /\ \A v \in Value :
                (\A k \in 0 .. 3 : addr + k \in DOMAIN mem /\ mem[addr + k] = <<v, k>>) => WordAt(addr) = v
<1>1. ASSUME NEW v \in Value, \A k \in 0 .. 3 : addr + k \in DOMAIN mem /\ mem[addr + k] = <<v, k>>
      PROVE  WordAt(addr) = v
  <2>1. mem[addr] = <<v, 0>>
    BY <1>1
  <2> QED BY <1>1, <2>1 DEF WordAt
<1>2. CASE \E v \in Value : \A k \in 0 .. 3 : addr + k \in DOMAIN mem /\ mem[addr + k] = <<v, k>>
  BY <1>1, <1>2
<1>3. CASE ~ \E v \in Value : \A k \in 0 .. 3 : addr + k \in DOMAIN mem /\ mem[addr + k] = <<v, k>>
  <2>1. WordAt(addr) = Torn
    BY <1>3 DEF WordAt
  <2>2. WordAt(addr) \notin Value
    BY <2>1
  <2> QED BY <1>1, <1>3, <2>1, <2>2, Zenon
<1> QED BY <1>1, <1>2, <1>3

LEMMA InitIInv == Init => IInv
<1> SUFFICES ASSUME Init PROVE IInv
  OBVIOUS
<1>1. memory_size \in MemorySizes /\ memory_size \in 4 .. WordMod - 5
  BY DEF Init
<1>2. TypeOK
  BY <1>1 DEF Init, TypeOK
<1> QED BY <1>1, <1>2 DEF Init, IInv, TopInBlock, TopTracksCount, WordsAreWhole

\* An exception changes nothing but err.
LEMMA ThrowIInv ==
  ASSUME IInv, NEW e \in Errors, Throw(e)
  PROVE  IInv'
<1>1. err' # "none"
  BY DEF Throw, Errors
<1>2. TypeOK'
  BY DEF Throw, IInv, TypeOK
<1> QED BY <1>1, <1>2 DEF IInv, TopInBlock, TopTracksCount, WordsAreWhole

LEMMA StoreTypes ==
  ASSUME TypeOK, NEW addr \in Nat, NEW t \in WordTypes, NEW v \in Value, Store(addr, t, v)
  PROVE  /\ mem' \in [0 .. memory_size - 1 -> (Value \X (0 .. 3)) \cup {Junk}]
         /\ type_record' \in [0 .. memory_size - 1 -> TypeCodes \cup FreshTypes]
<1>1. \A b \in DOMAIN mem : b \in addr .. addr + 3 => b - addr \in 0 .. 3
  BY DEF TypeOK
<1>2. mem' \in [0 .. memory_size - 1 -> (Value \X (0 .. 3)) \cup {Junk}]
  BY <1>1 DEF Store, TypeOK
<1>3. type_record' \in [0 .. memory_size - 1 -> TypeCodes \cup FreshTypes]
  BY DEF Store, TypeOK, TypeCodes, WordTypes
<1> QED BY <1>2, <1>3

\* The word just stored, and those before and behind it.
LEMMA StoreWhole ==
  ASSUME TypeOK, NEW addr \in Nat, addr + 3 < memory_size,
         NEW t \in WordTypes, NEW v \in Value, Store(addr, t, v)
  PROVE  /\ Whole(mem', type_record', addr)
         /\ type_record'[addr] = t
         /\ \A k \in 0 .. 3 : addr + k \in DOMAIN mem' /\ mem'[addr + k] = <<v, k>>
<1>1. \A k \in 0 .. 3 : addr + k \in 0 .. memory_size - 1 /\ addr + k \in addr .. addr + 3
  BY DEF TypeOK
<1>2. ASSUME NEW k \in 0 .. 3 PROVE addr + k \in DOMAIN mem' /\ mem'[addr + k] = <<v, k>>
  <2>1. addr + k \in DOMAIN mem /\ addr + k \in addr .. addr + 3 /\ (addr + k) - addr = k
    BY <1>1 DEF TypeOK
  <2> QED BY <2>1 DEF Store
<1>3. type_record'[addr] = t
  BY <1>1 DEF Store, TypeOK
<1>4. ASSUME NEW k \in 1 .. 3 PROVE type_record'[addr + k] \in {"INSIDE_UINT", "INSIDE_INT"}
  <2>1. addr + k \in DOMAIN type_record /\ addr + k \in (addr .. addr + 3) \ {addr}
    BY <1>1 DEF TypeOK
  <2>2. \/ type_record'[addr + k] = "INSIDE_UINT"
        \/ type_record'[addr + k] = "INSIDE_INT"
    BY <2>1 DEF Store
  <2> QED BY <2>2
<1> QED BY <1>2, <1>3, <1>4 DEF Whole

LEMMA StoreElsewhere ==
  ASSUME TypeOK, NEW addr \in Nat, NEW t, NEW v, Store(addr, t, v),
         NEW other \in Nat, other + 3 < addr \/ addr + 3 < other,
         Whole(mem, type_record, other)
  PROVE  /\ Whole(mem', type_record', other)
         /\ type_record'[other] = type_record[other]
         /\ \A k \in 0 .. 3 : mem'[other + k] = mem[other + k]
<1>1. \A k \in 0 .. 3 : other + k \in DOMAIN mem /\ other + k \notin addr .. addr + 3
  BY DEF Whole
<1>2. DOMAIN mem = DOMAIN type_record /\ DOMAIN mem' = DOMAIN mem
  BY DEF Store, TypeOK
<1>3. \A k \in 0 .. 3 : mem'[other + k] = mem[other + k] /\ type_record'[other + k] = type_record[other + k]
  BY <1>1, <1>2 DEF Store
<1>4. type_record'[other] = type_record[other]
  BY <1>3
<1> QED BY <1>2, <1>3, <1>4 DEF Whole

\* WordsAreWhole, word by word.
LEMMA WholeWords ==
  ASSUME IInv, err = "none", broken = "no"
  PROVE  /\ \A i \in 0 .. obj_count - 1 : Whole(mem, type_record, 4 * i)
         /\ obj_count > 0 => top_addr = 4 * (obj_count - 1)
         /\ obj_count = 0 => top_addr = 0
<1>1. ASSUME NEW i \in 0 .. obj_count - 1 PROVE Whole(mem, type_record, 4 * i)
  <2>1. WordAt(4 * i) \in Value
    BY DEF IInv, WordsAreWhole
  <2>2. 4 * i \in Int
    OBVIOUS
  <2> QED BY <2>1, <2>2, WordAtValue DEF IInv, WordsAreWhole, Whole, WordTypes
<1> QED BY <1>1 DEF IInv, TopTracksCount, TypeOK

\* And back, for the next state.
LEMMA WordsWhole ==
  ASSUME obj_count' \in Nat, \A i \in 0 .. obj_count' - 1 : Whole(mem', type_record', 4 * i)
  PROVE  WordsAreWhole'
<1>1. ASSUME NEW i \in 0 .. obj_count' - 1 PROVE WordAt(4 * i)' \in Value
  <2>1. PICK v \in Value : \A k \in 0 .. 3 : 4 * i + k \in DOMAIN mem' /\ mem'[4 * i + k] = <<v, k>>
    BY DEF Whole
  <2>2. mem'[4 * i] = <<v, 0>>
    BY <2>1
  <2> QED BY <2>1, <2>2 DEF WordAt
<1> QED BY <1>1 DEF WordsAreWhole, Whole, WordTypes

LEMMA PushIInv ==
  ASSUME IInv, NEW t \in WordTypes, NEW v \in Value, push(t, v)
  PROVE  IInv'
<1> DEFINE addr == IF obj_count > 0 THEN top_addr + 4 ELSE top_addr
<1>0. memory_size \in 4 .. WordMod - 5 /\ WordMod \in Nat /\ obj_count \in Nat
      /\ top_addr \in 0 .. WordMod - 1 /\ top_addr < memory_size /\ addr \in Nat
  BY DEF IInv, TypeOK, push, TopInBlock
<1>1. CASE err' # "none"
  <2>1. addr \in 0 .. WordMod - 1
    BY <1>0
  <2>2. ASSUME Store(addr, t, v),
               IF PastBlock(addr) THEN Break("overrun") ELSE UNCHANGED broken,
               UNCHANGED err \/ err' = "fault"
        PROVE  TypeOK'
    BY <1>0, <2>1, <2>2, StoreTypes DEF push, IInv, TypeOK, Break
  <2>3. ASSUME UNCHANGED <<mem, type_record, broken>>, err' = "INVALID_ADDR"
        PROVE  TypeOK'
    BY <1>0, <2>1, <2>3 DEF push, IInv, TypeOK, Errors
  <2>4. TypeOK'
    BY <2>2, <2>3 DEF push
  <2> QED BY <1>1, <2>4 DEF IInv, TopInBlock, TopTracksCount, WordsAreWhole
<1>2. CASE err' = "none"
  <2>1. /\ addr < memory_size /\ Store(addr, t, v)
        /\ obj_count' = obj_count + 1 /\ top_addr' = addr
        /\ UNCHANGED <<memory_size, ret, err>>
        /\ IF PastBlock(addr) THEN Break("overrun") ELSE UNCHANGED broken
    BY <1>0, <1>2 DEF push
  <2>2. TypeOK'
    BY <1>0, <2>1, StoreTypes DEF IInv, TypeOK, Break
  <2>3. TopInBlock'
    BY <1>0, <2>1 DEF TopInBlock, PastBlock, Break, IInv, TypeOK
  <2>4. CASE broken' # "no"
    BY <2>2, <2>3, <2>4 DEF IInv, TopTracksCount, WordsAreWhole
  <2>5. CASE broken' = "no"
    <3>1. broken = "no" /\ addr + 3 < memory_size /\ addr = 4 * obj_count
      <4>1. broken = "no" /\ addr + 3 < memory_size
        BY <1>0, <2>1, <2>5 DEF PastBlock, Break
      <4> QED BY <1>0, <1>2, <2>1, <4>1, WholeWords
    <3>2. TopTracksCount'
      BY <1>0, <2>1, <3>1 DEF TopTracksCount
    <3>3. ASSUME NEW i \in 0 .. obj_count' - 1 PROVE Whole(mem', type_record', 4 * i)
      <4>1. CASE i = obj_count
        BY <1>0, <2>1, <3>1, <4>1, StoreWhole DEF IInv
      <4>2. CASE i # obj_count
        <5>1. i \in 0 .. obj_count - 1 /\ 4 * i \in Nat /\ 4 * i + 3 < addr
          BY <1>0, <2>1, <3>1, <4>2
        <5>2. Whole(mem, type_record, 4 * i)
          BY <1>2, <2>1, <3>1, <5>1, WholeWords
        <5> QED BY <1>0, <2>1, <5>1, <5>2, StoreElsewhere DEF IInv
      <4> QED BY <4>1, <4>2
    <3>4. WordsAreWhole'
      BY <1>0, <2>1, <3>3, WordsWhole
    <3> QED BY <2>2, <2>3, <3>2, <3>4 DEF IInv
  <2> QED BY <2>4, <2>5
<1> QED BY <1>1, <1>2

\* prepare_stack_top(POP) on a word at the top.
LEMMA PrepareIInv ==
  ASSUME IInv, err = "none", obj_count > 0, PrepareTopToPop,
         ret' \in Value \cup {NoValue, Torn}
  PROVE  IInv'
<1>0. memory_size \in 4 .. WordMod - 5 /\ WordMod \in Nat /\ obj_count \in Nat
      /\ top_addr \in 0 .. WordMod - 1 /\ top_addr < memory_size
      /\ UNCHANGED <<memory_size, mem, broken>>
  BY DEF IInv, TypeOK, TopInBlock, PrepareTopToPop
<1>1. top_addr' \in 0 .. WordMod - 1 /\ obj_count' \in Nat /\ obj_count' = obj_count - 1
  BY <1>0 DEF PrepareTopToPop
<1>2. type_record' \in [0 .. memory_size - 1 -> TypeCodes \cup FreshTypes]
  BY DEF PrepareTopToPop, IInv, TypeOK, TypeCodes
<1>3. err' \in {"none"} \cup Errors
  BY DEF PrepareTopToPop, Errors
<1>4. TypeOK'
  BY <1>0, <1>1, <1>2, <1>3 DEF IInv, TypeOK
<1>5. CASE err' # "none"
  BY <1>4, <1>5 DEF IInv, TopInBlock, TopTracksCount, WordsAreWhole
<1>6. CASE err' = "none"
  <2>1. top_addr' < memory_size
    BY <1>0, <1>1, <1>6 DEF PrepareTopToPop
  <2>2. CASE broken # "no"
    BY <1>0, <1>4, <2>1, <2>2 DEF IInv, TopInBlock, TopTracksCount, WordsAreWhole
  <2>3. CASE broken = "no"
    <3>1. /\ top_addr = 4 * (obj_count - 1) /\ top_addr + 3 < memory_size
          /\ \A i \in 0 .. obj_count - 1 : Whole(mem, type_record, 4 * i)
      BY <2>3, WholeWords DEF IInv, TopInBlock
    <3>2. type_record[top_addr] \in WordTypes
      BY <1>0, <3>1 DEF Whole
    <3>3. top_addr' = IF obj_count' = 0 THEN 0 ELSE 4 * (obj_count' - 1)
      <4>1. CASE obj_count = 1
        <5>1. top_addr = 0
          BY <3>1, <4>1
        <5>2. (top_addr - 4) % WordMod = WordMod - 4
          BY <1>0, <5>1
        <5>3. type_record[top_addr] # "INT32"
          BY <1>0, <2>1, <5>2 DEF PrepareTopToPop
        <5> QED BY <1>1, <3>2, <4>1, <5>1, <5>3 DEF PrepareTopToPop, WordTypes
      <4>2. CASE obj_count > 1
        <5>1. top_addr - 4 \in 0 .. WordMod - 1
          BY <1>0, <3>1, <4>2
        <5>2. (top_addr - 4) % WordMod = top_addr - 4
          BY <1>0, <5>1
        <5>3. top_addr' = top_addr - 4
          BY <3>2, <4>2, <5>2 DEF PrepareTopToPop, WordTypes
        <5> QED BY <1>0, <1>1, <3>1, <4>2, <5>3
      <4> QED BY <1>0, <4>1, <4>2
    <3>4. TopTracksCount' /\ TopInBlock'
      BY <1>0, <1>1, <2>1, <3>1, <3>3 DEF TopTracksCount, TopInBlock
    <3>5. ASSUME NEW i \in 0 .. obj_count' - 1 PROVE Whole(mem', type_record', 4 * i)
      <4>1. i \in 0 .. obj_count - 1 /\ 4 * i + 3 < top_addr /\ 4 * i \in Nat
        BY <1>0, <1>1, <3>1
      <4>2. Whole(mem, type_record, 4 * i) /\ DOMAIN mem = DOMAIN type_record
        BY <3>1, <4>1 DEF IInv, TypeOK
      <4>3. \A k \in 0 .. 3 : 4 * i + k \in DOMAIN type_record /\ 4 * i + k \notin top_addr .. top_addr + 3
        BY <1>0, <4>1, <4>2 DEF Whole
      <4>4. \A k \in 0 .. 3 : type_record'[4 * i + k] = type_record[4 * i + k]
        BY <4>3 DEF PrepareTopToPop
      <4>5. type_record'[4 * i] = type_record[4 * i]
        BY <4>1, <4>4
      <4> QED BY <1>0, <4>2, <4>4, <4>5 DEF Whole
    <3>6. WordsAreWhole'
      BY <1>1, <3>5, WordsWhole
    <3> QED BY <1>4, <3>4, <3>6 DEF IInv
  <2> QED BY <2>2, <2>3
<1> QED BY <1>5, <1>6

LEMMA ReturnIInv ==
  ASSUME IInv, NEW addr \in Int, Return(addr)
  PROVE  IInv'
<1>1. WordAt(addr) \in Value \cup {Torn}
  BY WordAtValue
<1>2. \A a : WordAt(a)' = WordAt(a)
  BY DEF WordAt, Return
<1> QED BY <1>1, <1>2 DEF Return, IInv, TypeOK, TopInBlock, TopTracksCount, WordsAreWhole

LEMMA PopIInv ==
  ASSUME IInv, NEW t \in WordTypes, pop(t)
  PROVE  IInv'
<1>1. top_addr \in Int
  BY DEF IInv, TypeOK
<1>2. ret \in Value \cup {NoValue, Torn} /\ WordAt(top_addr) \in Value \cup {Torn} /\ obj_count \in Nat
  BY <1>1, WordAtValue DEF IInv, TypeOK
<1> QED BY <1>2, ThrowIInv, PrepareIInv DEF pop, Errors

LEMMA SetIInv ==
  ASSUME IInv, NEW addr \in SetAddrs, NEW t \in WordTypes, NEW v \in Value, set(addr, t, v)
  PROVE  IInv'
<1>0. /\ memory_size \in 4 .. WordMod - 5 /\ WordMod \in Nat /\ obj_count \in Nat
      /\ top_addr \in 0 .. WordMod - 1 /\ top_addr < memory_size /\ addr \in Nat
  BY DEF IInv, TypeOK, TopInBlock, set
<1>1. CASE Throw("INVALID_ADDR")
  BY <1>1, ThrowIInv DEF Errors
<1>2. CASE /\ addr < memory_size
           /\ Store(addr, t, v)
           /\ IF PastBlock(addr) \/ (addr % 4 # 0 /\ obj_count > 0 /\ addr < top_addr + 4)
              THEN Break("overwritten") ELSE UNCHANGED broken
           /\ \/ UNCHANGED err
              \/ PastBlock(addr) /\ err' = "fault"
           /\ UNCHANGED <<memory_size, obj_count, top_addr, ret>>
  <2>1. TypeOK'
    BY <1>0, <1>2, StoreTypes DEF IInv, TypeOK, Break
  <2>2. TopInBlock'
    BY <1>2 DEF TopInBlock, IInv, set, Break
  <2>3. CASE err' # "none" \/ broken' # "no"
    BY <2>1, <2>2, <2>3 DEF IInv, TopTracksCount, WordsAreWhole
  <2>4. CASE err' = "none" /\ broken' = "no"
    <3>1. /\ err = "none" /\ broken = "no" /\ addr + 3 < memory_size
          /\ obj_count = 0 \/ addr % 4 = 0 \/ addr >= top_addr + 4
      BY <1>0, <1>2, <2>4 DEF set, PastBlock, Break
    <3>2. TopTracksCount'
      BY <1>2, <3>1 DEF IInv, TopTracksCount
    <3>3. ASSUME NEW i \in 0 .. obj_count' - 1 PROVE Whole(mem', type_record', 4 * i)
      <4>1. /\ i \in 0 .. obj_count - 1 /\ 4 * i \in Nat /\ 4 * i <= top_addr
            /\ Whole(mem, type_record, 4 * i)
        BY <1>0, <1>2, <3>1, WholeWords
      <4>2. CASE addr = 4 * i
        BY <1>0, <1>2, <3>1, <4>2, StoreWhole DEF IInv
      <4>3. CASE addr # 4 * i
        <5>1. 4 * i + 3 < addr \/ addr + 3 < 4 * i
          <6>1. CASE addr >= top_addr + 4
            BY <1>0, <4>1, <6>1
          <6>2. CASE addr % 4 = 0
            BY <1>0, <4>1, <4>3, <6>2
          <6> QED BY <3>1, <4>1, <6>1, <6>2, <1>0
        <5> QED BY <1>0, <1>2, <4>1, <5>1, StoreElsewhere DEF IInv
      <4> QED BY <4>2, <4>3
    <3>4. WordsAreWhole'
      BY <1>0, <1>2, <3>3, WordsWhole
    <3> QED BY <2>1, <2>2, <3>2, <3>4 DEF IInv
  <2> QED BY <2>3, <2>4
<1> QED BY <1>1, <1>2 DEF set

LEMMA StepIInv == IInv /\ [Next]_vars => IInv'
<1> SUFFICES ASSUME IInv, [Next]_vars PROVE IInv'
  OBVIOUS
<1>0. top_addr \in Int /\ ret \in Value \cup {NoValue, Torn} /\ memory_size \in Nat
      /\ obj_count \in Nat
  BY DEF IInv, TypeOK
<1>1. ASSUME NEW v \in Value, push_uint(v) \/ push_int(v) PROVE IInv'
  BY <1>1, PushIInv DEF push_uint, push_int, WordTypes
<1>2. CASE pop_uint \/ pop_int
  BY <1>2, PopIInv DEF pop_uint, pop_int, WordTypes
<1>3. CASE remove
  BY <1>0, <1>3, ThrowIInv, PrepareIInv DEF remove, Errors
<1>4. CASE read_top
  BY <1>0, <1>4, ThrowIInv, ReturnIInv DEF read_top, Errors
<1>5. CASE read_sectop
  <2>1. top_addr - 4 \in Int
    BY <1>0
  <2> QED BY <2>1, <1>5, ThrowIInv, ReturnIInv DEF read_sectop, Errors
<1>6. ASSUME NEW addr \in 0 .. memory_size, read_uint(addr) PROVE IInv'
  <2>1. \/ Throw("INVALID_ADDR") \/ Throw("EMPTY_STACK_ACCESS")
        \/ Throw("INVALID_DATATYPE_ACCESS") \/ Return(addr)
    BY <1>6 DEF read_uint
  <2>2. addr \in Int
    BY <1>0
  <2> QED BY <2>1, <2>2, ThrowIInv, ReturnIInv DEF Errors
<1>7. ASSUME NEW addr \in SetAddrs, NEW v \in Value,
             set(addr, "UINT32", v) \/ set(addr, "INT32", v)
      PROVE  IInv'
  BY <1>7, SetIInv DEF WordTypes
<1>8. CASE reset
  <2>1. TypeOK'
    BY <1>8 DEF reset, IInv, TypeOK
  <2> QED BY <1>8, <2>1 DEF reset, IInv, TypeOK, TopInBlock, TopTracksCount, WordsAreWhole
<1>9. CASE UNCHANGED vars
  <2>1. \A a : WordAt(a)' = WordAt(a)
    BY <1>9 DEF vars, WordAt
  <2> QED BY <1>9, <2>1 DEF vars, IInv, TypeOK, TopInBlock, TopTracksCount, WordsAreWhole
<1> QED BY <1>1, <1>2, <1>3, <1>4, <1>5, <1>6, <1>7, <1>8, <1>9 DEF Next

LEMMA AlwaysIInv == Spec => []IInv
BY InitIInv, StepIInv, PTL DEF Spec

\* The type invariant of the working stack, for every size of its block.
THEOREM TypeCorrect == Spec => []TypeOK
<1>1. IInv => TypeOK
  BY DEF IInv
<1> QED BY <1>1, AlwaysIInv, PTL

\* push, pop, remove and reset keep the top address with the count.
THEOREM TopTracksCountHolds == Spec => []TopTracksCount
<1>1. IInv => TopTracksCount
  BY DEF IInv
<1> QED BY <1>1, AlwaysIInv, PTL

\* Each counted word is typed as one, and its bytes are of one value, until
\* something is written across words or past the block.
THEOREM WordsAreWholeHolds == Spec => []WordsAreWhole
<1>1. IInv => WordsAreWhole
  BY DEF IInv
<1> QED BY <1>1, AlwaysIInv, PTL

\* The refinement.  Up to the first way out, the words counted are the contents.
Sound == err = "none" /\ broken = "no"

LEMMA ContentsSeq ==
  ASSUME IInv, Sound
  PROVE  /\ Contents \in Seq(Typed!Words)
         /\ Len(Contents) = obj_count
         /\ \A i \in 1 .. obj_count :
               Contents[i] = [type |-> type_record[4 * (i - 1)], val |-> WordAt(4 * (i - 1))]
<1>1. obj_count \in Nat
  BY DEF IInv, TypeOK
<1>2. ASSUME NEW i \in 1 .. obj_count
      PROVE  [type |-> type_record[4 * (i - 1)], val |-> WordAt(4 * (i - 1))] \in Typed!Words
  <2>1. i - 1 \in 0 .. obj_count - 1
    BY <1>1
  <2>2. type_record[4 * (i - 1)] \in {"UINT32", "INT32"} /\ WordAt(4 * (i - 1)) \in Value
    BY <2>1 DEF IInv, WordsAreWhole, Sound
  <2> QED BY <2>2 DEF Typed!Words, Typed!Types
<1>3. Contents \in [1 .. obj_count -> Typed!Words]
  BY <1>2 DEF Contents
<1> QED BY <1>1, <1>3 DEF Contents

\* The words that a step leaves alone.
LEMMA SameWord ==
  ASSUME NEW i \in Nat, Whole(mem, type_record, 4 * i), Whole(mem', type_record', 4 * i),
         \A k \in 0 .. 3 : mem'[4 * i + k] = mem[4 * i + k]
  PROVE  WordAt(4 * i)' = WordAt(4 * i)
<1>1. PICK v \in Value : \A k \in 0 .. 3 : 4 * i + k \in DOMAIN mem /\ mem[4 * i + k] = <<v, k>>
  BY DEF Whole
<1>2. PICK w \in Value : \A k \in 0 .. 3 : 4 * i + k \in DOMAIN mem' /\ mem'[4 * i + k] = <<w, k>>
  BY DEF Whole
<1>3. mem[4 * i] = <<v, 0>> /\ mem'[4 * i] = <<w, 0>> /\ mem'[4 * i] = mem[4 * i]
  BY <1>1, <1>2
<1>4. WordAt(4 * i) = v
  BY <1>1, <1>3 DEF WordAt
<1>5. WordAt(4 * i)' = w
  BY <1>2, <1>3 DEF WordAt
<1> QED BY <1>3, <1>4, <1>5

\* A word is stored at the i-th place: the others stay what they are.
LEMMA StoreContents ==
  ASSUME IInv, IInv', Sound, Sound', NEW n \in Nat, NEW t \in WordTypes, NEW v \in Value,
         Store(4 * n, t, v), 4 * n + 3 < memory_size
  PROVE  /\ \A i \in 0 .. obj_count - 1 : i # n =>
               type_record'[4 * i] = type_record[4 * i] /\ WordAt(4 * i)' = WordAt(4 * i)
         /\ type_record'[4 * n] = t /\ WordAt(4 * n)' = v
<1>0. TypeOK /\ obj_count \in Nat /\ 4 * n \in Nat
  BY DEF IInv, TypeOK
<1>1. ASSUME NEW i \in 0 .. obj_count - 1, i # n
      PROVE  type_record'[4 * i] = type_record[4 * i] /\ WordAt(4 * i)' = WordAt(4 * i)
  <2>1. i \in Nat /\ 4 * i \in Nat /\ (4 * i + 3 < 4 * n \/ 4 * n + 3 < 4 * i)
    BY <1>0, <1>1
  <2>2. Whole(mem, type_record, 4 * i)
    BY WholeWords DEF Sound
  <2>3. /\ Whole(mem', type_record', 4 * i)
        /\ type_record'[4 * i] = type_record[4 * i]
        /\ \A k \in 0 .. 3 : mem'[4 * i + k] = mem[4 * i + k]
    BY <1>0, <2>1, <2>2, StoreElsewhere
  <2> QED BY <2>1, <2>2, <2>3, SameWord
<1>2. type_record'[4 * n] = t /\ \A k \in 0 .. 3 : 4 * n + k \in DOMAIN mem' /\ mem'[4 * n + k] = <<v, k>>
  BY <1>0, StoreWhole
<1>3. mem'[4 * n] = <<v, 0>>
  BY <1>2
<1>4. WordAt(4 * n)' = v
  BY <1>2, <1>3 DEF WordAt
<1> QED BY <1>1, <1>2, <1>4

LEMMA Bounds ==
  ASSUME IInv, Sound
  PROVE  /\ memory_size \in 4 .. WordMod - 5 /\ WordMod \in Nat /\ obj_count \in Nat
         /\ top_addr = IF obj_count = 0 THEN 0 ELSE 4 * (obj_count - 1)
         /\ obj_count <= memory_size \div 4
         /\ obj_count > 0 => type_record[top_addr] \in WordTypes
<1>1. /\ memory_size \in 4 .. WordMod - 5 /\ WordMod \in Nat /\ obj_count \in Nat
      /\ top_addr = IF obj_count = 0 THEN 0 ELSE 4 * (obj_count - 1)
  BY DEF IInv, TypeOK, TopTracksCount, Sound
<1>2. obj_count <= memory_size \div 4
  <2>1. CASE obj_count > 0
    <3>1. 4 * (obj_count - 1) + 3 < memory_size
      BY <1>1, <2>1 DEF IInv, TopInBlock, Sound
    <3> QED BY <1>1, <2>1, <3>1
  <2> QED BY <1>1, <2>1
<1>3. obj_count > 0 => type_record[top_addr] \in WordTypes
  <2>1. obj_count > 0 => obj_count - 1 \in 0 .. obj_count - 1
    BY <1>1
  <2> QED BY <1>1, <2>1 DEF IInv, WordsAreWhole, Sound, WordTypes
<1> QED BY <1>1, <1>2, <1>3

\* What a step leaves of the words below the i-th.
SameBelow(n) ==
    \A i \in 0 .. n - 1 :
        type_record'[4 * i] = type_record[4 * i] /\ WordAt(4 * i)' = WordAt(4 * i)

\* A step that leaves the program running and the stack sound, method by method.
LEMMA PushSimulates ==
  ASSUME IInv, IInv', Sound, Sound', NEW t \in WordTypes, NEW v \in Value, push(t, v)
  PROVE  \E w \in Typed!Words : Typed!Push(w)
<1>0. /\ memory_size \in 4 .. WordMod - 5 /\ WordMod \in Nat /\ obj_count \in Nat
      /\ top_addr = IF obj_count = 0 THEN 0 ELSE 4 * (obj_count - 1)
  BY Bounds
<1>1. /\ Store(4 * obj_count, t, v) /\ 4 * obj_count + 3 < memory_size
      /\ obj_count' = obj_count + 1 /\ UNCHANGED <<memory_size, ret, err, broken>>
  <2>1. (IF obj_count > 0 THEN top_addr + 4 ELSE top_addr) = 4 * obj_count
    BY <1>0
  <2> QED BY <1>0, <2>1 DEF push, Sound, PastBlock, Break
<1>2. obj_count < memory_size \div 4
  BY <1>0, <1>1
<1>n. PICK n \in Nat : n = obj_count
  BY <1>0
<1>3. SameBelow(n) /\ type_record'[4 * n] = t /\ WordAt(4 * n)' = v
  <2>1. \A i \in 0 .. n - 1 : i # n
    OBVIOUS
  <2> QED BY <1>n, <1>1, <2>1, StoreContents DEF SameBelow
<1> DEFINE w == [type |-> t, val |-> v]
<1>4. w \in Typed!Words
  BY DEF Typed!Words, Typed!Types, WordTypes
<1>5. Contents' = Append(Contents, w)
  <2>1. Contents \in Seq(Typed!Words) /\ Len(Contents) = obj_count
        /\ \A i \in 1 .. obj_count :
              Contents[i] = [type |-> type_record[4 * (i - 1)], val |-> WordAt(4 * (i - 1))]
    BY ContentsSeq
  <2>2. Contents' = [i \in 1 .. obj_count + 1 |->
                        [type |-> type_record'[4 * (i - 1)], val |-> WordAt(4 * (i - 1))']]
    BY <1>1 DEF Contents
  <2>3. ASSUME NEW i \in 1 .. obj_count + 1
        PROVE  [type |-> type_record'[4 * (i - 1)], val |-> WordAt(4 * (i - 1))']
                 = IF i <= obj_count THEN Contents[i] ELSE w
    <3>1. CASE i <= obj_count
      <4>1. i - 1 \in 0 .. obj_count - 1 /\ i \in 1 .. obj_count
        BY <1>0, <3>1
      <4> QED BY <1>n, <1>3, <2>1, <3>1, <4>1 DEF SameBelow
    <3>2. CASE i = obj_count + 1
      <4>1. i - 1 = n /\ ~(i <= obj_count)
        BY <1>n, <3>2
      <4> QED BY <1>3, <4>1
    <3> QED BY <1>0, <3>1, <3>2
  <2>4. Contents' = [i \in 1 .. obj_count + 1 |-> IF i <= obj_count THEN Contents[i] ELSE w]
    BY <2>2, <2>3
  <2> HIDE DEF w
  <2> QED BY <1>4, <2>1, <2>4, AppendIsFunction
<1> HIDE DEF w
<1>6. Typed!Push(w)
  BY <1>1, <1>2, <1>5, ContentsSeq DEF Typed!Push, Typed!Running, Sound
<1> QED BY <1>4, <1>6

\* A word is taken from the top.
LEMMA PrepareContents ==
  ASSUME IInv, IInv', Sound, Sound', obj_count > 0, PrepareTopToPop
  PROVE  /\ Contents' = Typed!Front(Contents)
         /\ Contents # <<>>
         /\ Len(Contents) > 1 \/ type_record[top_addr] = "UINT32"
<1>0. /\ memory_size \in 4 .. WordMod - 5 /\ WordMod \in Nat /\ obj_count \in Nat
      /\ top_addr = 4 * (obj_count - 1)
      /\ type_record[top_addr] \in WordTypes
  BY Bounds
<1>1. /\ Contents \in Seq(Typed!Words) /\ Len(Contents) = obj_count
      /\ \A i \in 1 .. obj_count :
            Contents[i] = [type |-> type_record[4 * (i - 1)], val |-> WordAt(4 * (i - 1))]
  BY ContentsSeq
<1>2. obj_count' = obj_count - 1 /\ mem' = mem /\ UNCHANGED <<memory_size, broken>>
  BY DEF PrepareTopToPop
<1>3. ASSUME NEW i \in 0 .. obj_count - 2
      PROVE  type_record'[4 * i] = type_record[4 * i] /\ WordAt(4 * i)' = WordAt(4 * i)
  <2>1. 4 * i \notin top_addr .. top_addr + 3 /\ i \in 0 .. obj_count - 1
    BY <1>0
  <2>2. Whole(mem, type_record, 4 * i)
    BY <2>1, WholeWords DEF Sound
  <2>3. 4 * i \in DOMAIN type_record
    BY <2>2 DEF Whole, IInv, TypeOK
  <2>4. type_record'[4 * i] = type_record[4 * i]
    BY <2>1, <2>3 DEF PrepareTopToPop
  <2>5. WordAt(4 * i)' = WordAt(4 * i)
    BY <1>2 DEF WordAt
  <2> QED BY <2>4, <2>5
<1>4. Contents' = [i \in 1 .. obj_count - 1 |-> Contents[i]]
  <2>1. Contents' = [i \in 1 .. obj_count - 1 |->
                        [type |-> type_record'[4 * (i - 1)], val |-> WordAt(4 * (i - 1))']]
    BY <1>2 DEF Contents
  <2>2. ASSUME NEW i \in 1 .. obj_count - 1
        PROVE  [type |-> type_record'[4 * (i - 1)], val |-> WordAt(4 * (i - 1))'] = Contents[i]
    <3>1. i - 1 \in 0 .. obj_count - 2 /\ i \in 1 .. obj_count
      BY <1>0
    <3> QED BY <1>1, <1>3, <3>1
  <2> QED BY <2>1, <2>2
<1>5. Contents' = Typed!Front(Contents)
  <2>1. obj_count - 1 \in Nat /\ Len(Contents) = (obj_count - 1) + 1
    BY <1>0, <1>1
  <2>2. SubSeq(Contents, 1, obj_count - 1) = [i \in 1 .. obj_count - 1 |-> Contents[i]]
    BY <1>1, <2>1, FrontIsFunction
  <2> QED BY <1>1, <1>4, <2>2 DEF Typed!Front
<1>6. Contents # <<>>
  BY <1>1
<1>7. obj_count > 1 \/ type_record[top_addr] = "UINT32"
  <2>1. CASE obj_count = 1 /\ type_record[top_addr] = "INT32"
    <3>1. (top_addr - 4) % WordMod = WordMod - 4
      BY <1>0, <2>1
    <3>2. top_addr' = WordMod - 4
      BY <2>1, <3>1 DEF PrepareTopToPop
    <3>3. err' = "INVALID_ADDR"
      BY <1>0, <3>2 DEF PrepareTopToPop
    <3> QED BY <3>3 DEF Sound
  <2> QED BY <1>0, <2>1 DEF WordTypes
<1> QED BY <1>1, <1>5, <1>6, <1>7

LEMMA TopWord ==
  ASSUME IInv, Sound, obj_count > 0
  PROVE  /\ Contents # <<>>
         /\ Typed!Top = [type |-> type_record[top_addr], val |-> WordAt(top_addr)]
<1>1. obj_count \in Nat /\ top_addr = 4 * (obj_count - 1) /\ obj_count \in 1 .. obj_count
  BY Bounds
<1>2. /\ Len(Contents) = obj_count
      /\ Contents[obj_count] = [type |-> type_record[top_addr], val |-> WordAt(top_addr)]
  BY <1>1, ContentsSeq
<1> QED BY <1>1, <1>2 DEF Typed!Top, Typed!Last, Sound

LEMMA PopSimulates ==
  ASSUME IInv, IInv', Sound, Sound', NEW t \in WordTypes, pop(t)
  PROVE  Typed!PopUint \/ Typed!PopInt
<1>1. /\ type_record[top_addr] = t /\ obj_count > 0 /\ PrepareTopToPop
      /\ ret' = WordAt(top_addr)
  BY DEF pop, Throw, Sound
<1>2. /\ Contents' = Typed!Front(Contents) /\ Contents # <<>>
      /\ Len(Contents) > 1 \/ type_record[top_addr] = "UINT32"
  BY <1>1, PrepareContents
<1>3. Typed!Top = [type |-> t, val |-> WordAt(top_addr)]
  BY <1>1, TopWord
<1>4. memory_size' = memory_size
  BY <1>1 DEF PrepareTopToPop
<1>5. CASE t = "UINT32"
  BY <1>1, <1>2, <1>3, <1>4, <1>5 DEF Typed!PopUint, Typed!Running, Sound
<1>6. CASE t = "INT32"
  BY <1>1, <1>2, <1>3, <1>4, <1>6 DEF Typed!PopInt, Typed!Running, Sound
<1> QED BY <1>5, <1>6 DEF WordTypes

LEMMA RemoveSimulates ==
  ASSUME IInv, IInv', Sound, Sound', remove
  PROVE  Typed!Discard
<1>1. obj_count > 0 /\ PrepareTopToPop /\ UNCHANGED ret
  BY DEF remove, Throw, Sound
<1>2. /\ Contents' = Typed!Front(Contents) /\ Contents # <<>>
      /\ Len(Contents) > 1 \/ type_record[top_addr] = "UINT32"
  BY <1>1, PrepareContents
<1>3. Typed!Top = [type |-> type_record[top_addr], val |-> WordAt(top_addr)]
  BY <1>1, TopWord
<1> QED BY <1>1, <1>2, <1>3 DEF Typed!Discard, Typed!Running, Sound, PrepareTopToPop

LEMMA ReadSimulates ==
  ASSUME IInv, Sound, Sound', NEW i \in 1 .. obj_count, Return(4 * (i - 1))
  PROVE  \E j \in 1 .. Len(Contents) : Typed!Read(j)
<1>1. /\ Len(Contents) = obj_count
      /\ Contents[i] = [type |-> type_record[4 * (i - 1)], val |-> WordAt(4 * (i - 1))]
  BY ContentsSeq
<1>2. \A a : WordAt(a)' = WordAt(a)
  BY DEF WordAt, Return
<1>3. Contents' = Contents
  BY <1>2 DEF Contents, Return
<1>4. Typed!Read(i)
  BY <1>1, <1>3 DEF Typed!Read, Typed!Running, Return, Sound
<1> QED BY <1>1, <1>4

\* The type at an address below the top says whether a word begins there.
LEMMA AddressOfWord ==
  ASSUME IInv, Sound, NEW addr \in Nat, addr <= top_addr, obj_count > 0,
         type_record[addr] \in WordTypes
  PROVE  \E i \in 1 .. obj_count : addr = 4 * (i - 1)
<1>1. obj_count \in Nat /\ top_addr = 4 * (obj_count - 1)
  BY Bounds
<1> DEFINE j == addr \div 4
           k == addr % 4
<1>2. j \in 0 .. obj_count - 1 /\ k \in 0 .. 3 /\ addr = 4 * j + k
  BY <1>1
<1>3. k = 0
  <2>1. \A n \in 1 .. 3 : type_record[4 * j + n] \in {"INSIDE_UINT", "INSIDE_INT"}
    BY <1>2 DEF IInv, WordsAreWhole, Sound
  <2> HIDE DEF j, k
  <2>2. CASE k \in 1 .. 3
    BY <1>2, <2>1, <2>2 DEF WordTypes
  <2> QED BY <1>2, <2>2
<1>4. j + 1 \in 1 .. obj_count /\ addr = 4 * ((j + 1) - 1)
  BY <1>1, <1>2, <1>3
<1> QED BY <1>4

LEMMA SetSimulates ==
  ASSUME IInv, IInv', Sound, Sound', NEW addr \in SetAddrs, NEW t \in WordTypes,
         NEW v \in Value, set(addr, t, v)
  PROVE  \/ \E i \in 1 .. Len(Contents), w \in Typed!Words : Typed!Overwrite(i, w)
         \/ UNCHANGED <<Contents, memory_size, ret, err, broken>>
<1>0. /\ memory_size \in 4 .. WordMod - 5 /\ WordMod \in Nat /\ obj_count \in Nat
      /\ top_addr = IF obj_count = 0 THEN 0 ELSE 4 * (obj_count - 1)
      /\ addr \in Nat
  BY Bounds
<1>1. /\ Store(addr, t, v) /\ addr + 3 < memory_size
      /\ obj_count = 0 \/ addr % 4 = 0 \/ addr >= top_addr + 4
      /\ UNCHANGED <<memory_size, obj_count, top_addr, ret, err, broken>>
  BY <1>0 DEF set, Throw, Sound, PastBlock, Break
<1>2. /\ Contents \in Seq(Typed!Words) /\ Len(Contents) = obj_count
      /\ \A i \in 1 .. obj_count :
            Contents[i] = [type |-> type_record[4 * (i - 1)], val |-> WordAt(4 * (i - 1))]
  BY ContentsSeq
<1>3. Contents' = [i \in 1 .. obj_count |->
                      [type |-> type_record'[4 * (i - 1)], val |-> WordAt(4 * (i - 1))']]
  BY <1>1 DEF Contents
<1>4. CASE obj_count > 0 /\ addr < top_addr + 4
  <2>1. PICK n \in Nat : addr = 4 * n /\ n < obj_count
    <3>1. addr = 4 * (addr \div 4) /\ addr \div 4 \in Nat /\ addr \div 4 < obj_count
      BY <1>0, <1>1, <1>4
    <3> QED BY <3>1
  <2>2. /\ \A i \in 0 .. obj_count - 1 : i # n =>
              type_record'[4 * i] = type_record[4 * i] /\ WordAt(4 * i)' = WordAt(4 * i)
        /\ type_record'[4 * n] = t /\ WordAt(4 * n)' = v
    BY <1>1, <2>1, StoreContents
  <2> DEFINE w == [type |-> t, val |-> v]
  <2>3. ASSUME NEW i \in 1 .. obj_count
        PROVE  [type |-> type_record'[4 * (i - 1)], val |-> WordAt(4 * (i - 1))']
                 = IF i = n + 1 THEN w ELSE Contents[i]
    <3>1. CASE i = n + 1
      <4>1. i - 1 = n
        BY <3>1
      <4> QED BY <2>2, <3>1, <4>1
    <3>2. CASE i # n + 1
      <4>1. i - 1 \in 0 .. obj_count - 1 /\ i - 1 # n
        BY <1>0, <3>2
      <4> QED BY <1>2, <2>2, <3>2, <4>1
    <3> QED BY <3>1, <3>2
  <2>4. w \in Typed!Words
    BY DEF Typed!Words, Typed!Types, WordTypes
  <2> HIDE DEF w
  <2>5. Contents' = [Contents EXCEPT ![n + 1] = w]
    <3>1. DOMAIN Contents = 1 .. obj_count
      BY <1>2
    <3>2. Contents' = [i \in 1 .. obj_count |-> IF i = n + 1 THEN w ELSE Contents[i]]
      BY <1>3, <2>3
    <3> QED BY <3>1, <3>2
  <2>6. n + 1 \in 1 .. Len(Contents)
    BY <1>0, <1>2, <2>1
  <2>7. Typed!Overwrite(n + 1, w)
    BY <1>1, <2>5 DEF Typed!Overwrite, Typed!Running, Sound
  <2> QED BY <2>4, <2>6, <2>7
<1>5. CASE obj_count = 0 \/ addr >= top_addr + 4
  <2>1. ASSUME NEW i \in 0 .. obj_count - 1
        PROVE  type_record'[4 * i] = type_record[4 * i] /\ WordAt(4 * i)' = WordAt(4 * i)
    <3>1. 4 * i \in Nat /\ 4 * i + 3 < addr /\ i \in Nat
      BY <1>0, <1>5
    <3>2. Whole(mem, type_record, 4 * i)
      BY WholeWords DEF Sound
    <3>3. /\ Whole(mem', type_record', 4 * i)
          /\ type_record'[4 * i] = type_record[4 * i]
          /\ \A k \in 0 .. 3 : mem'[4 * i + k] = mem[4 * i + k]
      BY <1>0, <1>1, <3>1, <3>2, StoreElsewhere DEF IInv
    <3> QED BY <3>1, <3>2, <3>3, SameWord
  <2>2. ASSUME NEW i \in 1 .. obj_count
        PROVE  [type |-> type_record'[4 * (i - 1)], val |-> WordAt(4 * (i - 1))'] = Contents[i]
    <3>1. i - 1 \in 0 .. obj_count - 1
      BY <1>0
    <3> QED BY <1>2, <2>1, <3>1
  <2>3. Contents' = [i \in 1 .. obj_count |-> Contents[i]]
    BY <1>3, <2>2
  <2>4. Contents = [i \in 1 .. obj_count |-> Contents[i]]
    BY <1>2
  <2> QED BY <1>1, <2>3, <2>4
<1> QED BY <1>0, <1>4, <1>5

\* An exception, whichever method throws it, has the cause Refuse gives it.
LEMMA ThrowSimulates ==
  ASSUME IInv, Sound, err' # "none", broken' = "no", [Next]_vars
  PROVE  \E e \in Errors : Typed!Refuse(e)
<1>0. obj_count \in Nat /\ Len(Contents) = obj_count
  BY ContentsSeq DEF IInv, TypeOK
<1>1. ASSUME NEW e \in Errors, err' = e,
             e = "EMPTY_STACK_ACCESS" => obj_count < 2,
             e = "INVALID_ACCESS" => obj_count = 0
      PROVE  Typed!Refuse(e)
  <2>1. obj_count = 0 => Contents = <<>>
    BY DEF Contents
  <2> QED BY <1>0, <1>1, <2>1 DEF Typed!Refuse, Typed!Running, Sound, Errors
<1>2. ASSUME NEW e \in {"INVALID_ADDR", "INVALID_DATATYPE_ACCESS", "throw 1"}, err' = e
      PROVE  \E x \in Errors : Typed!Refuse(x)
  BY <1>1, <1>2 DEF Errors
<1>3. ASSUME PrepareTopToPop PROVE err' = "INVALID_ADDR"
  BY <1>3 DEF PrepareTopToPop, Sound
<1>4. ASSUME obj_count < 2, err' = "EMPTY_STACK_ACCESS" PROVE \E x \in Errors : Typed!Refuse(x)
  BY <1>1, <1>4 DEF Errors
<1>5. ASSUME NEW t \in WordTypes, NEW v \in Value, push(t, v) PROVE err' = "INVALID_ADDR"
  BY <1>5 DEF push, Sound, Break
<1>6. ASSUME NEW addr \in SetAddrs, NEW t \in WordTypes, NEW v \in Value, set(addr, t, v)
      PROVE  err' = "INVALID_ADDR"
  BY <1>6 DEF set, Throw, Sound, Break
<1>7. ASSUME NEW t \in WordTypes, pop(t) PROVE \E x \in Errors : Typed!Refuse(x)
  <2>1. \/ err' \in {"INVALID_ADDR", "INVALID_DATATYPE_ACCESS"}
        \/ obj_count < 2 /\ err' = "EMPTY_STACK_ACCESS"
    BY <1>0, <1>3, <1>7 DEF pop, Throw
  <2> QED BY <1>2, <1>4, <2>1
<1>8. CASE remove
  <2>1. err' = "INVALID_ADDR" \/ (obj_count < 2 /\ err' = "EMPTY_STACK_ACCESS")
    BY <1>0, <1>3, <1>8 DEF remove, Throw
  <2> QED BY <1>2, <1>4, <2>1
<1>9. CASE read_top
  BY <1>1, <1>9 DEF read_top, Throw, Return, Sound, Errors
<1>10. CASE read_sectop
  BY <1>2, <1>4, <1>10 DEF read_sectop, Throw, Return, Sound
<1>11. ASSUME NEW addr \in 0 .. memory_size, read_uint(addr)
       PROVE  \E x \in Errors : Typed!Refuse(x)
  <2>1. \/ err' \in {"INVALID_ADDR", "INVALID_DATATYPE_ACCESS"}
        \/ obj_count < 2 /\ err' = "EMPTY_STACK_ACCESS"
    BY <1>0, <1>11 DEF read_uint, Throw, Return, Sound
  <2> QED BY <1>2, <1>4, <2>1
<1>12. ~reset /\ ~UNCHANGED vars
  BY DEF reset, vars, Sound
<1> QED BY <1>2, <1>5, <1>6, <1>7, <1>8, <1>9, <1>10, <1>11, <1>12
        DEF Next, push_uint, push_int, pop_uint, pop_int, WordTypes

\* The ways out of the promise.
LEMMA BreakSimulates ==
  ASSUME IInv, Sound, broken' # "no", [Next]_vars
  PROVE  Typed!Overrun \/ Typed!WriteAcross
<1>0. /\ memory_size \in 4 .. WordMod - 5 /\ WordMod \in Nat /\ obj_count \in Nat
      /\ top_addr = IF obj_count = 0 THEN 0 ELSE 4 * (obj_count - 1)
      /\ Len(Contents) = obj_count
  BY Bounds, ContentsSeq
<1>1. ASSUME NEW t \in WordTypes, NEW v \in Value, push(t, v) PROVE Typed!Overrun
  <2>1. (IF obj_count > 0 THEN top_addr + 4 ELSE top_addr) = 4 * obj_count
    BY <1>0
  <2>2. 4 * obj_count + 3 >= memory_size /\ broken' = "overrun"
    BY <1>1, <2>1 DEF push, PastBlock, Break, Sound
  <2>3. obj_count >= memory_size \div 4
    BY <1>0, <2>2
  <2> QED BY <1>0, <2>2, <2>3 DEF Typed!Overrun, Typed!Running, Sound
<1>2. ASSUME NEW addr \in SetAddrs, NEW t \in WordTypes, NEW v \in Value, set(addr, t, v)
      PROVE  Typed!WriteAcross
  BY <1>2 DEF set, Throw, Break, Typed!WriteAcross, Typed!Running, Sound
<1>3. ASSUME \/ pop_uint \/ pop_int \/ remove \/ read_top \/ read_sectop \/ reset
             \/ \E addr \in 0 .. memory_size : read_uint(addr)
             \/ UNCHANGED vars
      PROVE  FALSE
  <2>1. broken' = broken
    BY <1>3 DEF pop_uint, pop_int, pop, remove, PrepareTopToPop, read_top, read_sectop,
                read_uint, Return, reset, Throw, vars
  <2> QED BY <2>1 DEF Sound
<1> QED BY <1>1, <1>2, <1>3 DEF Next, push_uint, push_int, WordTypes

LEMMA StepSimulates == IInv /\ IInv' /\ [Next]_vars => [Typed!Next]_(Typed!vars)
<1> SUFFICES ASSUME IInv, IInv', [Next]_vars PROVE [Typed!Next]_(Typed!vars)
  OBVIOUS
<1>1. CASE err # "none"
  <2>1. UNCHANGED vars
    BY <1>1 DEF Next, push_uint, push_int, push, pop_uint, pop_int, pop, remove, read_top,
                read_sectop, read_uint, set, reset
  <2>2. \A a : WordAt(a)' = WordAt(a)
    BY <2>1 DEF vars, WordAt
  <2> QED BY <2>1, <2>2 DEF vars, Typed!vars, Contents
<1>2. CASE broken # "no"
  <2>1. broken' = broken
    BY <1>2 DEF Next, push_uint, push_int, push, pop_uint, pop_int, pop, remove, read_top,
                read_sectop, read_uint, set, reset, PrepareTopToPop, Return, Throw, Break, vars
  <2>2. broken \in {"overrun", "overwritten"}
    BY <1>2 DEF IInv, TypeOK
  <2> QED BY <1>2, <2>1, <2>2 DEF Typed!Next, Typed!Undefined
<1>3. CASE Sound /\ broken' # "no"
  BY <1>3, BreakSimulates DEF Typed!Next
<1>4. CASE Sound /\ broken' = "no" /\ err' # "none"
  BY <1>4, ThrowSimulates DEF Typed!Next
<1>5. CASE Sound /\ Sound'
  <2>0. obj_count \in Nat /\ top_addr = IF obj_count = 0 THEN 0 ELSE 4 * (obj_count - 1)
    BY <1>5, Bounds
  <2>1. ASSUME NEW v \in Value, push_uint(v) \/ push_int(v) PROVE Typed!Next
    BY <1>5, <2>1, PushSimulates DEF push_uint, push_int, WordTypes, Typed!Next
  <2>2. CASE pop_uint \/ pop_int
    BY <1>5, <2>2, PopSimulates DEF pop_uint, pop_int, WordTypes, Typed!Next
  <2>3. CASE remove
    BY <1>5, <2>3, RemoveSimulates DEF Typed!Next
  <2>4. CASE read_top
    <3>1. obj_count > 0 /\ Return(top_addr)
      BY <1>5, <2>4 DEF read_top, Throw, Sound
    <3>2. obj_count \in 1 .. obj_count /\ top_addr = 4 * (obj_count - 1)
      BY <2>0, <3>1
    <3>3. \A i \in 1 .. obj_count : Return(4 * (i - 1)) => \E j \in 1 .. Len(Contents) : Typed!Read(j)
      BY <1>5, ReadSimulates
    <3> QED BY <1>5, <3>1, <3>2, <3>3 DEF Typed!Next, Sound
  <2>5. CASE read_sectop
    <3>1. obj_count >= 2 /\ Return(top_addr - 4)
      BY <1>5, <2>5 DEF read_sectop, Throw, Sound
    <3>2. obj_count - 1 \in 1 .. obj_count /\ top_addr - 4 = 4 * ((obj_count - 1) - 1)
      BY <2>0, <3>1
    <3>3. \A i \in 1 .. obj_count : Return(4 * (i - 1)) => \E j \in 1 .. Len(Contents) : Typed!Read(j)
      BY <1>5, ReadSimulates
    <3> QED BY <1>5, <3>1, <3>2, <3>3 DEF Typed!Next, Sound
  <2>6. ASSUME NEW addr \in 0 .. memory_size, read_uint(addr) PROVE Typed!Next
    <3>1. addr \in Nat /\ addr <= top_addr /\ obj_count > 0
          /\ type_record[addr] \in WordTypes /\ Return(addr)
      BY <1>5, <2>0, <2>6, Bounds DEF read_uint, Throw, Sound, WordTypes
    <3>2. PICK i \in 1 .. obj_count : addr = 4 * (i - 1)
      BY <1>5, <3>1, AddressOfWord
    <3> QED BY <1>5, <3>1, <3>2, ReadSimulates DEF Typed!Next, Sound
  <2>7. ASSUME NEW addr \in SetAddrs, NEW v \in Value,
               set(addr, "UINT32", v) \/ set(addr, "INT32", v)
        PROVE  [Typed!Next]_(Typed!vars)
    <3>1. \/ \E i \in 1 .. Len(Contents), w \in Typed!Words : Typed!Overwrite(i, w)
          \/ UNCHANGED <<Contents, memory_size, ret, err, broken>>
      BY <1>5, <2>7, SetSimulates DEF WordTypes
    <3> QED BY <1>5, <3>1 DEF Typed!Next, Typed!vars, Sound
  <2>8. CASE reset
    <3>1. Contents' = <<>>
      BY <2>8 DEF reset, Contents
    <3> QED BY <1>5, <2>8, <3>1 DEF Typed!Next, Typed!Clear, Typed!Running, reset, Sound
  <2>9. CASE UNCHANGED vars
    <3>1. \A a : WordAt(a)' = WordAt(a)
      BY <2>9 DEF vars, WordAt
    <3> QED BY <2>9, <3>1 DEF vars, Typed!vars, Contents
  <2> QED BY <2>1, <2>2, <2>3, <2>4, <2>5, <2>6, <2>7, <2>8, <2>9 DEF Next
<1> QED BY <1>1, <1>2, <1>3, <1>4, <1>5 DEF Sound

\* WorkStack's methods are the operations of a stack of typed words, up to a push
\* without room and a write of the user across words or past the block.
THEOREM WorkStackImplementsTyped == Spec => ImplementsTypedStack
<1>1. Init => Typed!Init
  <2> SUFFICES ASSUME Init PROVE Typed!Init
    OBVIOUS
  <2>1. Contents = <<>>
    BY DEF Init, Contents
  <2>2. memory_size \div 4 \in {n \div 4 : n \in MemorySizes}
    BY DEF Init
  <2> QED BY <2>1, <2>2 DEF Init, Typed!Init
<1> QED BY <1>1, AlwaysIInv, StepSimulates, PTL DEF Spec, ImplementsTypedStack, Typed!Spec

=============================================================================
