------------------------------ MODULE WorkStack ------------------------------
(***************************************************************************)
(* The working stack of the virtual machine: struct WorkStack in           *)
(* workstack.h and workstack.cpp, on top of struct Ram (ram.cpp), of which *)
(* it uses the memory block, the type record and set_uint/set_int.         *)
(*                                                                         *)
(* Memory is modelled byte by byte, for a write may start at any address:  *)
(* a byte is <<v, k>>, byte k of the word v, and a word read back is Torn  *)
(* unless its four bytes are those of one word.  Every byte has an entry   *)
(* in the type record; the record of a new stack is uninitialised memory   *)
(* (Ram's constructor), so its contents are one of FreshTypes.             *)
(*                                                                         *)
(* The block has memory_size bytes and the checks look at the first byte   *)
(* of a word only, so a word may end past the block: the access faults, or *)
(* its last bytes are lost.  No caller catches the exceptions: `err' holds *)
(* what ended the program.                                                 *)
(***************************************************************************)
EXTENDS Integers

CONSTANTS Value,       \* the 32-bit words
          Torn,        \* a word read from the bytes of several
          Junk,        \* a byte never written
          NoValue,     \* `ret' before the first read
          WordMod,     \* 2^32
          MemorySizes,
          SetAddrs,    \* the addresses users overwrite from the menus
          FreshTypes   \* what uninitialised bytes of the type record may hold

ASSUME WorkStackAssumption ==
    /\ WordMod \in Nat
    /\ MemorySizes \subseteq 4 .. WordMod - 5
    /\ SetAddrs \subseteq 0 .. WordMod - 1
    /\ Torn \notin Value

TypeCodes == {"UINT32", "INT32", "INSIDE_UINT", "INSIDE_INT", "NOVALUE"}
Errors == {"INVALID_ADDR", "EMPTY_STACK_ACCESS", "INVALID_ACCESS",
           "INVALID_DATATYPE_ACCESS", "throw 1"}

VARIABLES memory_size,
          mem,         \* the bytes of the block
          type_record, \* the type of each
          obj_count, top_addr,
          ret,         \* what the last pop or read returned
          err,         \* "none", or what ended the program
          broken       \* "no", or the first write past the block or across words

vars == <<memory_size, mem, type_record, obj_count, top_addr, ret, err, broken>>

Init ==
    /\ memory_size \in MemorySizes
    /\ mem = [b \in 0 .. memory_size - 1 |-> Junk]
    /\ \E t \in FreshTypes : type_record = [b \in 0 .. memory_size - 1 |-> t]
    /\ obj_count = 0
    /\ top_addr = 0
    /\ ret = NoValue
    /\ err = "none"
    /\ broken = "no"

-----------------------------------------------------------------------------
Throw(e) ==
    /\ err' = e
    /\ UNCHANGED <<memory_size, mem, type_record, obj_count, top_addr, ret, broken>>

PastBlock(addr) == addr + 3 >= memory_size
Break(how) == broken' = IF broken = "no" THEN how ELSE broken

\* Variant: the type of the first byte only.
StoreFirstType(addr, t, v) ==
    /\ mem' = [b \in DOMAIN mem |-> IF b \in addr .. addr + 3 THEN <<v, b - addr>> ELSE mem[b]]
    /\ type_record' = [type_record EXCEPT ![addr] = t]

\* *((u32*) (base + addr)) = v, and the type of its four bytes.
Store(addr, t, v) ==
    LET word == addr .. addr + 3
        inside == IF t = "UINT32" THEN "INSIDE_UINT" ELSE "INSIDE_INT"
    IN  /\ mem' = [b \in DOMAIN mem |-> IF b \in word THEN <<v, b - addr>> ELSE mem[b]]
        /\ type_record' = [b \in DOMAIN type_record |->
                              CASE b = addr -> t
                                [] b \in word \ {addr} -> inside
                                [] OTHER -> type_record[b]]

WordAt(addr) ==
    IF \E v \in Value : \A k \in 0 .. 3 : addr + k \in DOMAIN mem /\ mem[addr + k] = <<v, k>>
    THEN mem[addr][1] ELSE Torn

\* prepare_stack_top(PUSH, ...), then the write.  The first entry is pushed
\* where the top already is, without a check.
push(t, v) ==
    /\ err = "none"
    /\ LET addr == IF obj_count > 0 THEN top_addr + 4 ELSE top_addr
       IN  /\ obj_count' = obj_count + 1
           /\ top_addr' = addr
           /\ UNCHANGED <<memory_size, ret>>
           /\ \/ /\ obj_count > 0 /\ addr >= memory_size
                 /\ err' = "INVALID_ADDR"
                 /\ UNCHANGED <<mem, type_record, broken>>
              \/ /\ obj_count = 0 \/ addr < memory_size
                 /\ Store(addr, t, v)
                 /\ IF PastBlock(addr) THEN Break("overrun") ELSE UNCHANGED broken
                 /\ \/ UNCHANGED err
                    \/ PastBlock(addr) /\ err' = "fault"

push_uint(v) == push("UINT32", v)
push_int(v) == push("INT32", v)

\* prepare_stack_top(POP, ...): the top word loses its types, and the top moves
\* down; for the last word only a signed one's moves.  Other types move nothing.
PrepareTopToPop ==
    LET t == type_record[top_addr]
        typed == t \in {"UINT32", "INT32"}
        down == t = "INT32" \/ (t = "UINT32" /\ obj_count > 1)
    IN  /\ type_record' = [b \in DOMAIN type_record |->
                              IF typed /\ b \in top_addr .. top_addr + 3
                              THEN "NOVALUE" ELSE type_record[b]]
        /\ top_addr' = IF down THEN (top_addr - 4) % WordMod ELSE top_addr
        /\ obj_count' = obj_count - 1
        /\ err' = IF top_addr' >= memory_size THEN "INVALID_ADDR" ELSE err
        /\ UNCHANGED <<memory_size, mem, broken>>

\* Variant: without the check of the count.
PopUncounted(t) ==
    /\ err = "none"
    /\ \/ type_record[top_addr] # t /\ Throw("INVALID_DATATYPE_ACCESS")
       \/ /\ type_record[top_addr] = t
          /\ PrepareTopToPop
          /\ ret' = IF err' = "none" THEN WordAt(top_addr) ELSE ret

\* Variant: the word read after the top has moved.
PopFromMovedTop(t) ==
    /\ err = "none"
    /\ \/ type_record[top_addr] # t /\ Throw("INVALID_DATATYPE_ACCESS")
       \/ /\ type_record[top_addr] = t /\ obj_count = 0
          /\ Throw("EMPTY_STACK_ACCESS")
       \/ /\ type_record[top_addr] = t /\ obj_count > 0
          /\ PrepareTopToPop
          /\ ret' = IF err' = "none" THEN WordAt(top_addr') ELSE ret

\* pop_uint and pop_int, for t = "UINT32" and "INT32".
pop(t) ==
    /\ err = "none"
    /\ \/ type_record[top_addr] # t /\ Throw("INVALID_DATATYPE_ACCESS")
       \/ /\ type_record[top_addr] = t /\ obj_count = 0
          /\ Throw("EMPTY_STACK_ACCESS")
       \/ /\ type_record[top_addr] = t /\ obj_count > 0
          /\ PrepareTopToPop
          /\ ret' = IF err' = "none" THEN WordAt(top_addr) ELSE ret

pop_uint == pop("UINT32")
pop_int == pop("INT32")

\* remove(1): every caller's count is 1.
remove ==
    /\ err = "none"
    /\ \/ obj_count = 0 /\ Throw("EMPTY_STACK_ACCESS")
       \/ obj_count > 0 /\ PrepareTopToPop /\ UNCHANGED ret

Return(addr) ==
    /\ ret' = WordAt(addr)
    /\ UNCHANGED <<memory_size, mem, type_record, obj_count, top_addr, err, broken>>

\* read_top_uint and read_top_int.
read_top ==
    /\ err = "none"
    /\ \/ obj_count = 0 /\ Throw("INVALID_ACCESS")
       \/ obj_count > 0 /\ Return(top_addr)

\* read_sectop_uint and read_sectop_int: the word below the top, at a distance
\* get_obj_size takes from the type of the top.
read_sectop ==
    LET typed == type_record[top_addr] \in {"UINT32", "INT32"}
    IN  /\ err = "none"
        /\ \/ obj_count < 2 /\ Throw("EMPTY_STACK_ACCESS")
           \/ obj_count >= 2 /\ ~typed /\ Throw("throw 1")
           \/ obj_count >= 2 /\ typed /\ Return(top_addr - 4)

read_uint(addr) ==
    /\ err = "none"
    /\ IF addr >= memory_size \/ addr > top_addr THEN Throw("INVALID_ADDR")
       ELSE IF obj_count = 0 THEN Throw("EMPTY_STACK_ACCESS")
       ELSE IF type_record[addr] # "UINT32" THEN Throw("INVALID_DATATYPE_ACCESS")
       ELSE Return(addr)

\* Ram::set_uint and set_int on the stack's memory, from the menus.
set(addr, t, v) ==
    /\ err = "none"
    /\ \/ addr >= memory_size /\ Throw("INVALID_ADDR")
       \/ /\ addr < memory_size
          /\ Store(addr, t, v)
          /\ IF PastBlock(addr) \/ (addr % 4 # 0 /\ obj_count > 0 /\ addr < top_addr + 4)
             THEN Break("overwritten") ELSE UNCHANGED broken
          /\ \/ UNCHANGED err
             \/ PastBlock(addr) /\ err' = "fault"
          /\ UNCHANGED <<memory_size, obj_count, top_addr, ret>>

\* Variant: the top address forgotten.
ResetKeepingTop ==
    /\ err = "none"
    /\ obj_count' = 0
    /\ UNCHANGED <<memory_size, mem, type_record, top_addr, ret, err, broken>>

reset ==
    /\ err = "none"
    /\ obj_count' = 0
    /\ top_addr' = 0
    /\ UNCHANGED <<memory_size, mem, type_record, ret, err, broken>>

Next ==
    \/ \E v \in Value : push_uint(v) \/ push_int(v)
    \/ pop_uint
    \/ pop_int
    \/ remove
    \/ read_top
    \/ read_sectop
    \/ \E addr \in 0 .. memory_size : read_uint(addr)
    \/ \E addr \in SetAddrs, v \in Value :
          set(addr, "UINT32", v) \/ set(addr, "INT32", v)
    \/ reset

Spec == Init /\ [][Next]_vars

-----------------------------------------------------------------------------
\* The types of the variables: top_addr wraps when the last word, a signed one,
\* is taken from the stack, and the count of the words never goes below zero.
TypeOK ==
    /\ memory_size \in MemorySizes
    /\ mem \in [0 .. memory_size - 1 -> (Value \X (0 .. 3)) \cup {Junk}]
    /\ type_record \in [0 .. memory_size - 1 -> TypeCodes \cup FreshTypes]
    /\ obj_count \in Nat
    /\ top_addr \in 0 .. WordMod - 1
    /\ ret \in Value \cup {NoValue, Torn}
    /\ err \in {"none", "fault"} \cup Errors
    /\ broken \in {"no", "overrun", "overwritten"}

\* The count and the top address are kept apart by every method; until a word
\* is written across others, the top address is that of the last word counted.
TopTracksCount ==
    err = "none" /\ broken = "no" => top_addr = IF obj_count = 0 THEN 0 ELSE 4 * (obj_count - 1)

\* What the read and pop methods rely on when they look at the type of the top
\* only: each counted word is typed as one, and its bytes are those of one value.
WordsAreWhole ==
    err = "none" /\ broken = "no" =>
       \A i \in 0 .. obj_count - 1 :
          /\ type_record[4 * i] \in {"UINT32", "INT32"}
          /\ \A k \in 1 .. 3 : type_record[4 * i + k] \in {"INSIDE_UINT", "INSIDE_INT"}
          /\ WordAt(4 * i) \in Value

Contents == [i \in 1 .. obj_count |-> [type |-> type_record[4 * (i - 1)],
                                       val |-> WordAt(4 * (i - 1))]]

Typed == INSTANCE TypedStack WITH
    Capacities <- {n \div 4 : n \in MemorySizes},
    capacity   <- memory_size \div 4,
    contents   <- IF broken # "no" \/ err # "none" THEN <<>> ELSE Contents,
    outcome    <- IF broken # "no" THEN broken ELSE IF err = "none" THEN "running" ELSE err

\* The methods behave as the operations of a stack of typed words, until a push
\* onto a full stack or a write of the user across words or past the block.
ImplementsTypedStack == Typed!Spec

=============================================================================
