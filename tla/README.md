# A TLA+ model of taipan's debugging virtual machine

taipan is an assembler (`.frt` to `.fbin`) and a virtual machine that debugs
the assembled programs: it executes a program once to record a *frame* of every
executed instruction, then lets the user walk along the frames, forwards and
backwards, and change memory and stacks on the way. This directory holds TLA+
models of its core, the TLC runs that check them, and TLAPS proofs.

All paths below are of `src/`, all checks ran on this commit's code. `opcode.h`
of this commit is half way to another instruction set: it has no numbers for
most instructions `dvm.cpp` implements. The models of the virtual machine
therefore take the numbering of the opcodes as a constant, and sizes and operand
counts from the type recorder and the frame builders; the models of the
assembler use `opcode.h`'s numbers, which are what `asm.cpp` is built with.

## 1. Inventory

| Component | State | Operations | What makes it correct |
|---|---|---|---|
| Call stack (`dvm.cpp` 48-162) | array of u32 cells, index of the top, count, limit | push, pop, remove, reset, change limit | index and count agree; LIFO; entries stay inside the block up to the limit |
| Working stack (`workstack.cpp`) | bytes, one type per byte, count, top address | push/pop/read of unsigned and signed words, remove, reset; writes from the menus | top follows the count; every counted word is typed and whole; typed LIFO |
| Loader and type recorder (`ram.cpp` 27-158, 283-313) | memory image, type per byte | load a file, walk it with two cursors | types lie where the instructions and operands lie |
| Ram accessors (`ram.cpp` 224-386) | same | checked get and set | no access is let through that the types forbid |
| Arithmetic (`dvm.cpp` 2043-2403) | none | 30 builders of results | results are what the names promise, on 32-bit words |
| Instructions (`dvm.cpp` 206-304, 438-839, 1702-2041) | pc, loop counter, stacks, memory, histories of popped values | build, execute, undo | execution repeats what building did; undo reverses it |
| Frame vector (`iframe.cpp` 190-215) | doubly linked, numbered frames | append | numbers and links follow execution; loop parents are set |
| Debugger session (`dvm.cpp` 576-691, 841-1089, 1162-1700) | position in the frames, modes, flags | one input of the user at a time | position agrees with the frames; runs stop; reset and undo lead to what they say |
| Breakpoints (`dvm.cpp` 164-209, 1091-1160) | a vector that no code fills | | |
| Threads (`dvm.cpp` 3026-3240) | the frame vector, shared; one machine each | builder appends while the user walks; main waits for both | the user stands at finished frames only; everything ends |
| Parser (`parser.cpp`) | line buffer, token being built, tokens, lines | read a line, one character, finish a token | lines are cut where their words are; exactly the improper ones are refused |
| Symbol table (`symtab.cpp`) | symbols with values or byte offsets | create, look up, import, resolve macros, offsets, sizes | every name means one thing, and stays so when tables are merged |
| Assembler (`asm.cpp`) | token stream, program counter, imports, instructions, bytes | two passes, operands and expressions, import, layout, writing | both passes find the same instructions; the file says what the source says; assembling ends |
| Command line, terminal input (`dvm.cpp` 3267-, `user_input.cpp`) | option table | parsing | |

How they interact: `main` calls `dvm_main_NOTHREAD`. It loads the program into
a `Ram` (loader, type recorder), gives it to a first `DebugVM` with a call stack
and a working stack, and builds all frames. It then deletes these and starts a
second `DebugVM` on a new `Ram` that shares only the frame vector. Everything is
called directly; nothing runs concurrently in this variant. In the other,
`dvm_main`, which `main` does not call at this commit, both exist at once, each
in a thread, and share the frame vector without a lock. The file they load is
the assembler's: `parse_file` gives it tokens, its first pass symbols and the
room they and the instructions need (and, for each import statement, another
assembler with another first pass), then addresses are made final and the second
pass builds and writes the instructions.

The hard behaviours are sequences of legal calls: calls and returns around an empty stack, mixes of
steps, undos, resets and edits; positions kept in four variables; results
computed in one run and used in the other; limits; uninitialised type records;
two passes that read the same text by different rules; symbols whose addresses
are final in one table and not in another; and two threads.
No caller catches what the stacks and `Ram` throw (the one `catch`, in the call
stack's menu, names another type than what is thrown), so an exception ends the
program.

The hazards are listed with their lines in `PROJECT.json`.

## 2. Modules

    Tokenizer ---------------------------------------- TokenizerProofs
       : tokens
    Assembler ---------------------------------------- AssemblerProofs
       |  \--extends--> OperandResolver --extends--> SymbolTable
       |  \--extends--> Opcodes         \--instance--> ALU
       : bytes of the file
    TypeRecord --------------------------------------- OperatorProofs
    LifoStack  <--implements-- CallStack ------------- CallStackProofs
    TypedStack <--implements-- WorkStack ------------- WorkStackProofs
    ALU ---------------------------------------------- OperatorProofs
     \-- given as operators to -- Machine
                                   |  extends
                                DebugVM -------------- DebugVMProofs
    ThreadedDVM -------------------------------------- ThreadedDVMProofs

    DataLemmas: facts about sequences, induction over the naturals and loops
    written as recursive functions, for the proofs

Dotted lines are data one program leaves for the next; the models on both sides
of one are checked by themselves.

**CallStack** models class `CallStack`, one action per method. Its variables
are the fields of the class and three notes: `ret`, what the last pop returned,
`err`, what ended the program, and `overrun`, that an entry was once kept
outside the block. The block has `limit \div 4` cells because `malloc` is given
the limit as bytes. A write past the block may fault or be lost and a read there
may fault or give any address; past `FarIndex` it always faults. **LifoStack**
is the promise: a stack with removal from the middle, with the room it has as a
variable. Its `Break` names the only ways out of the promise: an operation
that leaves more entries than the room there is then, which a new limit changes,
and a push onto a stack whose last entry was popped or removed.

**WorkStack** models `WorkStack` byte by byte, with a type per byte, because a
write from a menu may start anywhere. `push`, `pop`, `remove`, the reads, `set`
(the menus' writes, which are `Ram`'s) and `reset` are actions. The type record
starts as uninitialised memory. Bytes pushed with `push_ubyte` do not occur:
nothing calls it. **TypedStack** is the promise: typed words, where reads do not
look at the type, pops of unsigned words do, and the last signed word never
comes back.

**TypeRecord** models loading and type recording on words of four bytes, to
which opcodes and operands are aligned. The recorder's two cursors are fields of
a record that one pass through `process_next_op` (`RecordOp`) takes to the next.
The first instruction follows the metadata (no symbol table is kept in the
file).

**ALU** has the results of the arithmetic builders for words of `Width` bits.
Undefined behaviour of C++ is what x64 code makes of it, the one platform of the
program (`symtab.cpp` 99 documents x64 layout): signed sums wrap, shift counts
are taken modulo the width, the one overflowing division traps (`Trap`).

**Machine** has operators on a record `m`, the state a program works on: memory
with types, pc, both stacks, loop counter, histories, `err`. `NewFrame` and
`BuildError` are `build_iframe` and its builders, `exec_iframe` stands for
`exec_iframe` and `exec_iframe_IFBF`, which do the same to this state, and
`undo_exec_iframe` is the function of that name. The stacks are those of
LifoStack and TypedStack, as the stack modules justify up to their ways out;
beyond these `err` becomes `"undefined"` or `"fault"` and the machine stops.

**DebugVM** is the whole session. `at` is where control is: `build`, `built`,
`exec_handle`, `prompt`, `end_menu`, `exited`, `crashed`. A frame pointer is a
number, 0 is NULL. Every entry of the prompt is an action, and so is every entry
of the end menu; entries that only print are left out unless what they print can
fail (showing an instruction). `trace` is not in the code: it keeps what the
machine was before each frame in the building run, for the properties to compare
with. In the maps, the lines of an action are those of its entry in the switch,
and the functions it calls are the mapped operators it uses.

**ThreadedDVM** models the start with two threads (`dvm_main`,
`main_dvm_handle`, `DVM_user_thread`, `IFrame_builder_thread`). The frames, the
links between them and the vector are all the threads share and all the module
has of them: `built`, `linked`, `size`, `capacity`. The user has every
input, at the prompt and at the end, locked or not; what an instruction, an undo
or a menu does to the user's own machine is left to DebugVM, and here they may
fail (`OwnFailures`) or not. A menu's quit sets the flag and returns to where the
menu was opened (`MenuQuit`). One action is a piece of code
with one access to shared memory, so the builder's turn is four to six actions:
fields, link, `push_back` (in two steps when the storage moves), text, execution.
What fails is an outcome: reading through a link that is not there yet, through
storage being moved, a text being written, a deleted vector, NULL.
`DoneBuilderIsSafe` says that of these none is left when the builder is done but
two, which the other start has as well: leaving the last frame without executing
it, and showing `last_iframe` at the second frame, where it is NULL.

**Tokenizer** models `parse_file`, `readline` and `tokenize_line`; an iteration
of the loop over the characters is an action, chosen by the character. Texts are
sequences of characters, since how a line falls apart is the question. Values of
integers are computed, other values abstracted.

**SymbolTable** has operators on a table `st`: a sequence of symbols, looked up
from the front. A name is the sequence of its prefixes and the identifier.
**Opcodes** is the operand count of each opcode, as the cases of the passes give
it, and the table of sizes it is written by. **OperandResolver** has the two ways
the assembler reads an operand, `count_uint_operand` and `resolve_uint_operand`,
as folds over the tokens with every way they halt. **Assembler** is the whole of
`assemble_main_module`: `asms` is the stack of assemblers in their first pass, an
import pushes one, its return pops it. `bytes` is the file, byte by byte, as far
as instructions are written to it: an opcode is one byte, an operand four, and
what lies past `mem_size` is not in it (`WithinFile`). Each statement is an action of its pass,
each later step of `assemble_main_module` an action named for it. How it ends is
in `at`: done, an error that is reported or not, or `"spinning"`, a loop that
moves nothing on.

The `MC*` modules give the constants their values; some modules hold *variants*
of single definitions, marked as such, which no run uses: each is a plausible
mistake that some checked property excludes.

## 3. Runs

Passing runs (state counts are distinct states):

| Run | Bounds | Shows |
|---|---|---|
| `call_stack` | 2 addresses, limits of 0, 5, 8, 12 bytes (0 to 3 cells, one with a partial cell), words of 32 values | `TypeOK`, `TopTracksLevel`, `ImplementsLifo` |
| `work_stack` | blocks of 10 and 12 bytes, 2 values, writes at 4 addresses, one across words and one past the block; 660,000 states | `TypeOK`, `TopTracksCount`, `WordsAreWhole`, `ImplementsTypedStack` |
| `type_record` | every program of up to 4 instructions of 8 kinds, operands that look like opcodes; 260,000 states | `PrefixIsRecorded` |
| `arithmetic` | every pair of words of 4 bits | `RotationsRotate`, `DivisionWithRemainder` |
| `replay` | 18 programs, both contents of the uninitialised record in either session, stepping, looking, ending | `ReplayMatchesBuild`, `ReplayNeverFails` |
| `run_modes` | 9 programs, locked or not, stepping, undoing, all ways of running, resetting, quitting; 300,000 states | `UndoRestoresWorkStack`, `BreakpointRunStops` |
| `menus` | one program with a call, all edits of memory and stacks of two entries, undo, reset, end menu; 750,000 states | `TypeOK`, `PositionAgrees`, `EndedSessionEnds` |
| `threads` | programs of 1 to 4 frames that end, throw or loop, at most 5 frames built, every input, locked or not; 17,000 states | `TypeOK`, `WalksBuiltFrames`, `DoneBuilderIsSafe`, `QuitEndsProcess` |
| `assemble` | every program of up to two of 39 statements, three of 12, and `nop`, and some that end with an operand; three modules to import; symbols kept or not; 62,000 states | `TypeOK`, `FileIsAsWritten`, `LoaderFindsProgram`, `PassesAgree`, `ImportsVisible`, `LookupsStay`, `AssemblyEnds` |
| `source_text` | every line of up to 3 of 21 kinds of characters, of 4 of the 11 that make words, of up to 3 of 12 longer pieces; files of up to 3 short lines; 250,000 states | `TypeOK`, `TokenizesWords`, `RefusesExactly`, `ColumnsPoint`, `ErrorsQuoteTheirLine`, `ParseEnds` |

Why these bounds are enough: the call stack's methods distinguish an empty
stack, one entry, more, a full block, one entry past it, and a wrapped index,
and all occur with three cells; the same holds of two and a half words of the
working stack. The recorder's cursors part at the first instruction with two
operands and never meet by themselves, so four instructions show every order of
an instruction before, at, and two after. Arithmetic is uniform in the width,
which is a constant; 4 bits have every sign, carry, zero and overflow case. The
programs of the session runs use every opcode class of the switches, in
programs that end (`Finite`) and that fail (`Failing`: recursion past the block,
a call on a drained stack, an unknown opcode, an underflow, lcont without its
parent, an endless loop). `MaxFrames` bounds the frames built, `MaxHistory` the
values undo and reset may leave in the histories; both only cut runs short.
The threads differ in what they are doing at one frame and the next; four frames
move the vector's storage at each and let the user be behind, at and on the way
past the builder. The statements of the assembler's run have every kind of operand,
definition and import, right and wrong, and what one leaves behind (a token not
read, a symbol, a count) meets the next two; `lib` imports `deep`, as programs
may do themselves, and `loop` imports itself. `MaxNesting` stands for the room
of the process's own stack, `MaxInstrs` for its memory, which an opcode without a
case fills; `Width` 16 is enough for all addresses. The state of `tokenize_line`
between characters is the token being built, so that three characters show every
character at every kind of token and what the next does there. The parser's
limits are scaled: `MAX_ID_LEN` 6 (40 in `parser.h`), `LINEBUF_INIT_SIZE` 8 and
`LINEBUF_GROWTH_FACTOR` 4 (500 each), all passed by some line; `MaxLinenum`
stops the count of lines of a parser that never ends.

`replay` leaves one program out, `FreshVariable`, which stores to memory past
what the recorder types. It is accepted or refused as the uninitialised record
happens to be, and the two sessions may differ.

Violation runs: each states what a comment of the code says, and TLC finds the
step at which the code does something else.

| Property | Line | What the code does |
|---|---|---|
| `UndoReverses` | `dvm.cpp` 218 | undo moves two frames back and reverses one |
| `InstrsFillProgram` | `asm.cpp` 728, 744 | room is counted by operands, and instructions are written by a table of sizes that is out of step with the opcodes |

Further things the models do because the code does, and a reader may not expect.

Virtual machine:

- after the last pop the index of the call stack is 2^32 - 1: call, ret, call
  writes there and faults (`dvm.cpp` 130, `Dec` of CallStack; the `FarIndex` cell
  always faults);
- the call stack's block has a quarter of the room its limit promises
  (`dvm.cpp` 98), and once its last entry is popped the menu refuses every new
  limit (54): `Break` and `Refuse` of LifoStack;
- the last word of the working stack cannot be removed if it is signed
  (`workstack.cpp` 96): `PopInt` and `Discard` of TypedStack;
- after stktr, cpyr or setr the type recorder reads from the wrong word
  (`ram.cpp` 150): `PtrStep` of TypeRecord, and the `PrefixIsRecorded` of its run
  ends there;
- 0 divided by a number is reported as a division by zero (`dvm.cpp` 2102):
  `zero_div` of ALU;
- a frame of lcont or lbrk after another frame throws when it is appended
  (`iframe.cpp` 209): `AppendError` of DebugVM;
- running until the end executes nothing and reads NULL (`dvm.cpp` 863):
  `ExecUntilEnd`; running until a breakpoint skips the current frame (930):
  `ExecUntilBp`; reset from the prompt leaves pc (998): `ResetDebugger`; showing
  the last instruction right after the first reads NULL or frame -1 (954, 983):
  `ShowImdLastInstr`, `ShowAt`, with two threads as with one;
- the menu for the working stack writes to any address (1459): `WstkModify` has
  counted words, what nothing will read, and the outcomes of writes that are
  refused or leave no whole words, which are in WorkStack;
- with two threads the user overtakes the builder, against the comment at
  `dvm.cpp` 3146, and meets a frame that is not linked yet or a vector that is
  being moved: `over = "fault"` of ThreadedDVM while the builder is not done.

Assembler:

- the second pass writes every operand of an instruction to its first slot
  (`asm.cpp` 2165), so the last wins (`FileIsAsWritten` therefore speaks of one
  operand), and an instruction with two operands practically never assembles;
- expressions take the top of the value stack for the left operand: `5 - 3` is
  3 - 5; offsets in brackets are evaluated and lost; parentheses are refused
  while counting; counting to the end of the stream throws `out_of_range`;
- an import statement after an instruction with a plain operand is swallowed;
- builtin symbols cannot be named, since every name gets the file's prefix;
  definitions of a name twice are not detected, and the first counts;
- a macro that names a macro gets no value: `resolve_all_macros` looks at the
  symbol's type where its value's is meant (`symtab.cpp` 750);
- an import overwrites the importer's sizes, its instructions are never built,
  and its labels are numbered from 0 although they will not be there;
- opcode 19, which has no case, falls through to the definition of a macro in the
  first pass and goes round for ever in the second; so do a stray operator, `;`
  or path, an unclosed bracket, and, except for a macro's value, what the parser
  makes of `.5`, `$`, `@` and `~`: the first pass has no case for them
  (`FirstPassTypes`, `StrayTok`, and `Tidy`, which `AssemblyEnds` is about);
- the padding behind kept symbols is counted neither in the block nor in the file
  (`asm.cpp` 2411): the last one to three bytes of a program that ends in an
  operand are written past the block and missing in the file (`WithinFile`,
  `LostToPadding`);
- a macro that is a string has no value, and keeping symbols measures it through
  a pointer nothing has set (`symtab.cpp` 64): any length (`StrayLength`), or the
  end of the process;
- `start_instr_addr` is not aligned; without symbols, it is 36 whatever comes first;
- an import in a circle ends with the process's stack, and what `symtab.cpp`
  throws is not what `Assembler_main` catches.

Parser:

- the prefixes `$`, `%`, `@`, `~` become tokens at once and without text, so that
  no token is ever signed, and `%` is the remainder operator;
- `7.5` is the integer 7, `.5` has no value, `08` is 0, `0x1x` is accepted,
  `let:` is the keyword;
- operators, prefixes, `;` and paths have the column of the token before them;
  behind a string columns are one short; a comment glued to a token loses its
  `#`; `<` takes up the token being built; breakpoint tokens lose their letters;
  characters of no kind are passed over, in a token too;
- an unclosed string leaves the buffer, and paths and `~` have no entry in the
  table of names (`toktype_mnemonics`, `parser.h` 250): outcome `"undefined"`;
- the buffer's first byte is tested before it is written: an end of line in it,
  and the parser never ends (`ReadNothing`); a line that outgrows the buffer is
  written on to where the buffer was (`parser.cpp` 411);
- lines are found by number in a list that lacks those without a token, and the
  last opcode is not found if it is the first token.

Deadlock checking is off in every run: an uncaught exception or the user ends
the program, assembler and parser end with their input, and the two runs that
enumerate inputs end with those.

**Fairness.** `FairSpec` has weak fairness of `Main`: building a frame,
starting the session, entering `exec_handle`. These are steps of the program's
only thread between two inputs, which nothing can hold up. The user's inputs are
not fair: nobody has to type. In ThreadedDVM the threads are fair each by
itself, as the scheduler runs each: `MainThread`, `Builder`, and `UserRuns`, what
the user's thread does between two inputs. In Assembler and Tokenizer `Next` is
fair: one thread, which waits for nothing. The liveness properties are
`BreakpointRunStops`, `QuitEndsProcess`, `AssemblyEnds` and `ParseEnds`; the last
two name the inputs for which they do not hold.

## 4. Proofs

All theorems are for every value of the constants that meets the named
assumptions of the modules; TLC evaluates these on every run. A few theorems have
further hypotheses, named where they stand.

`CallStackProofs`, from the assumptions `LimitsAssumption` and `AddrAssumption`
(limits leave room below the cell where accesses always fault):

- `TypeCorrect`, `TopTracksLevelHolds`. The inductive invariant is the two
  together. `TypeOK` is not inductive alone: that the count stays below
  `FarIndex` is known only because the index, which is compared with the limit,
  follows the count; and the index stays with the count only while neither
  wraps, which is in `TypeOK`.
- `CallStackImplementsLifo`: `Spec => Lifo!Spec`. The strengthening is
  `EntriesInBlock`: until `Broken`, all entries are inside the block and are
  addresses pushed. Each method maps to the operation of its name, a throw to
  `Refuse`, an access outside to `Break`, and what follows to `Undefined`.

`WorkStackProofs`, from the assumptions on the sizes of block and words:

- `TypeCorrect`, `TopTracksCountHolds`, `WordsAreWholeHolds`. The inductive
  invariant `IInv` is the three properties and `TopInBlock`: while the program
  runs, the top is an address of the block. None is inductive alone: the top moves
  by the size of the type found there, so that it follows the count only if that
  word is whole, and the type can be looked up only inside the block.
- `WorkStackImplementsTyped`: the module implements TypedStack. `Contents` is
  the refinement mapping, the word and type at each counted place; `ContentsSeq`
  and `StoreContents` are the lemmas about it, and as in the call stack an
  exception maps to `Refuse` and what leaves the promise to `Break`
  (`ThrowSimulates`, `BreakSimulates`).

`DebugVMProofs`, from `TypeRecordAssumption`, `MachineAssumption` and three more.
`MnemonicAssumption` has opcodes stand for instructions the type recorder knows;
`ArithmeticAssumption` says that the operators given for the arithmetic return
words, or `Trap` where the code divides, which `ALU` does; `DebugVMAssumption`
that programs are words and bounds numbers.

- `PositionAgreesHolds`. The inductive invariant `PositionInv` adds that the
  vector is a sequence of frames, that it is not empty once built, and that
  the end menu, from which a session restarts, holds a frame. The proof needs
  nothing of what instructions do, so it holds for every program and arithmetic.
- `EndedSessionEndsHolds`. Inductive by itself.
- `TypeCorrect`. `TypeInv` gives the whole machine a type (`Machines`), the frames
  theirs, and needs `PositionInv` for the pointers; a lemma for each operation on
  the machine says that it stays one.
- `UndoRestores`. An undo step itself says nothing of the first run; `HistoryInv` does:
  there are machines, one before each frame, that look like `trace`, and each is
  made of the one before it by executing its frame once more. Nothing the user
  does changes frames or trace, so this stays, and undoing the frame on the state
  it led to can be compared with the state it began in.
- `ReplayMatches`. `ReplayInv` links the second machine to those of `HistoryInv`:
  the same memory where the recorder has types, the same stacks, and what the
  first run remembered in between does not matter. The hypothesis `StepByStep`
  is what the run `replay` has for inputs: the session is locked, and the user
  executes frame after frame, looks, and ends; undoing, editing and resetting
  lead elsewhere on purpose.
- `ReplayNeverFailsHolds` adds the hypothesis `SameFresh`, that uninitialised
  memory holds the same types for both sessions. Without it the claim is false:
  `FreshVariable`, the program left out of `replay`, stores to memory whose type
  nobody set, which may be refused in one session only.

`ThreadedDVMProofs`, for every program, bound and set of inputs:

- `TypeCorrect`, `WalksBuiltFramesHolds`, `DoneBuilderIsSafeHolds`. The invariant
  `Inv` says, next to the types, how `built`, `linked` and `size` are related at
  each place of the builder (`BuilderInv`: each is at most one ahead of the next,
  and equal at its end), that the vector is deleted only while no builder runs
  (`MainInv`), and that the user stands at linked frames, and keeps one or NULL as
  the last (`WalkInv`). The user's steps need only that nothing takes a link back.

`OperatorProofs`, of the two components that are operators with no state of
their own. The arithmetic, from `ALUAssumption` (widths of 1, 2, 4 ... 32 bits):

- `DivisionHolds`: what `arithmetic` checks on 4 bits, of the words of the
  program. `HalfOfWords` is all it needs of the width; `DivisionOfNaturals` and
  the lemmas about two's complement carry the four cases of the signs.
- `RotationsRotateHolds`, on every width, for all words and counts: a rotation by
  zero or by a multiple of the width is among them, where the code shifts by the
  full width. A word is the set of its bits: words with the same bits are the same
  (`BitsDetermine`), and `WordOf`, which adds up powers of two in an order nobody
  fixes, finds the word of a set (`WordOfBits`). `ShlBits` and `ShrBits` say
  where the shifts move each bit, `RotatedBits` that the two of a rotation meet.

The type recorder, from `TypeRecordAssumption` and `ProgramAssumption` (the recorder
has a case for each mnemonic, operands are numbers, and memory has room for
`MaxInstrs` instructions of four words):

- `PrefixIsRecordedHolds`, for programs of any such length and any operands, those
  included that read as opcodes. `ProgramInv` says what a program is: each
  instruction as long as its opcode wants, and only the last ends it; `OpcodesLoaded`
  that its opcodes lie in memory where the flattened program has them. Before
  each instruction up to the first with two operands both cursors stand on
  its opcode, what is before it is typed and nothing behind it (`AtInstr`,
  `ReachesInstr`); from there on the reading cursor is a word too far, and what
  is read is arbitrary, but no later round writes behind the writing cursor
  (`RecordKept`).

`TokenizerProofs`, for all files and limits (`FilesAssumption`: files are
sequences of lines, and no line holds its own end):

- `ErrorsQuoteTheirLineHolds`. `LineInv` adds that the list of lines has as many
  as there are lines up to the current one when none of them lacks a token
  (`LinevecKeepsUp`), and that `isFirstTokOnLine` says whether the current one
  has one (`FlagKnows`). All cases of `tokenize_line` come down to two: a step
  makes a token (`Creates`), or nothing of this changes (`Keeps`).
- `TypeCorrect`. `TypeInv` says that the cursor stays on the line, although it is
  stepped back when a token ends, and that only a token being built has a text.
- `ColumnsPointHolds`. `ColumnInv` says that on a line nothing disturbs, the
  column counted is the cursor, and that the token being built spells what
  stands between its column and the cursor; a token is made with the column its
  text began at. The property is about lines without tabs, strings and paths (`Disturbing`)
  and of less than 256 characters, as a token keeps 8 bits of its column
  (`parser.h` 331); no line of the run is that long.

`AssemblerProofs`, from `AssemblerAssumption` (files are sequences of tokens, and
at least one assembler has room):

- `ImportsVisibleHolds`. `AsmInv` is an invariant of the stack of assemblers: each
  is one of its file (`AsmsInv`), its table has the labels of the tokens it is past
  (`ReadInv`), and each module that was read has its labels in a card of
  some assembler that waits for no import of it any more (`CardsInv`). A return merges the
  cards of the one that returns into the card its importer waits with, so that at the end
  all are in the main module's table (`VisibleInv`), whatever imports what. The
  property names labels as they are found: the one directly behind an opcode
  without a case is none, as that opcode takes it for a macro's keyword, and a
  name that is written with a prefix gets no other.
- `LookupsStayHolds`, from the same invariant: `WithImportsEnlarges` says that a
  table only gets more symbols behind its own, `LookupKept` that the first of a
  name is then the same.
- `TypeCorrect`: that neither pass leaves the stream, in particular.
  `OperandsCounted` and `OperandsEnd` say where the two readers of operands stop,
  for any operands. Hypothesis `Lengths`: names have a length, what `strlen`
  returns, and so has what a string macro's pointer leads to (`StrayLength`).
- `LoaderFindsProgramHolds`. `SizeInv` says that the size the main module's table
  has is that of its names when the metadata are made, `HeaderInv` that the
  metadata stay true although `finalise` takes the size again, `InstrsInv` that the
  bytes are those of the instructions, up to the end of the file. Its proof needs
  that a later instruction is written behind the first (`FirstIsWritten`), and that
  the first is in the file: `FileEnds` says that the file ends at most three bytes
  before the room for the program does. Hypotheses: `Lengths`, and `OpcodesSized`,
  that no opcode of the main file is past the end of `opsize_tbl` (those are 125
  to 127). All programs of the run `assemble` meet both.
- `PassesAgreeHolds`, for all operands, those no grammar allows included. The first
  pass looks for the end of an operand, the second evaluates it, by different
  rules. `StaysTogether` runs both side by side: until the evaluation ends they are
  on the same token, unless the search has given up, which ends the first pass;
  and when the evaluation ends just before a token that begins a statement, the
  search has ended there too. So an instruction that lacks an operand never gets
  to the second pass, and no opcode is passed over by the operands before it
  (`OperandsBuilt`). `PassInv` follows both passes: what the first has
  counted is the number and the sizes of the opcodes it is past (`Tallies`), and
  the instructions built are those of the opcodes before the second's token. That
  token may be an opcode without a case, at which the second pass stays for good.
- `FileIsAsWrittenHolds`, for plain programs of any length: one file without
  imports, every name defined once, macros that are numbers, opcodes in the size
  the table has for them (`Agreed`), and at most one
  operand, a number or a name, right behind its opcode. Hypothesis `Lengths`.
  `TellsInv` says that the table tells what the file defines, all through both
  passes: a macro's number, and for a label the room the first pass had reserved
  there (`CountedIsBefore`), to which `finalise` adds the offset of the metadata
  (`FinaliseTells`, `FinalTells`). An operand of one token is evaluated to its
  number or to what the table says (`OperandsValue`). Hence `FileInv`: the built
  instructions stand for the opcodes passed, in order and in their places
  (`BuiltAs`, `InstrMeans`). At last `AllAreWritten`: an instruction
  is as long as the room for it (`Fits`), so none is written over another, and each
  is still there when the block is complete. What of the block is not in the file is
  the end of the last operand, as many bytes as the padding has (`FileEnds`,
  `BeforeGrows`): no opcode and no other operand reaches that far.

How loops are reasoned about: the provers here cannot use the induction theorems
of the library, which take predicates as parameters, nor recursive operators.
`SetInduction` and `StepInduction` of `DataLemmas` state induction for the *set* of numbers a
predicate holds of, from the fact that such sets have a least
number. The loops of the models are written as functions defined by recursion;
that such a function exists (`IterationExists`, and a lemma `...Exists` for each
loop) is itself proved by induction, and then what every round keeps, the
result has.

Only model-checked: `TokenizesWords`, `RefusesExactly`, and
liveness (`BreakpointRunStops`, `QuitEndsProcess`, `AssemblyEnds`, `ParseEnds`),
which TLAPS cannot prove (nor `ENABLED`). The two compare two computations of a
whole text, by induction over it in the specification's terms and the code's.

## 5. Not modelled, and the plan

Not modelled by decision:

- breakpoints (no code adds one), inserted instructions and the `*_INSERTED`
  builders (not called), `nspctrs` and `nspctsts` (not in the switch of
  `build_iframe`), `read_prog_from_file` (not called);
- displays, texts and the terminal, the command lines;
- the values of strings and reals, which no instruction takes, and what
  `apply_offset` writes beside the operands;
- opcodes 125 to 127, for which `opsize_tbl` is read past its end.

Changing the recursion limit is an action of `CallStack` but no entry of
`DebugVM`'s menus; changing the size of memory (`Ram::modify_size`, called at
`dvm.cpp` 1305 only), watch addresses and the type record with a kept symbol
table are missing so far.

Done in this order, by importance: call stack, working stack, type recorder,
arithmetic, machine, session, threads, assembler with its symbol table, parser;
proofs of each where they are in reach. Next:

1. `Ram` byte by byte with `modify_size`, and the entry of the memory menu.
2. The type recorder on files with kept symbols, and its composition with
   Assembler: what one writes the other types. `opcode.h` and `dvm.cpp` have to
   agree on the instruction set before that says much.
3. Proofs: `TokenizesWords` and `RefusesExactly`; `FileIsAsWritten` with
   expressions for operands, and with imports.
4. The command line and number entry.
