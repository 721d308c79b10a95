------------------------------ MODULE Assembler ------------------------------
(***************************************************************************)
(* How a program is assembled (asm.cpp): assemble_main_module and what it  *)
(* calls, from the stream of tokens to the bytes of the file.              *)
(*                                                                         *)
(* The first pass meets import statements, and for each new module creates *)
(* another Assembler and runs its first pass: asms is the stack of the     *)
(* Assembler objects in their first pass, the main module's at its bottom. *)
(* An Assembler's imports are its list of import cards.  After the first   *)
(* pass only the main module is left, and at is the step it takes next.    *)
(*                                                                         *)
(* The assembler does not return from some errors: "exit" is exit(1) after *)
(* a message, "caught" an exception that Assembler_main reports, others    *)
(* end the process.  "spinning" is a loop that goes round for ever.        *)
(***************************************************************************)
EXTENDS OperandResolver, Opcodes

CONSTANTS Source(_),    \* the tokens of a file, by its path
          MainPaths,    \* the files that may be given on the command line
          ImportPaths,  \* the others that can be read
          FileId(_),    \* the name of a file without its directory
          MaxNesting,   \* imports in imports until the program's own stack is full
          MaxInstrs     \* instructions until memory is full

Readable == MainPaths \cup ImportPaths

ASSUME AssemblerAssumption ==
    /\ MaxNesting \in Nat \ {0} /\ MaxInstrs \in Nat
    /\ \A path \in Readable : Source(path) \in Seq(Range(Source(path)))

VARIABLES asms,
          at,
          bytestream_size,
          metadata,
          instr_vec,
          bytes,         \* what instructions have written to the file, by address
          done_modules   \* paths of the imported modules whose first pass is over

vars == <<asms, at, bytestream_size, metadata, instr_vec, bytes, done_modules>>
output == <<bytestream_size, metadata, instr_vec, bytes>>

NewAssembler(path, keep) ==
    [path |-> path, toks |-> Source(path), toknum |-> 1, prog_size |-> 0, next_byte_addr |-> 0, instr_count |-> 0,
     symtab |-> NewSymbolTable(keep), imports |-> <<>>]

NoMetadata == [mem_size |-> 0, prog_size |-> 0, instr_count |-> 0, start_instr_addr |-> 0,
               first_instr_addr |-> 0, last_instr_addr |-> 0, first_user_byte_addr |-> 0,
               flags |-> FALSE, symtab_size |-> 0]

Init ==
    /\ \E path \in MainPaths, keep \in BOOLEAN : asms = <<NewAssembler(path, keep)>>
    /\ at = "first_stage_pass"
    /\ bytestream_size = 0
    /\ metadata = NoMetadata
    /\ instr_vec = <<>>
    /\ bytes = <<>>
    /\ done_modules = {}

asm == Last(asms)
main == asms[1]

\* An exception in at(), where the stream has no such token.
Missing(n) == n > Len(asm.toks)

Ends(how) == at' = how /\ UNCHANGED <<asms, output, done_modules>>

-----------------------------------------------------------------------------
(* first_stage_pass: one round of its loop.                                *)

InFirstPass(types) ==
    /\ at = "first_stage_pass"
    /\ asm.toknum <= Len(asm.toks)
    /\ asm.toks[asm.toknum].type \in types

tok == asm.toks[asm.toknum]

\* The innermost Assembler becomes a.
Becomes(a) ==
    /\ asms' = Append(Front(asms), a)
    /\ UNCHANGED <<at, output, done_modules>>

OpcodeTok ==
    /\ InFirstPass({"OPCODE_TOK"})
    /\ tok.v \in DOMAIN OperandCount
    /\ LET count == OperandCount[tok.v]
           s == CountOperands(asm.toks, asm.toknum, count)
           size == OPCODE_SIZE + UINT_SIZE * count
       IN  IF s.stop # "no" THEN Ends(s.stop)
           ELSE Becomes([asm EXCEPT !.toknum = s.n,
                                    !.instr_count = @ + 1,
                                    !.prog_size = @ + size,
                                    !.next_byte_addr = @ + size])

\* generate_symbol_id.
SymbolId(id) == IF Len(id) = 1 THEN <<FileId(asm.path), id[1]>> ELSE id

NumberTypes ==
    [t \in {"OCT_TOK", "HEX_TOK", "INT_TOK", "UOCT_TOK", "UHEX_TOK", "UINT_TOK", "UBYTE_TOK",
            "REAL_TOK", "UREAL_TOK", "ADDR_TOK", "ID_TOK", "STRING_TOK"} |->
        CASE t \in {"OCT_TOK", "HEX_TOK", "INT_TOK"}                 -> "INT_TYPE"
          [] t \in {"UOCT_TOK", "UHEX_TOK", "UINT_TOK", "UBYTE_TOK"} -> "UINT_TYPE"
          [] t \in {"REAL_TOK", "UREAL_TOK"}                         -> "REAL_TYPE"
          [] t = "ADDR_TOK"                                          -> "ADDR_TYPE"
          [] t = "ID_TOK"                                            -> "ID_TYPE"
          [] t = "STRING_TOK"                                        -> "STRING_TYPE"]

\* The definition whose keyword is at n, in Assembler a.  A name is looked for
\* as it is written, and entered with the prefix of its module.  A macro that
\* names another one gets that token's value, which it does not have, nor has a
\* string.
DefineMacro(a, n) ==
    IF Missing(n + 1) THEN Ends("exception")
    ELSE LET name == a.toks[n + 1] IN
         IF name.type # "ID_TOK" \/ id_inuse(a.symtab, name.v) THEN Ends("exit")
         ELSE IF Missing(n + 2) THEN Ends("exception")
         ELSE LET value == a.toks[n + 2] IN
              IF value.type \notin DOMAIN NumberTypes THEN Ends("exit")
              ELSE Becomes([a EXCEPT
                       !.toknum = n + 3,
                       !.symtab = create_new_symbol(@,
                           Symbol("MACRO_SYMBOL", SymbolId(name.v), NumberTypes[value.type],
                                  IF value.type \in {"ID_TOK", "STRING_TOK"} THEN Unknown ELSE value.v))])

MacroDefTok == InFirstPass({"MACRO_DEF_TOK"}) /\ DefineMacro(asm, asm.toknum)

\* An opcode without a case in the switch is counted and falls through to the
\* macro definitions, one token too far.
UnlistedOpcodeTok ==
    /\ InFirstPass({"OPCODE_TOK"})
    /\ tok.v \notin DOMAIN OperandCount
    /\ DefineMacro([asm EXCEPT !.instr_count = @ + 1,
                               !.prog_size = @ + OPCODE_SIZE,
                               !.next_byte_addr = @ + OPCODE_SIZE],
                   asm.toknum + 1)

LabelDefTok ==
    /\ InFirstPass({"LABEL_DEF_TOK"})
    /\ IF id_inuse(asm.symtab, tok.v) THEN Ends("exit")
       ELSE Becomes([asm EXCEPT
                !.toknum = @ + 1,
                !.symtab = create_new_symbol(@,
                    Symbol("LABEL_SYMBOL", SymbolId(tok.v), "UINT_TYPE", asm.next_byte_addr))])

SkippedTok ==
    /\ InFirstPass({"COMMENT_TOK", "BRKPNT_TOK"})
    /\ Becomes([asm EXCEPT !.toknum = @ + 1])

ValueTok == InFirstPass((Values \ {"UHEX_TOK"}) \cup {"STRING_TOK"}) /\ Ends("exit")

\* The types that the loop has a case for.
FirstPassTypes == Starts \cup (Values \ {"UHEX_TOK"})
                      \cup {"STRING_TOK", "COMMENT_TOK", "BRKPNT_TOK", "IMPORT_DEF_TOK"}

\* With any other toknum stays where it is.
StrayTok ==
    /\ at = "first_stage_pass" /\ asm.toknum <= Len(asm.toks)
    /\ tok.type \notin FirstPassTypes
    /\ Ends("spinning")

\* The list of the importer itself is asked, by path.
module_is_imported(path) == \E i \in DOMAIN asm.imports : asm.imports[i].path = path

\* A new Assembler for the file; its symbols are not kept, and the sizes it is
\* given are not used.
ImportDefTok ==
    /\ InFirstPass({"IMPORT_DEF_TOK"})
    /\ IF Missing(asm.toknum + 1) THEN Ends("exception")
       ELSE LET path == asm.toks[asm.toknum + 1] IN
            IF path.type # "PATH_TOK" THEN Ends("exit")
            ELSE IF module_is_imported(path.v) THEN Becomes([asm EXCEPT !.toknum = @ + 2])
            ELSE IF path.v \notin Readable THEN Ends("caught")
            ELSE IF Len(asms) = MaxNesting THEN Ends("crashed")
            ELSE /\ asms' = Append(Front(asms),
                        [asm EXCEPT !.toknum = @ + 2,
                                    !.imports = Append(@, [path |-> path.v, insertion_index |-> 0,
                                                           symtab |-> NewSymbolTable(FALSE)])])
                            \o <<NewAssembler(path.v, FALSE)>>
                 /\ UNCHANGED <<at, output, done_modules>>

FirstPassOver == at = "first_stage_pass" /\ asm.toknum > Len(asm.toks)

\* merge_import_symbols and merge_import_list, on the symbols.
WithImports(a) ==
    LET merged[k \in 0 .. Len(a.imports)] ==
            IF k = 0 THEN a.symtab ELSE import_symtab(merged[k - 1], a.imports[k].symtab)
    IN  merged[Len(a.imports)]

\* Variant: the symbols of a module's own imports not merged into it.
ImportReturnsOwn ==
    /\ FirstPassOver /\ Len(asms) > 1
    /\ LET importer == asms[Len(asms) - 1]
           k == Len(importer.imports)
       IN  asms' = Append(Front(Front(asms)),
               [importer EXCEPT !.prog_size = asm.prog_size,
                                !.next_byte_addr = asm.next_byte_addr,
                                !.imports[k].insertion_index = importer.instr_count,
                                !.imports[k].symtab = asm.symtab,
                                !.instr_count = @ + asm.instr_count])
    /\ done_modules' = done_modules \cup {asm.path}
    /\ UNCHANGED <<at, output>>

\* The imported module is done, and its importer goes on, with its sizes.
ImportReturns ==
    /\ FirstPassOver /\ Len(asms) > 1
    /\ LET importer == asms[Len(asms) - 1]
           k == Len(importer.imports)
       IN  asms' = Append(Front(Front(asms)),
               [importer EXCEPT !.prog_size = asm.prog_size,
                                !.next_byte_addr = asm.next_byte_addr,
                                !.imports[k].insertion_index = importer.instr_count,
                                !.imports[k].symtab = WithImports(asm),
                                !.instr_count = @ + asm.instr_count])
    /\ done_modules' = done_modules \cup {asm.path}
    /\ UNCHANGED <<at, output>>

FirstPass == \/ OpcodeTok \/ UnlistedOpcodeTok \/ MacroDefTok \/ LabelDefTok \/ SkippedTok
             \/ ValueTok \/ StrayTok \/ ImportDefTok \/ ImportReturns

-----------------------------------------------------------------------------
(* assemble_main_module after its first pass.                              *)

HasStrings(st) == \E i \in DOMAIN st.vec : st.vec[i].val_type = "STRING_TYPE"

\* If symbols are kept, the strings of macros are measured, through pointers that
\* lead anywhere; then, without a main label, a SystematicError is thrown, which
\* Assembler_main does not catch.
MergeImportSymbols ==
    /\ FirstPassOver /\ Len(asms) = 1
    /\ LET merged == WithImports(main)
       IN  \/ merged.keep_symbols /\ HasStrings(merged) /\ Ends("crashed")
           \/ IF merged.keep_symbols /\ ~HasMain(merged, FileId(main.path))
              THEN Ends("exception")
              ELSE /\ asms' = <<[main EXCEPT !.symtab =
                                     main_module_serial_size(merged, FileId(main.path))]>>
                   /\ at' = "alloc_bytestream"
                   /\ UNCHANGED <<output, done_modules>>

\* The imported modules' metadata, whose sizes are added, is never filled.
AllocBytestream ==
    /\ at = "alloc_bytestream"
    /\ bytestream_size' = METADATA_SIZE + serial_size(main.symtab).bytestream_size + main.prog_size
    /\ at' = "build_imform_metadata"
    /\ UNCHANGED <<asms, metadata, instr_vec, bytes, done_modules>>

\* Parser::parse_file's last_opcode; the search leaves the first token out, and
\* opcode 0 is die.
LastOpcode ==
    LET opcodes == {n \in 2 .. Len(main.toks) : main.toks[n].type = "OPCODE_TOK"}
    IN  IF opcodes = {} THEN 0 ELSE main.toks[Max(opcodes)].v

\* Variant: the program placed right behind the symbols.
MetadataUnaligned ==
    /\ at = "build_imform_metadata"
    /\ LET first == METADATA_SIZE + main.symtab.bytestream_size
       IN  metadata' = [NoMetadata EXCEPT
               !.mem_size = bytestream_size, !.prog_size = main.prog_size,
               !.first_instr_addr = first, !.first_user_byte_addr = first + main.prog_size,
               !.flags = main.symtab.keep_symbols]
    /\ at' = "finalise"
    /\ UNCHANGED <<asms, bytestream_size, instr_vec, bytes, done_modules>>

BuildMetadata ==
    /\ at = "build_imform_metadata"
    /\ LET first == METADATA_SIZE + main.symtab.bytestream_size
           user == first + main.prog_size
       IN  metadata' = [mem_size |-> bytestream_size, prog_size |-> main.prog_size,
                        instr_count |-> main.instr_count,
                        start_instr_addr |-> main.symtab.start_addr,
                        first_instr_addr |-> Aligned(first),
                        last_instr_addr |-> Aligned(user - opsize_tbl[LastOpcode]),
                        first_user_byte_addr |-> Aligned(user),
                        flags |-> main.symtab.keep_symbols, symtab_size |-> 0]
    /\ at' = "finalise"
    /\ UNCHANGED <<asms, bytestream_size, instr_vec, bytes, done_modules>>

Finalise ==
    /\ at = "finalise"
    /\ asms' = <<[main EXCEPT !.symtab = finalise(@, metadata), !.toknum = 1]>>
    /\ at' = "build_im_form"
    /\ UNCHANGED <<output, done_modules>>

Building(types) ==
    /\ at = "build_im_form"
    /\ main.toknum <= Len(main.toks)
    /\ tok.type \in types

TakeOperand(s, r) ==
    IF r.stop = "end" THEN [s EXCEPT !.n = r.n, !.vals = Append(@, r.vals[1].val)]
    ELSE [s EXCEPT !.stop = r.stop]

\* Between three operands toknum is set back by one, between two it is not.
ResolveNext(s, count) ==
    TakeOperand(s, resolve_uint_operand(main.toks,
                       IF s.vals # <<>> /\ count = 3 THEN s.n - 1 ELSE s.n,
                       main.symtab, FileId(main.path)))

ResolveOperands(n, count) ==
    After(LAMBDA s, k : ResolveNext(s, count), [n |-> n, stop |-> "no", vals |-> <<>>],
          [k \in 1 .. count |-> k])

BuildInstr ==
    /\ Building({"OPCODE_TOK"})
    /\ tok.v \in DOMAIN OperandCount
    /\ \E s \in {ResolveOperands(main.toknum, OperandCount[tok.v])} :
          IF s.stop # "no" THEN Ends(s.stop)
          ELSE /\ instr_vec' = Append(instr_vec, [opcode |-> tok.v, vals |-> s.vals])
               /\ asms' = <<[main EXCEPT !.toknum = IF OperandCount[tok.v] = 0 THEN s.n + 1 ELSE s.n]>>
               /\ UNCHANGED <<at, bytestream_size, metadata, bytes, done_modules>>

\* toknum stays at such an opcode, and a block is made for it in every round.
BuildUnlistedInstr ==
    /\ Building({"OPCODE_TOK"})
    /\ tok.v \notin DOMAIN OperandCount
    /\ IF Len(instr_vec) >= MaxInstrs THEN Ends("caught")
       ELSE /\ instr_vec' = Append(instr_vec, [opcode |-> tok.v, vals |-> <<>>])
            /\ UNCHANGED <<asms, at, bytestream_size, metadata, bytes, done_modules>>

SkipOther ==
    /\ at = "build_im_form"
    /\ main.toknum <= Len(main.toks) /\ tok.type # "OPCODE_TOK"
    /\ asms' = <<[main EXCEPT !.toknum = @ + (IF tok.type = "IMPORT_DEF_TOK" THEN 2 ELSE 1)]>>
    /\ UNCHANGED <<at, output, done_modules>>

ImFormBuilt ==
    /\ at = "build_im_form" /\ main.toknum > Len(main.toks)
    /\ metadata' = [metadata EXCEPT !.instr_count = Len(instr_vec)]
    /\ at' = "merge_import_list"
    /\ UNCHANGED <<asms, bytestream_size, instr_vec, bytes, done_modules>>

\* Instructions of imported modules would be inserted, but only the main module's
\* are ever built: there are none.
MergeImportList ==
    /\ at = "merge_import_list"
    /\ asms' = <<[main EXCEPT !.symtab = WithImports(main)]>>
    /\ at' = "write_prog_to_bytes"
    /\ UNCHANGED <<output, done_modules>>

\* Byte k of a word, the least first; an opcode is one byte.
Byte(word, k) == <<word, k>>

OperandBytes(addr) == addr + OPCODE_SIZE .. addr + OPCODE_SIZE + UINT_SIZE - 1

\* InstrBlock::serialise, over what is written already: of the opcode's word one
\* byte is, and all operands are written to the place of the first.
Serialised(block, instr, addr) ==
    LET operand == IF instr.vals = <<>> THEN {} ELSE OperandBytes(addr)
    IN  [b \in DOMAIN block \cup {addr} \cup operand |->
            IF b = addr THEN Byte(instr.opcode, 0)
            ELSE IF b \in operand THEN Byte(Last(instr.vals), b - (addr + OPCODE_SIZE))
            ELSE block[b]]

\* write_instrs_to_bytes; bf is where the next instruction is written.
Written(instrs, first) ==
    LET written[k \in 0 .. Len(instrs)] ==
            IF k = 0 THEN [bf |-> first, block |-> <<>>]
            ELSE LET w == written[k - 1]
                 IN  [bf |-> w.bf + opsize_tbl[instrs[k].opcode],
                      block |-> Serialised(w.block, instrs[k], w.bf)]
    IN  written[Len(instrs)]

\* What of a block there is room for.
WithinFile(block) == Restrict(block, {b \in DOMAIN block : b < metadata.mem_size})

\* write_prog_to_bytes and write_bytes_to_file.  The block was allocated, and is
\* written to the file, with the sizes alone: what the padding before the first
\* instruction, or another size of one, pushes past its end is written to memory
\* that is not the block's, and not to the file.  The process need not survive
\* that, nor a file that cannot be opened.  Its path was checked at the start.
WriteProgToBytes ==
    /\ at = "write_prog_to_bytes"
    /\ \/ /\ bytes' = WithinFile(Written(instr_vec, metadata.first_instr_addr).block)
          /\ at' = "done"
          /\ UNCHANGED <<asms, bytestream_size, metadata, instr_vec, done_modules>>
       \/ Ends("crashed")

AssembleMain == \/ MergeImportSymbols \/ AllocBytestream \/ BuildMetadata \/ Finalise
                \/ BuildInstr \/ BuildUnlistedInstr \/ SkipOther \/ ImFormBuilt
                \/ MergeImportList \/ WriteProgToBytes

Next == FirstPass \/ AssembleMain

Spec == Init /\ [][Next]_vars

\* Nothing holds the assembler up but itself.
FairSpec == Spec /\ WF_vars(Next)

-----------------------------------------------------------------------------
Errors == {"exit", "caught", "exception", "crashed", "spinning"}
Steps == {"first_stage_pass", "alloc_bytestream", "build_imform_metadata", "finalise",
          "build_im_form", "merge_import_list", "write_prog_to_bytes", "done"}

\* The types of the variables; toknum is that of a token or the next after the
\* last, although at() would throw for a later one and not for every reader.
TypeOK ==
    /\ at \in Steps \cup Errors
    /\ Len(asms) \in 1 .. MaxNesting
    /\ \A i \in DOMAIN asms :
          /\ asms[i].path \in Readable
          /\ asms[i].toknum \in 1 .. Len(asms[i].toks) + 1
          /\ {asms[i].prog_size, asms[i].next_byte_addr, asms[i].instr_count} \subseteq Nat
          /\ asms[i].prog_size % UINT_SIZE = 0
    /\ bytestream_size \in Nat
    /\ done_modules \subseteq Readable

-----------------------------------------------------------------------------
(* What a program means is said of its tokens, without the assembler.      *)

OpcodesIn(toks) == {n \in DOMAIN toks : toks[n].type = "OPCODE_TOK"}

OfOneFile(toks) == \A n \in DOMAIN toks : toks[n].type # "IMPORT_DEF_TOK"

\* The name of a definition, from outside of its file.
NameFrom(path, id) == IF Len(id) = 1 THEN <<FileId(path), id[1]>> ELSE id

\* A label, or the name behind the keyword of a macro's definition.
Defining(toks, n) ==
    \/ toks[n].type = "LABEL_DEF_TOK"
    \/ n > 1 /\ toks[n - 1].type = "MACRO_DEF_TOK"

\* Where the file defines what is called id from outside.
Definitions(path, id) ==
    LET toks == Source(path)
    IN  {n \in DOMAIN toks : Defining(toks, n) /\ NameFrom(path, toks[n].v) = id}

\* Programs of one file, in which every name is defined once, and macros as
\* numbers; instructions have at most one operand, a number or a name right behind
\* the opcode, and the size the table has for them.
Plain(path) ==
    LET toks == Source(path)
    IN  \A n \in DOMAIN toks :
            /\ toks[n].type \in Starts \cup {"UINT_TOK", "ID_TOK", "COMMENT_TOK"}
            /\ Defining(toks, n) => Definitions(path, NameFrom(path, toks[n].v)) = {n}
            /\ toks[n].type = "MACRO_DEF_TOK" => toks[n + 2].type = "UINT_TOK"
            /\ n \in OpcodesIn(toks) =>
                   /\ toks[n].v \in Agreed /\ OperandCount[toks[n].v] <= 1
                   /\ OperandCount[toks[n].v] = 1 => toks[n + 1].type \in {"UINT_TOK", "ID_TOK"}

\* The sizes of the opcodes before token n.
SizeBefore(toks, n) ==
    LET size[k \in 0 .. Len(toks)] ==
            IF k = 0 THEN 0
            ELSE IF k \in OpcodesIn(toks) THEN size[k - 1] + opsize_tbl[toks[k].v]
            ELSE size[k - 1]
    IN  size[n - 1]

AddressOf(toks, n) == metadata.first_instr_addr + SizeBefore(toks, n)

\* The word an operand of the file stands for.
Meaning(path, operand) ==
    IF operand.type = "UINT_TOK" THEN operand.v
    ELSE LET toks == Source(path)
             n == CHOOSE d \in Definitions(path, NameFrom(path, operand.v)) : TRUE
         IN  IF toks[n].type = "LABEL_DEF_TOK" THEN AddressOf(toks, n) ELSE toks[n + 1].v

Holds(addr, byte) == addr \in DOMAIN bytes /\ bytes[addr] = byte

\* typerecord_input_file (ram.cpp:76) takes the word behind the symbols, rounded
\* up, for the first opcode, and loadin_program the address in the metadata.
SymbolsEnd == METADATA_SIZE + (IF metadata.flags THEN main.symtab.bytestream_size ELSE 0)
LoaderStart == Aligned(SymbolsEnd)

\* The bytes past the end of the file for which the padding of the symbols took
\* the room (asm.cpp:2411 does not count it).
LostToPadding(addr) ==
    addr \in metadata.mem_size .. metadata.mem_size + (LoaderStart - SymbolsEnd) - 1

\* The file says what the source text says: each opcode stands at the address
\* that the sizes of those before it make up, and behind it its number, the
\* macro's number or the address of what follows the label's definition (the
\* label may come later in the text).  Labels are numbered in the first pass,
\* their offset is added in symtab.cpp, instructions are written by another
\* table (asm.cpp:734), and all have to meet.  No opcode is missing, and of the
\* operands no byte but the program's last, as many as the padding has.
FileIsAsWritten ==
    at = "done" /\ Plain(main.path) =>
        LET toks == main.toks
        IN  \A n \in OpcodesIn(toks) :
                /\ Holds(AddressOf(toks, n), Byte(toks[n].v, 0))
                /\ OperandCount[toks[n].v] = 1 =>
                       \A k \in 0 .. UINT_SIZE - 1 :
                           LET addr == AddressOf(toks, n) + OPCODE_SIZE + k
                           IN  \/ Holds(addr, Byte(Meaning(main.path, toks[n + 1]), k))
                               \/ LostToPadding(addr)

\* The first instruction is written where both readers of the loader look.  A
\* module that imports counts its import's size for its own (asm.cpp:1503), and
\* with none there is no room for an instruction.
LoaderFindsProgram ==
    at = "done" /\ instr_vec # <<>> =>
        /\ metadata.first_instr_addr = LoaderStart
        /\ main.prog_size > 0 => Holds(LoaderStart, Byte(instr_vec[1].opcode, 0))

\* The room that instructions need.
RoomOf(instrs) ==
    LET room[k \in 0 .. Len(instrs)] ==
            IF k = 0 THEN 0 ELSE room[k - 1] + (OPCODE_SIZE + UINT_SIZE * Len(instrs[k].vals))
    IN  room[Len(instrs)]

\* The two passes read operands by different rules (asm.cpp:1089 and 1617), and
\* yet find the same instructions in a program of one file: those the first pass
\* reserved room and numbered labels for are those the second builds.
PassesAgree ==
    at \in {"merge_import_list", "write_prog_to_bytes", "done"} /\ OfOneFile(main.toks) =>
        /\ Len(instr_vec) = main.instr_count
        /\ main.prog_size = RoomOf(instr_vec)

\* The labels of a file.  The token behind an opcode without a case is taken for
\* the keyword of a macro's definition, whatever it is.
Labels(path) ==
    LET toks == Source(path)
        unlisted(n) == toks[n].type = "OPCODE_TOK" /\ toks[n].v \notin DOMAIN OperandCount
    IN  {n \in DOMAIN toks : toks[n].type = "LABEL_DEF_TOK" /\ ~(n > 1 /\ unlisted(n - 1))}

\* Whatever imports what, and however often: when the imports are merged, each
\* label of each module that was read is in the main module's table, under the
\* prefix of its own module (asm.cpp:1063, symtab.cpp:263).
ImportsVisible ==
    at \notin {"first_stage_pass"} \cup Errors =>
        \A path \in done_modules : \A n \in Labels(path) :
            id_inuse(main.symtab, NameFrom(path, Source(path)[n].v))

\* The imports are merged a second time after the addresses are final
\* (asm.cpp:2515), from tables whose addresses are not: no name comes to mean
\* something else by that.
SymbolsAreFinal == at \in {"build_im_form", "merge_import_list", "write_prog_to_bytes"}

LookupsStay ==
    [][SymbolsAreFinal =>
           \A i \in DOMAIN main.symtab.vec :
               LET id == main.symtab.vec[i].id
               IN  lookup_symbol(main'.symtab, id) = lookup_symbol(main.symtab, id)]_vars

\* Operators stand between two values of an operand, `;' behind an expression;
\* there are no brackets, every opcode has a case, and a token for which the first
\* pass has none is a macro's value.
Tidy(toks) ==
    \A n \in DOMAIN toks :
        LET before(k, types) == n > k /\ toks[n - k].type \in types
        IN  CASE toks[n].type \in Operators ->
                     /\ before(1, Counted) /\ ~before(3, {"MACRO_DEF_TOK"})
                     /\ n < Len(toks) /\ toks[n + 1].type \in Counted
              [] toks[n].type = "EXPREND_TOK" -> before(1, Counted) /\ before(2, Operators)
              [] toks[n].type = "PATH_TOK" -> before(1, {"IMPORT_DEF_TOK"})
              [] toks[n].type = "OPCODE_TOK" -> toks[n].v \in DOMAIN OperandCount
              [] toks[n].type \in FirstPassTypes \ {"OPCODE_TOK"} -> TRUE
              [] OTHER -> before(2, {"MACRO_DEF_TOK"})

\* The loops of both passes have rounds that leave toknum where it is.  A program
\* all of whose files are tidy never gets into one for good: it is assembled, or
\* refused, or, if a file imports itself, ends when the program's stack does.
AssemblyEnds ==
    (\A path \in {main.path} \cup ImportPaths : Tidy(Source(path))) =>
        <>(at \in {"done"} \cup (Errors \ {"spinning"}))

\* "upon the serialisation completeing the pointer is pointing to the
\* first-user-byte, first byte after program." (asm.cpp:728)
InstrsFillProgram ==
    at = "done" /\ OfOneFile(main.toks) =>
        Written(instr_vec, metadata.first_instr_addr).bf = metadata.first_user_byte_addr

=============================================================================
