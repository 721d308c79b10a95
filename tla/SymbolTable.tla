---------------------------- MODULE SymbolTable -------------------------------
(***************************************************************************)
(* The symbol table of an assembled module (symtab.cpp), as operators on a *)
(* record of the fields of class SymbolTable.                              *)
(*                                                                         *)
(* An identifier is a sequence of names: <<"x">> for x, <<"f", "x">> for   *)
(* f.x.  Where the code copies a value it never set, the value is Unknown. *)
(* The texts of a symbol count by their length only.  A macro's string     *)
(* lies behind a pointer that nothing ever sets: its length is whatever    *)
(* strlen finds there, if it comes back at all.                            *)
(***************************************************************************)
EXTENDS Naturals, SequencesExt

CONSTANTS IdLength(_),   \* strlen of an identifier
          StrayLength,   \* strlen of a macro's string
          Unknown        \* a value never set

METADATA_SIZE == 36
SizeofSymbol == 32
SizeofSizeT == 8

Aligned(n) == ((n + 3) \div 4) * 4

Symbol(type, id, val_type, val) ==
    [type |-> type, id |-> id, val_type |-> val_type, val |-> val]

\* create_builtin_symbols.
Builtins == <<"bi_mem_size", "bi_prog_size", "bi_instr_count", "bi_first_instr_addr",
              "bi_last_instr_addr", "bi_first_user_addr", "bi_symtab_size">>

NewSymbolTable(keep) ==
    [vec |-> [i \in DOMAIN Builtins |-> Symbol("ATOM_SYMBOL", <<Builtins[i]>>, "VOID_TYPE", 0)],
     keep_symbols |-> keep, bytestream_size |-> 0, start_addr |-> 0]

id_inuse(st, id) == \E i \in DOMAIN st.vec : st.vec[i].id = id

\* The first symbol of that name; asked only where there is one.
lookup_symbol(st, id) ==
    st.vec[CHOOSE i \in DOMAIN st.vec :
               /\ st.vec[i].id = id
               /\ \A j \in 1 .. i - 1 : st.vec[j].id # id]

\* There is no check for another symbol of the name.
create_new_symbol(st, sym) == [st EXCEPT !.vec = Append(@, sym)]

\* The clone of a symbol of another module, which has its module's prefix
\* already.  Macros of other types than these keep the 0 of a new symbol.
Clone(sym) ==
    IF sym.type = "LABEL_SYMBOL"
    THEN Symbol(sym.type, sym.id, "UINT_TYPE", sym.val)
    ELSE Symbol(sym.type, sym.id, sym.val_type,
                IF sym.val_type \in {"UINT_TYPE", "INT_TYPE", "UBYTE_TYPE", "REAL_TYPE"}
                THEN sym.val ELSE 0)

\* Variant: the imported symbols put before those the table has.
ImportInFront(st, src) ==
    LET taken[k \in 0 .. Len(src.vec)] ==
            IF k = 0 THEN st.vec
            ELSE IF src.vec[k].type = "ATOM_SYMBOL" THEN taken[k - 1]
            ELSE <<Clone(src.vec[k])>> \o taken[k - 1]
    IN  [st EXCEPT !.vec = taken[Len(src.vec)]]

import_symtab(st, src) ==
    LET taken[k \in 0 .. Len(src.vec)] ==
            IF k = 0 THEN st.vec
            ELSE IF src.vec[k].type = "ATOM_SYMBOL" THEN taken[k - 1]
            ELSE Append(taken[k - 1], Clone(src.vec[k]))
    IN  [st EXCEPT !.vec = taken[Len(src.vec)]]

\* Symbol::serial_size.
SymbolSize(sym) ==
    SizeofSymbol + IdLength(sym.id) + 1
        + (IF sym.val_type = "STRING_TYPE" THEN StrayLength + 1 ELSE 0)

TextSize(vec) ==
    LET size[k \in 0 .. Len(vec)] ==
            IF k = 0 THEN 0 ELSE size[k - 1] + SymbolSize(vec[k])
    IN  size[Len(vec)]

serial_size(st) ==
    IF ~st.keep_symbols THEN st
    ELSE [st EXCEPT !.bytestream_size = SizeofSizeT + TextSize(st.vec)]

HasMain(st, fileid) == id_inuse(st, <<fileid, "main">>)

\* Without a main label it throws, if symbols are kept; else it does not look.
main_module_serial_size(st, fileid) ==
    LET sized == serial_size(st)
        start == IF st.keep_symbols
                 THEN sized.bytestream_size + lookup_symbol(st, <<fileid, "main">>).val
                 ELSE 0
    IN  [sized EXCEPT !.start_addr = METADATA_SIZE + start]

resolve_builtin_symbols(st, md) ==
    LET value == [bi_mem_size |-> md.mem_size, bi_prog_size |-> md.prog_size,
                  bi_instr_count |-> md.instr_count,
                  bi_first_instr_addr |-> md.first_instr_addr,
                  bi_last_instr_addr |-> md.last_instr_addr,
                  bi_first_user_addr |-> md.first_user_byte_addr,
                  bi_symtab_size |-> md.symtab_size]
    IN  [st EXCEPT !.vec = [i \in DOMAIN @ |->
            IF @[i].type = "ATOM_SYMBOL"
            THEN Symbol("ATOM_SYMBOL", @[i].id, "UINT_TYPE", value[@[i].id[1]])
            ELSE @[i]]]

\* The loop is for symbols whose type, not val_type, is ID_TYPE.  There are none:
\* every macro that names another one stays as it is.
resolve_all_macros(st) == st

\* Variant: the offset of a file without symbols.
OffsetOfMetadata(st) == METADATA_SIZE

AddrOffset(st) ==
    METADATA_SIZE + (IF st.keep_symbols THEN Aligned(st.bytestream_size) ELSE 0)

HoldsAddress(sym) ==
    sym.type = "LABEL_SYMBOL" \/ (sym.type = "MACRO_SYMBOL" /\ sym.val_type = "ADDR_TYPE")

WithOffset(sym, offset) ==
    IF HoldsAddress(sym) THEN [sym EXCEPT !.val = @ + offset] ELSE sym

calc_addr_offsets(st) ==
    [st EXCEPT !.vec = [i \in DOMAIN @ |-> WithOffset(@[i], AddrOffset(st))]]

\* What is left of finalise, serialise, writes the table to the file.
finalise(st, md) ==
    calc_addr_offsets(resolve_all_macros(resolve_builtin_symbols(serial_size(st), md)))

=============================================================================
