----------------------------- MODULE MCAssembler ------------------------------
(* Programs of up to three statements and a last nop, and some that end with an
   operand and a definition: every sequence of statements that could come
   between each other's way, and what they import.
   Opcodes have their numbers of opcode.h. *)
EXTENDS Assembler

Tok(type, v) == [type |-> type, v |-> v]
Op(v) == Tok("OPCODE_TOK", v)
Num(v) == Tok("UINT_TOK", v)
Id(v) == Tok("ID_TOK", <<v>>)
Mark(type) == Tok(type, 0)
Label(v) == Tok("LABEL_DEF_TOK", <<v>>)
Import(path) == <<Mark("IMPORT_DEF_TOK"), Tok("PATH_TOK", path)>>

nop == Op(1)
call == Op(60)
jmp == Op(63)
jz == Op(64)
pshu == Op(72)
popu == Op(73)
mmov == Op(40)
scpy == Op(41)
setepoch == Op(19)

Lib == <<"lib">>
Deep == <<"deep">>
Loop == <<"loop">>

Statement ==
    [nop          |-> <<nop>>,
     popu         |-> <<popu>>,
     jz_a         |-> <<jz, Id("a")>>,
     call_main    |-> <<call, Id("main")>>,
     jmp_a        |-> <<jmp, Id("a")>>,
     a            |-> <<Label("a")>>,
     main         |-> <<Label("main")>>,
     let_m        |-> <<Mark("MACRO_DEF_TOK"), Id("m"), Num(5)>>,
     let_n        |-> <<Mark("MACRO_DEF_TOK"), Id("n"), Id("m")>>,
     let          |-> <<Mark("MACRO_DEF_TOK"), Num(5)>>,
     let_real     |-> <<Mark("MACRO_DEF_TOK"), Id("r"), Mark("UREAL_TOK")>>,
     let_string   |-> <<Mark("MACRO_DEF_TOK"), Id("s"), Mark("STRING_TOK")>>,
     let_sum      |-> <<Mark("MACRO_DEF_TOK"), Id("t"), Num(5), Mark("ADDOP_TOK"), Num(8)>>,
     pshu_4       |-> <<pshu, Num(4)>>,
     pshu_m       |-> <<pshu, Id("m")>>,
     pshu_lib     |-> <<pshu, Tok("ID_TOK", <<"lib", "f">>)>>,
     pshu_sum     |-> <<pshu, Num(4), Mark("ADDOP_TOK"), Num(8), Mark("EXPREND_TOK")>>,
     pshu_diff    |-> <<pshu, Id("m"), Mark("SUBOP_TOK"), Num(8)>>,
     pshu_div     |-> <<pshu, Num(0), Mark("DIVOP_TOK"), Num(8), Mark("EXPREND_TOK")>>,
     pshu_offset  |-> <<pshu, Num(4), Mark("LBRKTOP_TOK"), Num(8), Mark("RBRKTOP_TOK")>>,
     pshu_open    |-> <<pshu, Num(4), Mark("LBRKTOP_TOK"), Num(8)>>,
     pshu_paren   |-> <<pshu, Mark("LPRN_TOK"), Num(8), Mark("RPRN_TOK")>>,
     pshu         |-> <<pshu>>,
     mmov         |-> <<mmov, Num(4), Num(8), Num(12)>>,
     mmov_mixed   |-> <<mmov, Id("a"), Num(8), Mark("MULOP_TOK"), Num(2), Mark("EXPREND_TOK"), Num(3)>>,
     scpy         |-> <<scpy, Num(4), Num(8)>>,
     setepoch     |-> <<setepoch>>,
     setepoch_let |-> <<setepoch, Num(1), Id("e"), Num(3)>>,
     comment      |-> <<Mark("COMMENT_TOK")>>,
     stray        |-> <<Mark("EXPREND_TOK")>>,
     value        |-> <<Num(7)>>,
     real         |-> <<Mark("UREAL_TOK")>>,
     prefix       |-> <<Mark("ADDR_INT_PREFIX")>>,
     string       |-> <<Mark("STRING_TOK")>>,
     import_lib   |-> Import(Lib),
     import_deep  |-> Import(Deep),
     import_loop  |-> Import(Loop),
     import_none  |-> Import(<<"none">>),
     import       |-> <<Mark("IMPORT_DEF_TOK")>>]

\* Statements one after another, each on a line of its own.
OnLine(toks, k) == [n \in DOMAIN toks |-> toks[n] @@ [line |-> k]]
Lines(stmts) == FoldLeft(LAMBDA toks, k : toks \o OnLine(stmts[k], k), <<>>, [k \in DOMAIN stmts |-> k])

\* Those that longer programs are made of.
Common == {"jz_a", "call_main", "jmp_a", "a", "main", "let_m", "pshu_4", "pshu_m", "pshu_offset",
           "mmov_mixed", "import_lib", "import_deep"}

MCMainPaths ==
    {<<x, "nop">> : x \in DOMAIN Statement}
    \cup {<<x, y, "nop">> : x \in DOMAIN Statement, y \in DOMAIN Statement}
    \cup {<<x, y, z, "nop">> : x \in Common, y \in Common, z \in Common}
    \cup {<<x, y, "pshu_m", z>> : x \in {"main", "jz_a"}, y \in {"let_m", "let_string"}, z \in {"a", "let_real"}}
    \cup {<<"main", "jz_a", "a">>, <<"main", "pshu_4", "a">>}
    \cup {<<"jmp_a", "nop", "main", "a", "nop">>, <<"nop", "pshu">>, <<"nop", "import">>, <<"let">>}

MCImportPaths == {Lib, Deep, Loop}

\* The library imports another, which imports nothing; one imports itself.
MCSource(path) ==
    CASE path = Lib ->
             Lines(<<Import(Deep), <<Label("f")>>, <<nop>>, <<pshu, Id("f")>>, <<nop>>, <<Label("g")>> >>)
      [] path = Deep -> Lines(<< <<nop>>, <<Label("d")>>, <<Mark("MACRO_DEF_TOK"), Id("k"), Num(6)>> >>)
      [] path = Loop -> Lines(<<Import(Loop), <<nop>> >>)
      [] OTHER -> Lines([k \in DOMAIN path |-> Statement[path[k]]])

MCFileId(path) == IF path \in MCImportPaths THEN path[1] ELSE "p"

\* A file's name and a dot, or a builtin symbol's name, of about their length.
MCIdLength(id) == IF Len(id) = 2 THEN 6 ELSE 12

=============================================================================
