-------------------------- MODULE OperandResolver ----------------------------
(***************************************************************************)
(* How the assembler reads the operands of instructions (asm.cpp).  Both   *)
(* of its passes read them: count_uint_operand, in the first pass, looks   *)
(* for the end of an operand; resolve_uint_operand, when instructions are  *)
(* built, evaluates it.  Each stops where it thinks the operand ends, and  *)
(* nothing but their agreement keeps the two passes at the same            *)
(* instruction.                                                            *)
(*                                                                         *)
(* A token is a record of its type, its line and v: the opcode, the        *)
(* identifier, the number or the path.  toks numbers tokens from 1.        *)
(***************************************************************************)
EXTENDS SymbolTable

CONSTANTS Width, Trap   \* of the words the assembler calculates with

Words == INSTANCE ALU

Starts == {"OPCODE_TOK", "MACRO_DEF_TOK", "LABEL_DEF_TOK"}
Counted == {"UINT_TOK", "ADDR_TOK", "ID_TOK"}
Values == Counted \cup {"OCT_TOK", "HEX_TOK", "UHEX_TOK", "INT_TOK", "UBYTE_TOK", "REAL_TOK"}
Operators == {"ADDOP_TOK", "SUBOP_TOK", "MULOP_TOK", "DIVOP_TOK", "MODOP_TOK"}

\* Where steps lead, one for each element, until one has halted.  The state is
\* carried as a set of one, which TLC evaluates once.
After(Step(_, _), start, seq) ==
    LET states[k \in 0 .. Len(seq)] ==
            IF k = 0 THEN {start}
            ELSE {IF s.stop = "no" THEN Step(s, seq[k]) ELSE s : s \in states[k - 1]}
    IN  CHOOSE s \in states[Len(seq)] : TRUE

-----------------------------------------------------------------------------
(* count_uint_operand.  s.n is the token to look at next, s.line the line  *)
(* of the last one looked at, s.stop how the search has ended.             *)

Pass(s) == [s EXCEPT !.n = @ + 1]
Halt(s, tok, how) == [s EXCEPT !.stop = how, !.line = tok.line]

CountStart(s, tok) == Halt(s, tok, IF tok.line = s.line \/ ~s.value_hit THEN "exit" ELSE "end")

\* Inside an expression values pass without being noted.
CountValue(s, tok) ==
    IF s.inside_expr THEN Pass(s)
    ELSE IF s.value_hit THEN Halt(s, tok, "end")
    ELSE [Pass(s) EXCEPT !.value_hit = TRUE]

\* Variant: the end of the expression left to be read again.
CountExprEndHere(s, tok) ==
    Halt(s, tok, IF s.inside_expr /\ s.value_hit /\ ~s.inside_parens /\ ~s.inside_brackets
                 THEN "end" ELSE "exit")

CountExprEnd(s, tok) ==
    IF s.inside_expr /\ s.value_hit /\ ~s.inside_parens /\ ~s.inside_brackets
    THEN Halt(Pass(s), tok, "end") ELSE Halt(s, tok, "exit")

\* A right parenthesis is refused when there is a left one.
CountParen(s, tok) ==
    IF s.inside_expr /\ s.value_hit /\ ~s.inside_parens THEN Pass(s) ELSE Halt(s, tok, "exit")

CountBracket(s, tok) ==
    IF s.inside_expr /\ s.value_hit /\ s.inside_brackets
    THEN [Pass(s) EXCEPT !.inside_brackets = FALSE] ELSE Halt(s, tok, "exit")

\* Tokens of other types pass as well: comments, strings, hexadecimal numbers,
\* and an import statement.
CountToken(s, tok) ==
    CASE tok.type \in Starts        -> CountStart(s, tok)
      [] tok.type \in Counted       -> CountValue(s, tok)
      [] tok.type = "EXPREND_TOK"   -> CountExprEnd(s, tok)
      [] tok.type \in Operators     -> [Pass(s) EXCEPT !.inside_expr = TRUE]
      [] tok.type = "RPRN_TOK"      -> CountParen(s, tok)
      [] tok.type = "RBRKTOP_TOK"   -> CountBracket(s, tok)
      [] tok.type = "LPRN_TOK"      -> [Pass(s) EXCEPT !.inside_expr = TRUE, !.inside_parens = TRUE]
      [] tok.type = "LBRKTOP_TOK"   -> [Pass(s) EXCEPT !.inside_expr = TRUE, !.inside_brackets = TRUE]
      [] OTHER                      -> Pass(s)

\* The operand whose first token is n; line is that of the last token looked at
\* before.  The search never sees the end of the stream: at() throws there.
count_uint_operand(toks, n, line) ==
    LET s == After(CountToken,
                   [n |-> n, line |-> line, stop |-> "no", value_hit |-> FALSE,
                    inside_expr |-> FALSE, inside_parens |-> FALSE, inside_brackets |-> FALSE],
                   SubSeq(toks, n, Len(toks)))
    IN  IF s.stop = "no" THEN [s EXCEPT !.stop = "exception"] ELSE s

\* The next operand; "no" stands for a success here.
CountNext(toks, s) ==
    LET c == count_uint_operand(toks, s.n, s.line)
    IN  [n |-> c.n, line |-> c.line, stop |-> IF c.stop = "end" THEN "no" ELSE c.stop]

\* Variant: the opcode taken for an operand.
CountOperandsLate(toks, n, count) ==
    After(LAMBDA s, k : CountNext(toks, s), [n |-> n + 2, line |-> toks[n].line, stop |-> "no"],
          [k \in 1 .. count |-> k])

\* The operands, count of them, of the opcode at n.
CountOperands(toks, n, count) ==
    After(LAMBDA s, k : CountNext(toks, s), [n |-> n + 1, line |-> toks[n].line, stop |-> "no"],
          [k \in 1 .. count |-> k])

-----------------------------------------------------------------------------
(* resolve_uint_operand.  r.n is the token read last; ops and vals are the *)
(* stacks of operators and values, their tops last.                        *)

Stopped(r, how) == [r EXCEPT !.stop = how]

\* All operators have one precedence, and parentheses a lower one.
get_tok_precedence(type) ==
    IF type \in Operators \cup {"LBRKTOP_TOK", "RBRKTOP_TOK"} THEN 20 ELSE 0

\* l and r on words, by the type of the value lower on the stack.
Unsigned(op, l, r) ==
    CASE op = "ADDOP_TOK" -> Words!Wrap(l + r)
      [] op = "SUBOP_TOK" -> Words!Wrap(l - r)
      [] op = "MULOP_TOK" -> Words!Wrap(l * r)
      [] op = "DIVOP_TOK" -> IF r = 0 THEN Trap ELSE l \div r
      [] op = "MODOP_TOK" -> IF r = 0 THEN Trap ELSE l % r

SignedResult(op, l, r) ==
    LET sl == Words!Signed(l)
        sr == Words!Signed(r)
        traps == r = 0 \/ Words!Overflows(l, r)
    IN  CASE op = "ADDOP_TOK" -> Words!Wrap(sl + sr)
          [] op = "SUBOP_TOK" -> Words!Wrap(sl - sr)
          [] op = "MULOP_TOK" -> Words!Wrap(sl * sr)
          [] op = "DIVOP_TOK" -> IF traps THEN Trap ELSE Words!Wrap(Words!Quotient(sl, sr))
          [] op = "MODOP_TOK" -> IF traps THEN Trap ELSE Words!Wrap(Words!Remainder(sl, sr))

\* A sum is of the lower value and the top; all others take the top first.
Result(op, lower, top) ==
    LET l == IF op = "ADDOP_TOK" THEN lower.val ELSE top.val
        r == IF op = "ADDOP_TOK" THEN top.val ELSE lower.val
    IN  IF Unknown \in {l, r} THEN Unknown
        ELSE IF lower.val_type \in {"UINT_TYPE", "ADDR_TYPE", "UBYTE_TYPE"} THEN Unsigned(op, l, r)
        ELSE IF lower.val_type = "INT_TYPE" THEN SignedResult(op, l, r)
        ELSE Unknown

ReplaceTwo(r, lower, res) ==
    IF res = Trap THEN Stopped(r, "crashed")
    ELSE [r EXCEPT !.ops = Front(@), !.vals = Append(Front(Front(@)), [lower EXCEPT !.val = res])]

\* An operator that is a bracket or a parenthesis is left where it is.
eval_opstack_top(r) ==
    CASE Last(r.ops) \notin Operators -> r
      [] Last(r.ops) \in Operators /\ Len(r.vals) < 2 -> Stopped(r, "exit")
      [] OTHER -> LET lower == r.vals[Len(r.vals) - 1]
                  IN  ReplaceTwo(r, lower, Result(Last(r.ops), lower, Last(r.vals)))

\* eval_opstack_until: down to the operator of that type, which is popped, or
\* to the bottom.  A bracket or parenthesis of the other type stays on top and
\* the loop never ends.
EvalNext(s, type) ==
    IF s.found \/ s.ops = <<>> THEN s
    ELSE IF Last(s.ops) = type THEN [s EXCEPT !.ops = Front(@), !.found = TRUE]
    ELSE IF Last(s.ops) \notin Operators THEN Stopped(s, "spinning")
    ELSE eval_opstack_top(s)

EvalUntil(r, type) ==
    [After(LAMBDA s, k : EvalNext(s, type), r, r.ops) EXCEPT !.found = FALSE]

\* push_value: the identifier of its own module's symbol gets that prefix.
FullId(tok, fileid) == IF Len(tok.v) = 1 THEN <<fileid, tok.v[1]>> ELSE tok.v

ValueOf(tok, st, fileid) ==
    IF tok.type = "ID_TOK"
    THEN LET sym == lookup_symbol(st, FullId(tok, fileid)) IN [val |-> sym.val, val_type |-> sym.val_type]
    ELSE [val |-> tok.v,
          val_type |-> CASE tok.type \in {"OCT_TOK", "HEX_TOK", "INT_TOK"} -> "INT_TYPE"
                         [] tok.type = "REAL_TOK" -> "REAL_TYPE"
                         [] OTHER -> "UINT_TYPE"]

push_value(r, tok, st, fileid) ==
    IF tok.type = "ID_TOK" /\ ~id_inuse(st, FullId(tok, fileid))
    THEN Stopped(r, "exit")
    ELSE [r EXCEPT !.vals = Append(@, ValueOf(tok, st, fileid)), !.last_is_value = TRUE]

push_operator(r, type) == [r EXCEPT !.ops = Append(@, type), !.last_is_value = FALSE]

\* Two values in a row end the operand if they are the first two tokens.
ResolveValue(r, tok, st, fileid) ==
    CASE r.last_is_value /\ r.parsed # 2 -> Stopped(r, "exit")
      [] r.last_is_value /\ r.parsed = 2 -> [Stopped(r, "end") EXCEPT !.n = @ - 1]
      [] OTHER -> push_value(r, tok, st, fileid)

OnceEvaluated(r, type) == IF r.stop = "no" THEN push_operator(r, type) ELSE r

ResolveOperator(r, type) ==
    OnceEvaluated(IF r.ops # <<>> /\ get_tok_precedence(Last(r.ops)) >= get_tok_precedence(type)
                  THEN eval_opstack_top(r) ELSE r, type)

\* The bracket that ends an offset ends the operand.
BracketClosed(r) == IF r.stop = "no" THEN Stopped(r, "end") ELSE r

\* inside_paren, once set, stays for the whole operand.
ResolveToken(s, tok, st, fileid) ==
    LET r == [s EXCEPT !.n = @ + 1, !.parsed = @ + 1]
    IN  CASE tok.type \in Starts -> Stopped(s, "end")
          [] tok.type = "EXPREND_TOK" ->
                 Stopped(r, IF r.inside_paren \/ r.inside_offset THEN "exit" ELSE "end")
          [] tok.type \in Operators -> ResolveOperator(r, tok.type)
          [] tok.type = "RBRKTOP_TOK" ->
                 IF r.inside_offset THEN BracketClosed(EvalUntil(r, "LBRKTOP_TOK"))
                 ELSE Stopped(r, "exit")
          [] tok.type = "RPRN_TOK" ->
                 IF r.inside_paren
                 THEN [EvalUntil(r, "LPRN_TOK") EXCEPT !.last_is_value = FALSE]
                 ELSE Stopped(r, "exit")
          [] tok.type = "LBRKTOP_TOK" -> [push_operator(r, tok.type) EXCEPT !.inside_offset = TRUE]
          [] tok.type = "LPRN_TOK" -> [push_operator(r, tok.type) EXCEPT !.inside_paren = TRUE]
          [] tok.type \in Values -> ResolveValue(r, tok, st, fileid)
          [] OTHER -> r

\* Variant: the token that ends the operand passed over.
FinishedPastNext(e) ==
    LET vals == IF e.inside_offset THEN Front(e.vals) ELSE e.vals
    IN  IF e.stop # "no" THEN e
        ELSE IF (e.inside_offset => Len(e.vals) = 2) /\ Len(vals) = 1
        THEN [Stopped(e, "end") EXCEPT !.n = @ + 2, !.vals = vals]
        ELSE Stopped(e, "exit")

\* What is left on the stacks is evaluated.  The value in brackets goes to the
\* instruction's offset, which apply_offset adds to memory beside the operand.
Finished(e) ==
    LET vals == IF e.inside_offset THEN Front(e.vals) ELSE e.vals
    IN  IF e.stop # "no" THEN e
        ELSE IF (e.inside_offset => Len(e.vals) = 2) /\ Len(vals) = 1
        THEN [Stopped(e, "end") EXCEPT !.n = @ + 1, !.vals = vals]
        ELSE Stopped(e, "exit")

\* At the end of the stream at() throws.
Resolved(r) ==
    CASE r.stop = "no" -> Stopped(r, "exception")
      [] r.stop = "end" -> Finished(EvalUntil([r EXCEPT !.stop = "no"], "no operator"))
      [] OTHER -> r

\* The operand that follows token n.
resolve_uint_operand(toks, n, st, fileid) ==
    Resolved(After(LAMBDA s, tok : ResolveToken(s, tok, st, fileid),
                   [n |-> n, stop |-> "no", ops |-> <<>>, vals |-> <<>>, parsed |-> 0,
                    last_is_value |-> FALSE, inside_paren |-> FALSE, inside_offset |-> FALSE,
                    found |-> FALSE],
                   SubSeq(toks, n + 1, Len(toks))))

=============================================================================
