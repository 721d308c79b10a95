------------------------------ MODULE Tokenizer -------------------------------
(***************************************************************************)
(* The parser of an assembly file (parser.cpp): parse_file reads the file  *)
(* line by line, tokenize_line cuts each line into tokens, one character   *)
(* at a time.  An iteration of tokenize_line's loop is an action here.     *)
(*                                                                         *)
(* A character is a string of one, a text a sequence of them.  A char that *)
(* serves the code as a token type is that type's name.  SIGNED_TOK and    *)
(* UNSIGNED_TOK, of which the code speaks, are never the type of the token *)
(* being built, as a prefix is finalised at once: the cases for them and   *)
(* for the types only they lead to are left out.                           *)
(***************************************************************************)
EXTENDS Integers, SequencesExt

CONSTANTS Files,                 \* the files to parse: sequences of lines
          Opcode(_),             \* get_mnemonic_opcode, 255 for other texts
          MAX_ID_LEN,            \* 40 in parser.h
          LINEBUF_INIT_SIZE,     \* 500 in parser.h
          LINEBUF_GROWTH_FACTOR, \* 500 in parser.h
          MaxLinenum             \* where this model stops counting lines

ASSUME SizesAssumption ==
    /\ MAX_ID_LEN \in Nat \ {0} /\ MaxLinenum \in Nat
    /\ LINEBUF_INIT_SIZE \in Nat \ {0} /\ LINEBUF_GROWTH_FACTOR \in Nat \ {0}

\* A file has a line, if an empty one, and none holds its own end.
ASSUME FilesAssumption ==
    \A f \in Files :
        f \in Seq(Seq(STRING)) /\ f # <<>> /\ \A n \in DOMAIN f : f[n] # <<"\n">>

VARIABLES
    file,             \* what input_file holds
    linenum,          \* number of the line
    linebuf,          \* the line; at first whatever malloc left
    linebuf_size,
    eof_reached,
    isFirstTokOnLine,
    linevec,          \* the lines that tokens have brought along
    toks,             \* tokstream->vec
    last_opcode,
    at,               \* where the parser is, or how it has ended
    ch,               \* tokenize_line's cursor, an index of linebuf
    linepos,          \* the column it counts for it
    toktype, tokcol, tokbuf, \* the token being built
    commentWasDelim

lexing == <<ch, linepos, toktype, tokcol, tokbuf, commentWasDelim>>
reading == <<file, linenum, linebuf, linebuf_size, eof_reached>>
made == <<isFirstTokOnLine, linevec, toks, last_opcode>>
vars == <<reading, made, at, lexing>>

Digit == {"0", "1", "2", "3", "4", "5", "6", "7", "8", "9"}
HexLetter == {"a", "b", "c", "d", "e", "f", "A", "B", "C", "D", "E", "F"}
X == {"x", "X"}
Letter == HexLetter \cup X \cup
          {"g", "h", "i", "j", "k", "l", "m", "n", "o", "p", "q", "r", "s", "t", "u", "v", "w", "y", "z"}
Prefix == [c \in {"$", "@", "~", "%"} |-> IF c = "%" THEN "MODOP_TOK" ELSE c]
Operator == [c \in {"+", "-", "*", "/", "[", "]", "(", ")", ";"} |->
                CASE c = "+" -> "ADDOP_TOK"   [] c = "-" -> "SUBOP_TOK"
                  [] c = "*" -> "MULOP_TOK"   [] c = "/" -> "DIVOP_TOK"
                  [] c = "[" -> "LBRKTOP_TOK" [] c = "]" -> "RBRKTOP_TOK"
                  [] c = "(" -> "LPRN_TOK"    [] c = ")" -> "RPRN_TOK"
                  [] c = ";" -> "EXPREND_TOK"]

Number == {"UINT_TOK", "REAL_TOK", "UREAL_TOK", "HEX_TOK", "OCT_TOK"}

\* The types with no name in toktype_mnemonics, which Token's constructor reads
\* past: 102 and 126 where the table has 102 entries.
Nameless == {"PATH_TOK", "~"}

CharAt(i) == IF i <= Len(linebuf) THEN linebuf[i] ELSE "NUL"
Char == CharAt(ch)

-----------------------------------------------------------------------------
(* The value of a token.                                                   *)

Weight == [c \in Digit \cup HexLetter |->
              CHOOSE n \in 0 .. 15 :
                  c \in << {"0"}, {"1"}, {"2"}, {"3"}, {"4"}, {"5"}, {"6"}, {"7"}, {"8"}, {"9"},
                           {"a", "A"}, {"b", "B"}, {"c", "C"}, {"d", "D"}, {"e", "E"}, {"f", "F"}>>[n + 1]]

\* atoi and strtol: the number the longest fitting prefix of text stands for.
\* Numbers that do not fit the word are left out.
strtol(text, base) ==
    LET fits(n) == \A i \in 1 .. n : text[i] \in DOMAIN Weight /\ Weight[text[i]] < base
        n == CHOOSE k \in 0 .. Len(text) : fits(k) /\ (k = Len(text) \/ ~fits(k + 1))
    IN  FoldLeft(LAMBDA v, c : v * base + Weight[c], 0, SubSeq(text, 1, n))

\* What the constructor of Token makes of its text.  An ID or a REAL token has
\* a value, abstracted to its text; UREAL, string and path tokens have none.
Value(type, text) ==
    CASE type = "OPCODE_TOK" -> [val_type |-> "UBYTE_TYPE", n |-> Opcode(text)]
      [] type = "ID_TOK"     -> [val_type |-> "ID_TYPE",    n |-> 0]
      [] type = "UINT_TOK"   -> [val_type |-> "UINT_TYPE",  n |-> strtol(text, 10)]
      [] type = "REAL_TOK"   -> [val_type |-> "REAL_TYPE",  n |-> 0]
      [] type = "HEX_TOK"    -> [val_type |-> "INT_TYPE",   n |-> strtol(SubSeq(text, 3, Len(text)), 16)]
      [] type = "OCT_TOK"    -> [val_type |-> "INT_TYPE",   n |-> strtol(text, 8)]
      [] OTHER               -> [val_type |-> "VOID_TYPE",  n |-> 0]

Token(type, text, col) ==
    [type |-> type, text |-> text, line |-> linenum, col |-> col % 256, val |-> Value(type, text)]

-----------------------------------------------------------------------------
(* parse_file and readline.                                                *)

Init ==
    /\ file \in Files
    /\ linebuf \in {<<>>, <<"\n">>}
    /\ linenum = 0 /\ linebuf_size = LINEBUF_INIT_SIZE /\ eof_reached = FALSE
    /\ isFirstTokOnLine = TRUE /\ linevec = <<>> /\ toks = <<>> /\ last_opcode = 0
    /\ at = "readline"
    /\ ch = 1 /\ linepos = 1 /\ toktype = "NO_TOK" /\ tokcol = 0 /\ tokbuf = <<>>
    /\ commentWasDelim = FALSE

\* The first byte of linebuf is tested before anything is written there.  When
\* malloc left an end of line in it, every character read, and the end of the
\* file, only starts another line.
ReadNothing ==
    /\ at = "readline" /\ linebuf = <<"\n">>
    /\ linenum' = IF linenum < MaxLinenum THEN linenum + 1 ELSE linenum
    /\ UNCHANGED <<file, linebuf, linebuf_size, eof_reached, made, at, lexing>>

\* How often readline enlarges linebuf for a line of n characters.
Growths(n) ==
    IF n < linebuf_size THEN 0 ELSE 1 + (n - linebuf_size) \div LINEBUF_GROWTH_FACTOR

\* bufch goes on pointing into the old block: when realloc moves it, the rest of
\* the line is written to freed memory.
ReadLine ==
    /\ at = "readline" /\ linebuf # <<"\n">>
    /\ LET line == file[linenum + 1]
       IN  /\ linebuf' = line
           /\ linebuf_size' = linebuf_size + LINEBUF_GROWTH_FACTOR * Growths(Len(line))
           /\ at' \in {"tokenize_line"} \cup (IF Growths(Len(line)) > 0 THEN {"undefined"} ELSE {})
    /\ linenum' = linenum + 1
    /\ eof_reached' = (linenum + 1 = Len(file))
    /\ isFirstTokOnLine' = TRUE
    /\ ch' = 1 /\ linepos' = 1 /\ toktype' = "NO_TOK" /\ tokcol' = 0 /\ tokbuf' = <<>>
    /\ commentWasDelim' = FALSE
    /\ UNCHANGED <<file, linevec, toks, last_opcode>>

\* The search for the last opcode stops short of the first token.
FindLastOpcode ==
    /\ at = "parse_file"
    /\ LET opcodes == {i \in 2 .. Len(toks) : toks[i].type = "OPCODE_TOK"}
       IN  last_opcode' = IF opcodes = {} THEN 0 ELSE toks[Max(opcodes)].val.n
    /\ at' = "parsed"
    /\ UNCHANGED <<reading, isFirstTokOnLine, linevec, toks, lexing>>

-----------------------------------------------------------------------------
(* tokenize_line: what its cases share.                                    *)

On(chars) == at = "tokenize_line" /\ ~commentWasDelim /\ Char \in chars

Forward == ch' = ch + 1 /\ linepos' = linepos + 1

\* The next iteration, with the token built so far.
Continue(type, col, text) ==
    /\ toktype' = type /\ tokcol' = col /\ tokbuf' = text
    /\ UNCHANGED <<reading, made, at, commentWasDelim>>

Add(type, col) == Continue(type, col, Append(tokbuf, Char)) /\ Forward
AddToIt == Add(toktype, tokcol)
Ignore == Continue(toktype, tokcol, tokbuf) /\ Forward
NewTok(type) == Add(type, linepos)

Refuse == at' = "error" /\ UNCHANGED <<reading, made, lexing>>

AfterLine == IF eof_reached THEN "parse_file" ELSE "readline"

\* create_tok, before it is known whether the line goes on.
CreateTok(type, text, col, next) ==
    /\ toks' = Append(toks, Token(type, text, col))
    /\ linevec' = IF isFirstTokOnLine THEN Append(linevec, linebuf) ELSE linevec
    /\ at' \in {next} \cup (IF type \in Nameless THEN {"undefined"} ELSE {})
    /\ UNCHANGED <<reading, last_opcode>>

\* Variant: the flag for the first token of a line left set.
ResetKeepsFirst(col) ==
    /\ toktype' = "NO_TOK" /\ tokcol' = col /\ tokbuf' = <<>>
    /\ UNCHANGED isFirstTokOnLine

\* Variant: the new token's text not emptied.
ResetKeepsText(col) ==
    /\ toktype' = "NO_TOK" /\ tokcol' = col /\ isFirstTokOnLine' = FALSE
    /\ UNCHANGED tokbuf

reset_vars(col) ==
    /\ toktype' = "NO_TOK" /\ tokcol' = col /\ tokbuf' = <<>>
    /\ isFirstTokOnLine' = FALSE

Accepted(type, text) ==
    /\ type \in {"ID_TOK", "LABEL_DEF_TOK"} =>
           Len(text) \in 1 .. MAX_ID_LEN
    /\ type = "LABEL_DEF_TOK" => Opcode(text) = 255
    /\ type = "PATH_TOK" => Len(text) >= 2

\* A label named let or import is taken for the keyword.
FinalType(type, text) ==
    IF type \notin {"ID_TOK", "LABEL_DEF_TOK"} THEN type
    ELSE IF Opcode(text) # 255 THEN "OPCODE_TOK"
    ELSE IF text = <<"l", "e", "t">> THEN "MACRO_DEF_TOK"
    ELSE IF text = <<"i", "m", "p", "o", "r", "t">> THEN "IMPORT_DEF_TOK"
    ELSE type

\* c and pos are where the loop goes on.
FinaliseFor(type, text, col, c, pos, comment) ==
    IF Accepted(type, text)
    THEN /\ CreateTok(FinalType(type, text), text, col, "tokenize_line")
         /\ reset_vars(col)
         /\ ch' = c /\ linepos' = pos /\ commentWasDelim' = comment
    ELSE Refuse

finalise_tok(type, text, col, c, pos) == FinaliseFor(type, text, col, c, pos, FALSE)

\* The end of the token being built, found at the character after it, which is
\* passed over, or read again: parsing_loop starts by stepping forward.
Delimited == finalise_tok(toktype, tokbuf, tokcol, ch + 1, linepos + 1)
DelimitedBefore == finalise_tok(toktype, tokbuf, tokcol, ch, linepos)

\* A token of its own.  It has the column of the token before it.
Single(type, text) == finalise_tok(type, text, tokcol, ch + 1, linepos + 1)

Building == toktype # "NO_TOK"

-----------------------------------------------------------------------------
(* The cases of tokenize_line, by the character.                           *)

\* Only a 0 before x or before a digit makes a number other than decimal, and
\* only the first character of a number tells a real from an integer.
FirstDigitType ==
    IF Char # "0" THEN "UINT_TOK"
    ELSE IF CharAt(ch + 1) \in X THEN "HEX_TOK"
    ELSE IF CharAt(ch + 1) \in Digit THEN "OCT_TOK"
    ELSE "REAL_TOK"

\* Variant: the column of a new number not noted.
DigitNoColumn ==
    /\ On(Digit)
    /\ IF Building THEN AddToIt ELSE Add(FirstDigitType, tokcol)

DigitChar ==
    /\ On(Digit)
    /\ IF Building THEN AddToIt ELSE NewTok(FirstDigitType)

\* Variant: letters accepted in octal numbers.
LetterInOctal ==
    /\ On(Letter)
    /\ CASE toktype = "NO_TOK"                             -> NewTok("ID_TOK")
         [] toktype \in {"ID_TOK", "PATH_TOK", "OCT_TOK"}  -> AddToIt
         [] toktype = "HEX_TOK" /\ Char \in HexLetter \cup X -> AddToIt
         [] toktype = "BRKPNT_TOK"                         -> Ignore
         [] OTHER                                          -> Refuse

\* A breakpoint token loses its letters.
LetterChar ==
    /\ On(Letter)
    /\ CASE toktype = "NO_TOK"                   -> NewTok("ID_TOK")
         [] toktype \in {"ID_TOK", "PATH_TOK"}   -> AddToIt
         [] toktype = "HEX_TOK" /\ Char \in HexLetter \cup X -> AddToIt
         [] toktype = "BRKPNT_TOK"               -> Ignore
         [] OTHER                                -> Refuse

\* A comment right behind a token ends it and starts at the next iteration.
CommentIndicator ==
    /\ On({"#"}) /\ Building
    /\ FinaliseFor(toktype, tokbuf, tokcol, ch + 1, linepos + 1, TRUE)

\* finalise_comment_tok: the rest of the line, without the # when it ended a
\* token.
Comment ==
    /\ at = "tokenize_line" /\ (commentWasDelim \/ (Char = "#" /\ ~Building))
    /\ CreateTok("COMMENT_TOK", SubSeq(linebuf, ch, Len(linebuf)),
                 IF commentWasDelim THEN linepos - 1 ELSE linepos, AfterLine)
    /\ UNCHANGED <<lexing, isFirstTokOnLine>>

EndOfLine ==
    /\ On({"NUL"})
    /\ IF ~Building THEN at' = AfterLine /\ UNCHANGED <<reading, made>>
       ELSE IF Accepted(toktype, tokbuf)
       THEN /\ CreateTok(FinalType(toktype, tokbuf), tokbuf, tokcol, AfterLine)
            /\ UNCHANGED isFirstTokOnLine
       ELSE at' = "error" /\ UNCHANGED <<reading, made>>
    /\ UNCHANGED lexing

\* Variant: the cursor moved only after a token.
BlankStays ==
    /\ On({" ", "\t"})
    /\ IF Building THEN Delimited ELSE Continue(toktype, tokcol, tokbuf) /\ UNCHANGED <<ch, linepos>>

\* A tab counts tab_width_offset columns more.
Blank ==
    /\ On({" ", "\t"})
    /\ LET pos == linepos + 1 + (IF Char = "\t" THEN 3 ELSE 0)
       IN  IF Building THEN finalise_tok(toktype, tokbuf, tokcol, ch + 1, pos)
           ELSE Continue(toktype, tokcol, tokbuf) /\ ch' = ch + 1 /\ linepos' = pos

Underscore ==
    /\ On({"_"})
    /\ CASE toktype = "NO_TOK"   -> NewTok("ID_TOK")
         [] toktype \in Number   -> Refuse
         [] OTHER                -> AddToIt

\* An integer goes on, as an integer, after a point.
Point ==
    /\ On({"."})
    /\ CASE toktype = "NO_TOK"                   -> NewTok("UREAL_TOK")
         [] toktype \in {"OCT_TOK", "HEX_TOK"}   -> Refuse
         [] OTHER                                -> AddToIt

Colon ==
    /\ On({":"})
    /\ CASE toktype = "PATH_TOK" -> AddToIt
         [] toktype = "ID_TOK"   -> finalise_tok("LABEL_DEF_TOK", tokbuf, tokcol, ch + 1, linepos + 1)
         [] OTHER                -> Refuse

\* The prefix of a number is a token of its own, without text.
NumberPrefix ==
    /\ On(DOMAIN Prefix)
    /\ IF Building THEN Refuse ELSE Single(Prefix[Char], <<>>)

\* Without a closing quote the search leaves linebuf, and what it finds there is
\* written past tokbuf.  With one, linepos counts one character less.
StringDelim ==
    /\ On({"\""})
    /\ LET ends == {i \in ch + 1 .. Len(linebuf) : linebuf[i] = "\""}
       IN  IF Building THEN Refuse
           ELSE IF ends = {} THEN at' = "undefined" /\ UNCHANGED <<reading, made, lexing>>
           ELSE finalise_tok("STRING_TOK", SubSeq(linebuf, ch + 1, Min(ends) - 1), linepos,
                             Min(ends) + 1, linepos + Min(ends) - ch)

BreakpointIndicator ==
    /\ On({"^"})
    /\ IF Building THEN Refuse ELSE NewTok("BRKPNT_TOK")

\* A path takes up whatever token was being built.
PathStart == On({"<"}) /\ Continue("PATH_TOK", tokcol, tokbuf) /\ Forward

PathEnd ==
    /\ On({">"})
    /\ IF toktype = "PATH_TOK" THEN Delimited ELSE Refuse

BackSlash ==
    /\ On({"\\"})
    /\ IF toktype = "PATH_TOK" THEN AddToIt ELSE Refuse

\* Variant: the operator that ends a token passed over.
OperatorLost ==
    /\ On(DOMAIN Operator)
    /\ IF Char = "/" /\ toktype = "PATH_TOK" THEN AddToIt
       ELSE IF Building THEN Delimited
       ELSE Single(Operator[Char], <<Char>>)

OperatorChar ==
    /\ On(DOMAIN Operator)
    /\ IF Char = "/" /\ toktype = "PATH_TOK" THEN AddToIt
       ELSE IF Building THEN DelimitedBefore
       ELSE Single(Operator[Char], <<Char>>)

\* Any other character is passed over, in a token too.
Other ==
    /\ On({","})
    /\ Ignore

Next ==
    \/ ReadNothing \/ ReadLine \/ FindLastOpcode
    \/ DigitChar \/ LetterChar \/ CommentIndicator \/ Comment \/ EndOfLine \/ Blank
    \/ Underscore \/ Point \/ Colon \/ NumberPrefix \/ StringDelim \/ BreakpointIndicator
    \/ PathStart \/ PathEnd \/ BackSlash \/ OperatorChar \/ Other

Spec == Init /\ [][Next]_vars

\* One thread parses, and nothing keeps it from going on.
FairSpec == Spec /\ WF_vars(Next)

-----------------------------------------------------------------------------
(* Properties.                                                             *)

TypeOK ==
    /\ linenum \in 0 .. Max({MaxLinenum, Len(file)})
    /\ linebuf_size >= LINEBUF_INIT_SIZE /\ {eof_reached, isFirstTokOnLine} \subseteq BOOLEAN
    /\ at \in {"readline", "tokenize_line", "parse_file", "parsed", "error", "undefined"}
    /\ ch \in 1 .. Len(linebuf) + 1
    /\ toktype \in {"NO_TOK", "ID_TOK", "PATH_TOK", "BRKPNT_TOK"} \cup Number
    /\ tokcol \in 0 .. linepos
    /\ toktype = "NO_TOK" => tokbuf = <<>>

(* What the lines that hold only words and operators mean, told without    *)
(* reference to the order in which they are read.                          *)
WordChar == Letter \cup Digit \cup {"_", "."}
Plain == WordChar \cup DOMAIN Operator \cup {" ", ":"}

\* The intervals of the words.
Words(line) ==
    LET word(i) == line[i] \in WordChar
    IN  {w \in (DOMAIN line) \X (DOMAIN line) :
            /\ w[1] <= w[2] /\ \A i \in w[1] .. w[2] : word(i)
            /\ w[1] > 1 => ~word(w[1] - 1)
            /\ w[2] < Len(line) => ~word(w[2] + 1)}

Text(line, w) == SubSeq(line, w[1], w[2])
IsLabel(line, w) == w[2] < Len(line) /\ line[w[2] + 1] = ":"

Kind(text) ==
    CASE text[1] \in Letter \cup {"_"}                            -> "ID_TOK"
      [] text[1] = "."                                            -> "UREAL_TOK"
      [] text[1] \in Digit \ {"0"}                                -> "UINT_TOK"
      [] text[1] = "0" /\ Len(text) > 1 /\ text[2] \in X          -> "HEX_TOK"
      [] text[1] = "0" /\ Len(text) > 1 /\ text[2] \in Digit      -> "OCT_TOK"
      [] OTHER                                                    -> "REAL_TOK"

MayHold ==
    [kind \in Number \cup {"ID_TOK"} |->
        Digit \cup CASE kind = "ID_TOK" -> WordChar
                     [] kind = "HEX_TOK" -> HexLetter \cup X
                     [] kind = "OCT_TOK" -> {}
                     [] OTHER -> {"."}]

ProperWord(line, w) ==
    LET text == Text(line, w)
    IN  /\ ToSet(text) \subseteq MayHold[Kind(text)]
        /\ Kind(text) = "ID_TOK" => Len(text) <= MAX_ID_LEN
        /\ IsLabel(line, w) => Kind(text) = "ID_TOK" /\ Opcode(text) = 255

ProperLine(line) ==
    /\ \A w \in Words(line) : ProperWord(line, w)
    /\ \A i \in DOMAIN line : line[i] = ":" => i > 1 /\ line[i - 1] \in WordChar

WordType(line, w) ==
    LET text == Text(line, w)
    IN  FinalType(IF IsLabel(line, w) THEN "LABEL_DEF_TOK" ELSE Kind(text), text)

\* The tokens of a line, by where they start.
Meaning(line) ==
    LET operators == {i \in DOMAIN line : line[i] \in DOMAIN Operator}
        pieces == {[from |-> w[1], type |-> WordType(line, w), text |-> Text(line, w)] : w \in Words(line)}
                      \cup {[from |-> i, type |-> Operator[line[i]], text |-> <<line[i]>>] : i \in operators}
        inOrder == SetToSortSeq(pieces, LAMBDA p, q : p.from < q.from)
    IN  [i \in DOMAIN inOrder |-> [type |-> inOrder[i].type, text |-> inOrder[i].text]]

IsPlain == ToSet(linebuf) \subseteq Plain
LineRead == at \in {"readline", "parse_file", "parsed"} /\ linenum > 0
OfLine == SelectSeq(toks, LAMBDA tok : tok.line = linenum)

\* A line of words and operators has become the tokens its words and operators
\* are, in their order, with none lost, joined or cut, however they stand
\* together (tokenize_line steps back over the character that ends a token).
TokenizesWords ==
    LineRead /\ IsPlain => [i \in DOMAIN OfLine |-> [type |-> OfLine[i].type, text |-> OfLine[i].text]]
                               = Meaning(linebuf)

\* Of those lines, the parser refuses all that hold an improper word or colon,
\* and no other (the errors tokenize_line throws on the way).
RefusesExactly == IsPlain /\ (LineRead \/ at = "error") => (at = "error" <=> ~ProperLine(linebuf))

\* The column of a word or a number, which error messages point at, is where
\* its text stands, on a line without tabs, strings and paths before it.  Columns
\* are eight bits wide (parser.h:331): on a longer line they start again.
Disturbing == {"\t", "\"", "<", ","}
Clean == Len(linebuf) < 256 /\ ToSet(linebuf) \cap Disturbing = {}

WordTypes == Number \cup {"ID_TOK", "OPCODE_TOK", "LABEL_DEF_TOK"}

Stands(tok) ==
    /\ tok.col \in DOMAIN linebuf
    /\ SubSeq(linebuf, tok.col, tok.col + Len(tok.text) - 1) = tok.text

ColumnsPoint ==
    LineRead /\ Clean =>
        \A i \in DOMAIN toks :
            toks[i].line = linenum /\ toks[i].type \in WordTypes => Stands(toks[i])

\* linevec gets each line that has tokens once, in order, whatever its first token
\* is: a token's line stands in it by its number, as throw_error_here would look it
\* up, unless a line before it has none.  (At this commit nothing calls that.)
ErrorsQuoteTheirLine ==
    LET lines == {toks[i].line : i \in DOMAIN toks}
    IN  \A n \in lines : 1 .. n \subseteq lines => linevec[n] = file[n]

\* Parsing ends: every line is cut up, unless malloc left an end of line in
\* linebuf.
ParseEnds == (linebuf # <<"\n">>) ~> (at \in {"parsed", "error", "undefined"})

=============================================================================
