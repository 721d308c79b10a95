--------------------------- MODULE TokenizerProofs ----------------------------
(***************************************************************************)
(* Proofs about Tokenizer, for all files: which line an error message      *)
(* quotes, the types, and the column it points at.                         *)
(*                                                                         *)
(* Three invariants, each resting on those before it.  LineInv relates the *)
(* tokens to the lines kept for them.  TypeInv says that the cursor stays  *)
(* on the line and the reader within the file.  ColumnInv says that on a   *)
(* line nothing disturbs, the column counted is the cursor, and the token  *)
(* being built spells what stands between its column and the cursor.       *)
(*                                                                         *)
(* The seventeen cases of tokenize_line are sorted first by what they do:    *)
(* add a character, pass one over, finish a token, end the line or refuse  *)
(* it.  The invariants are then shown for those five kinds.                *)
(***************************************************************************)
EXTENDS Tokenizer, DataLemmas

-----------------------------------------------------------------------------
(* The line an error message quotes.                                       *)

\* The numbers of the lines that have brought along tokens.
Numbers == {toks[i].line : i \in DOMAIN toks}

\* All lines up to the n-th have.
Gapless(n) == 1 .. n \subseteq Numbers

\* Without gaps, linevec is as long as its lines are many: up to the line being
\* cut, if that has a token, or else up to the one before.
LinevecKeepsUp ==
    /\ Gapless(linenum) => Len(linevec) = linenum
    /\ linenum > 0 /\ linenum \notin Numbers /\ Gapless(linenum - 1) => Len(linevec) = linenum - 1

\* The flag tells create_tok whether the line is in linevec already.
FlagKnows ==
    at = "tokenize_line" =>
        /\ linenum > 0 /\ linebuf = file[linenum]
        /\ isFirstTokOnLine = (linenum \notin Numbers)

Quoted == \A n \in Numbers : Gapless(n) => n <= Len(linevec) /\ linevec[n] = file[n]

LineInv ==
    /\ linenum \in Nat /\ IsSequence(toks) /\ IsSequence(linevec)
    /\ isFirstTokOnLine \in BOOLEAN
    /\ Numbers \subseteq 1 .. linenum
    /\ LinevecKeepsUp
    /\ FlagKnows
    /\ Quoted

\* What a step of tokenize_line does to what the lines are remembered by: nothing,
\* or it makes a token, after which the flag is reset or the line is over.
Creates ==
    /\ \E t : toks' = Append(toks, t) /\ t.line = linenum
    /\ linevec' = IF isFirstTokOnLine THEN Append(linevec, linebuf) ELSE linevec
    /\ UNCHANGED reading
    /\ isFirstTokOnLine' = FALSE \/ (UNCHANGED isFirstTokOnLine /\ at' # "tokenize_line")

Keeps == UNCHANGED <<file, linenum, linebuf, linevec, toks, isFirstTokOnLine>>

LEMMA CreateCreates ==
  ASSUME NEW type, NEW text, NEW col, NEW next, CreateTok(type, text, col, next),
         isFirstTokOnLine' = FALSE \/ (UNCHANGED isFirstTokOnLine /\ next # "tokenize_line")
  PROVE  Creates
<1>1. Token(type, text, col).line = linenum
  BY DEF Token
<1>2. toks' = Append(toks, Token(type, text, col))
  BY DEF CreateTok
<1>3. \E t : toks' = Append(toks, t) /\ t.line = linenum
  BY <1>1, <1>2
<1> QED BY <1>3 DEF CreateTok, Creates

LEMMA FinaliseCreates ==
  ASSUME NEW type, NEW text, NEW col, NEW c, NEW pos, NEW comment,
         FinaliseFor(type, text, col, c, pos, comment)
  PROVE  Creates \/ Keeps
<1>1. CASE Accepted(type, text)
  BY <1>1, CreateCreates DEF FinaliseFor, reset_vars
<1>2. CASE ~Accepted(type, text)
  BY <1>2 DEF FinaliseFor, Refuse, Keeps, made, reading
<1> QED BY <1>1, <1>2

LEMMA CharacterSteps ==
  ASSUME Next, ~ReadNothing, ~ReadLine, ~FindLastOpcode
  PROVE  at = "tokenize_line" /\ (Creates \/ Keeps)
<1>1. ASSUME NEW type, NEW col, NEW text, Continue(type, col, text) PROVE Keeps
  BY <1>1 DEF Continue, Keeps, made, reading
<1>2. AddToIt \/ Ignore => Keeps
  BY <1>1 DEF AddToIt, Add, Ignore
<1>3. ASSUME NEW type, NewTok(type) PROVE Keeps
  BY <1>1, <1>3 DEF NewTok, Add
<1>4. Refuse => Keeps
  BY DEF Refuse, Keeps, made, reading
<1>5. Delimited \/ DelimitedBefore => Creates \/ Keeps
  BY FinaliseCreates DEF Delimited, DelimitedBefore, finalise_tok
<1>6. ASSUME NEW type, NEW text, NEW col, NEW c, NEW pos, finalise_tok(type, text, col, c, pos)
      PROVE  Creates \/ Keeps
  BY <1>6, FinaliseCreates DEF finalise_tok
<1>7. ASSUME NEW type, NEW text, Single(type, text) PROVE Creates \/ Keeps
  BY <1>6, <1>7 DEF Single
<1>8. CASE DigitChar
  BY <1>2, <1>3, <1>8 DEF DigitChar, On
<1>9. CASE LetterChar
  BY <1>2, <1>3, <1>4, <1>9 DEF LetterChar, On
<1>10. CASE CommentIndicator
  BY <1>10, FinaliseCreates DEF CommentIndicator, On
<1>11. CASE Comment
  <2>1. AfterLine # "tokenize_line"
    BY DEF AfterLine
  <2> QED BY <1>11, <2>1, CreateCreates DEF Comment
<1>12. CASE EndOfLine
  <2>1. AfterLine # "tokenize_line"
    BY DEF AfterLine
  <2>2. \/ \E type, text, col : CreateTok(type, text, col, AfterLine) /\ UNCHANGED isFirstTokOnLine
        \/ UNCHANGED <<reading, made>>
    BY <1>12 DEF EndOfLine
  <2>3. Creates \/ Keeps
    BY <2>1, <2>2, CreateCreates DEF Keeps, made, reading
  <2> QED BY <1>12, <2>3 DEF EndOfLine, On
<1>13. CASE Blank
  <2>1. Creates \/ Keeps
    BY <1>1, <1>6, <1>13 DEF Blank
  <2> QED BY <1>13, <2>1 DEF Blank, On
<1>14. CASE Underscore
  BY <1>2, <1>3, <1>4, <1>14 DEF Underscore, On
<1>15. CASE Point
  BY <1>2, <1>3, <1>4, <1>15 DEF Point, On
<1>16. CASE Colon
  BY <1>2, <1>4, <1>6, <1>16 DEF Colon, On
<1>17. CASE NumberPrefix
  BY <1>4, <1>7, <1>17 DEF NumberPrefix, On
<1>18. CASE StringDelim
  <2>1. UNCHANGED <<reading, made, lexing>> => Keeps
    BY DEF Keeps, made, reading
  <2>2. Creates \/ Keeps
    BY <1>4, <1>6, <1>18, <2>1 DEF StringDelim
  <2> QED BY <1>18, <2>2 DEF StringDelim, On
<1>19. CASE BreakpointIndicator
  BY <1>3, <1>4, <1>19 DEF BreakpointIndicator, On
<1>20. CASE PathStart
  BY <1>1, <1>20 DEF PathStart, On
<1>21. CASE PathEnd
  BY <1>4, <1>5, <1>21 DEF PathEnd, On
<1>22. CASE BackSlash
  BY <1>2, <1>4, <1>22 DEF BackSlash, On
<1>23. CASE OperatorChar
  BY <1>2, <1>5, <1>7, <1>23 DEF OperatorChar, On
<1>24. CASE Other
  BY <1>2, <1>24 DEF Other, On
<1> QED BY <1>8, <1>9, <1>10, <1>11, <1>12, <1>13, <1>14, <1>15, <1>16, <1>17, <1>18, <1>19,
           <1>20, <1>21, <1>22, <1>23, <1>24 DEF Next

LEMMA InitLineInv == Init => LineInv
<1> SUFFICES ASSUME Init PROVE LineInv
  OBVIOUS
<1>1. toks = <<>> /\ linevec = <<>> /\ linenum = 0 /\ at = "readline" /\ isFirstTokOnLine = TRUE
  BY DEF Init
<1>2. IsSequence(toks) /\ IsSequence(linevec) /\ Numbers = {} /\ Len(linevec) = 0
  BY <1>1 DEF IsSequence, Numbers
<1> QED BY <1>1, <1>2 DEF LineInv, LinevecKeepsUp, FlagKnows, Quoted

\* A token of the line being cut.
LEMMA CreatesLineInv ==
  ASSUME LineInv, at = "tokenize_line", Creates
  PROVE  LineInv'
<1>1. PICK t : toks' = Append(toks, t) /\ t.line = linenum
  BY DEF Creates
<1>2. UNCHANGED <<file, linenum, linebuf>>
  BY DEF Creates, reading
<1>3. IsSequence(toks') /\ Numbers' = Numbers \cup {linenum}
  <2>1. /\ IsSequence(toks') /\ DOMAIN toks = 1 .. Len(toks) /\ DOMAIN toks' = 1 .. Len(toks) + 1
        /\ \A i \in 1 .. Len(toks) : toks'[i] = toks[i]
        /\ toks'[Len(toks) + 1] = t
        /\ Len(toks) \in Nat
    <3>1. IsSequence(toks)
      BY DEF LineInv
    <3>2. Len(toks) \in Nat
      BY <3>1 DEF IsSequence
    <3> QED BY <1>1, <3>1, <3>2, AppendKeeps
  <2>2. ASSUME NEW n \in Numbers' PROVE n \in Numbers \cup {linenum}
    <3>1. PICK i \in 1 .. Len(toks) + 1 : n = toks'[i].line
      BY <2>1 DEF Numbers
    <3>2. CASE i = Len(toks) + 1
      BY <1>1, <2>1, <3>1, <3>2
    <3>3. CASE i # Len(toks) + 1
      <4>1. i \in DOMAIN toks /\ toks'[i] = toks[i]
        BY <2>1, <3>3
      <4> QED BY <3>1, <4>1 DEF Numbers
    <3> QED BY <3>2, <3>3
  <2>3. ASSUME NEW n \in Numbers PROVE n \in Numbers'
    <3>1. PICK i \in DOMAIN toks : n = toks[i].line
      BY DEF Numbers
    <3>2. i \in DOMAIN toks' /\ toks'[i] = toks[i]
      BY <2>1
    <3> QED BY <3>1, <3>2 DEF Numbers
  <2>4. linenum \in Numbers'
    <3>1. Len(toks) + 1 \in DOMAIN toks' /\ toks'[Len(toks) + 1].line = linenum
      BY <1>1, <2>1
    <3> QED BY <3>1 DEF Numbers
  <2> QED BY <2>1, <2>2, <2>3, <2>4
<1>4. linenum \in Nat \ {0} /\ Numbers \subseteq 1 .. linenum /\ linebuf = file[linenum]
  BY DEF LineInv, FlagKnows
<1>5. (isFirstTokOnLine' = (linenum' \notin Numbers')) \/ at' # "tokenize_line"
  BY <1>2, <1>3 DEF Creates
<1>6. isFirstTokOnLine' \in BOOLEAN
  BY DEF Creates, LineInv
<1>7. linenum' \in Nat /\ Numbers' \subseteq 1 .. linenum'
  BY <1>2, <1>3, <1>4
<1>8. FlagKnows'
  BY <1>2, <1>4, <1>5 DEF FlagKnows
<1>9. CASE isFirstTokOnLine
  <2>1. /\ IsSequence(linevec') /\ Len(linevec') = Len(linevec) + 1
        /\ linevec'[Len(linevec) + 1] = file[linenum]
        /\ \A i \in 1 .. Len(linevec) : linevec'[i] = linevec[i]
        /\ Len(linevec) \in Nat
    <3>1. IsSequence(linevec)
      BY DEF LineInv
    <3>2. linevec' = Append(linevec, linebuf)
      BY <1>9 DEF Creates
    <3>3. Len(linevec) \in Nat
      BY <3>1 DEF IsSequence
    <3> QED BY <1>4, <3>1, <3>2, <3>3, AppendKeeps
  <2>2. linenum \notin Numbers
    BY <1>9 DEF LineInv, FlagKnows
  <2>3. Gapless(linenum)' => Gapless(linenum - 1)
    <3>1. \A n \in 1 .. linenum - 1 : n \in 1 .. linenum /\ n # linenum
      BY <1>4
    <3> QED BY <1>2, <1>3, <3>1 DEF Gapless
  <2>4. Gapless(linenum)' => Len(linevec) = linenum - 1
    BY <1>4, <2>2, <2>3 DEF LineInv, LinevecKeepsUp
  <2>5. LinevecKeepsUp'
    BY <1>2, <1>3, <1>4, <2>1, <2>4 DEF LinevecKeepsUp
  <2>6. ASSUME NEW n \in Numbers', Gapless(n)'
        PROVE  n <= Len(linevec') /\ linevec'[n] = file'[n]
    <3>1. CASE n = linenum
      BY <1>2, <1>4, <2>1, <2>4, <2>6, <3>1
    <3>2. CASE n # linenum
      <4>1. n \in Numbers /\ n \in 1 .. linenum /\ n < linenum
        BY <1>3, <1>4, <3>2
      <4>2. linenum \notin 1 .. n
        BY <1>4, <4>1
      <4>3. Gapless(n)
        BY <1>3, <2>6, <4>2 DEF Gapless
      <4>4. n <= Len(linevec) /\ linevec[n] = file[n]
        BY <4>1, <4>3 DEF LineInv, Quoted
      <4>5. n \in 1 .. Len(linevec)
        BY <1>4, <2>1, <4>1, <4>4
      <4> QED BY <1>2, <2>1, <4>4, <4>5
    <3> QED BY <3>1, <3>2
  <2>7. Quoted'
    BY <2>6 DEF Quoted
  <2> QED BY <1>3, <1>6, <1>7, <1>8, <2>1, <2>5, <2>7 DEF LineInv
<1>10. CASE ~isFirstTokOnLine
  <2>1. Numbers' = Numbers /\ linevec' = linevec
    BY <1>3, <1>10 DEF Creates, LineInv, FlagKnows
  <2>2. \A n : Gapless(n)' = Gapless(n)
    BY <2>1 DEF Gapless
  <2>3. Quoted' /\ LinevecKeepsUp'
    BY <1>2, <2>1, <2>2 DEF LineInv, Quoted, LinevecKeepsUp, Gapless
  <2>4. IsSequence(linevec')
    BY <2>1 DEF LineInv
  <2> QED BY <1>3, <1>6, <1>7, <1>8, <2>3, <2>4 DEF LineInv
<1> QED BY <1>9, <1>10

LEMMA KeepsLineInv ==
  ASSUME LineInv, Keeps, at' = "tokenize_line" => at = "tokenize_line"
  PROVE  LineInv'
<1>1. Numbers' = Numbers
  BY DEF Keeps, Numbers
<1>2. (Quoted /\ LinevecKeepsUp)' = (Quoted /\ LinevecKeepsUp)
  BY <1>1 DEF Keeps, Quoted, LinevecKeepsUp, Gapless
<1> QED BY <1>1, <1>2 DEF LineInv, FlagKnows, Keeps, IsSequence

\* The next line: it has no token yet.
LEMMA NextLineInv ==
  ASSUME LineInv, linenum' = linenum + 1, UNCHANGED <<file, linevec, toks>>,
         isFirstTokOnLine' \in BOOLEAN,
         at' = "tokenize_line" => linebuf' = file[linenum'] /\ isFirstTokOnLine' = TRUE
  PROVE  LineInv'
<1>1. Numbers' = Numbers /\ Numbers \subseteq 1 .. linenum /\ linenum \in Nat
  BY DEF Numbers, LineInv
<1>2. linenum' \notin Numbers /\ Numbers \subseteq 1 .. linenum' /\ linenum' \in Nat
      /\ linenum' > 0 /\ linenum' - 1 = linenum
  BY <1>1
<1>3. ~Gapless(linenum)'
  <2>1. linenum' \in 1 .. linenum'
    BY <1>2
  <2> QED BY <1>1, <1>2, <2>1 DEF Gapless
<1>4. Gapless(linenum - 1)' = Gapless(linenum)
  BY <1>1, <1>2 DEF Gapless
<1>5. LinevecKeepsUp'
  BY <1>2, <1>3, <1>4 DEF LinevecKeepsUp, LineInv
<1>6. Quoted'
  BY <1>1 DEF Quoted, Gapless, LineInv
<1> QED BY <1>1, <1>2, <1>5, <1>6 DEF LineInv, FlagKnows, IsSequence

LEMMA StepLineInv == LineInv /\ [Next]_vars => LineInv'
<1> SUFFICES ASSUME LineInv, [Next]_vars PROVE LineInv'
  OBVIOUS
<1>1. CASE ReadNothing
  <2>1. UNCHANGED <<file, linebuf, linevec, toks, isFirstTokOnLine>> /\ at' = at /\ at # "tokenize_line"
    BY <1>1 DEF ReadNothing, made
  <2>2. CASE linenum' = linenum
    BY <2>1, <2>2, KeepsLineInv DEF Keeps
  <2>3. CASE linenum' = linenum + 1
    BY <2>1, <2>3, NextLineInv DEF LineInv
  <2> QED BY <1>1, <2>2, <2>3 DEF ReadNothing
<1>2. CASE ReadLine
  <2>1. /\ linenum' = linenum + 1 /\ UNCHANGED <<file, linevec, toks>>
        /\ isFirstTokOnLine' = TRUE /\ linebuf' = file[linenum + 1]
    BY <1>2 DEF ReadLine
  <2> QED BY <2>1, NextLineInv
<1>3. CASE FindLastOpcode
  BY <1>3, KeepsLineInv DEF FindLastOpcode, Keeps, reading
<1>4. CASE Next /\ ~ReadNothing /\ ~ReadLine /\ ~FindLastOpcode
  BY <1>4, CharacterSteps, CreatesLineInv, KeepsLineInv
<1>5. CASE UNCHANGED vars
  BY <1>5, KeepsLineInv DEF vars, Keeps, made, reading
<1> QED BY <1>1, <1>2, <1>3, <1>4, <1>5

\* For every file: the line an error message quotes is that of its token, unless
\* a line before it has no token.
THEOREM ErrorsQuoteTheirLineHolds == Spec => []ErrorsQuoteTheirLine
<1>1. LineInv => ErrorsQuoteTheirLine
  BY DEF LineInv, Quoted, Gapless, Numbers, ErrorsQuoteTheirLine
<1> QED BY <1>1, InitLineInv, StepLineInv, PTL DEF Spec

-----------------------------------------------------------------------------
(* What the steps of tokenize_line do.                                     *)

Types == {"NO_TOK", "ID_TOK", "PATH_TOK", "BRKPNT_TOK"} \cup Number

\* What the parser reads it has: at a line, the line is one of the file, and
\* eof_reached tells the last.
ReadingInv ==
    /\ file \in Files /\ IsSequence(linebuf)
    /\ linenum \in Nat /\ (linenum <= MaxLinenum \/ linenum <= Len(file))
    /\ linebuf_size \in Nat /\ linebuf_size >= LINEBUF_INIT_SIZE
    /\ eof_reached \in BOOLEAN
    /\ linebuf = <<"\n">> => at = "readline"
    /\ at = "readline" /\ linebuf # <<"\n">> => linenum < Len(file)
    /\ at = "tokenize_line" => linenum <= Len(file) /\ eof_reached = (linenum = Len(file))

\* The cursor stays on the line, and a token has a text only while it is built.
LexingInv ==
    /\ at \in {"readline", "tokenize_line", "parse_file", "parsed", "error", "undefined"}
    /\ isFirstTokOnLine \in BOOLEAN
    /\ ch \in 1 .. Len(linebuf) + 1
    /\ linepos \in Nat \ {0} /\ tokcol \in 0 .. linepos
    /\ toktype \in Types
    /\ IsSequence(tokbuf)
    /\ toktype = "NO_TOK" => tokbuf = <<>>

TypeInv == ReadingInv /\ LexingInv

\* The token being built is what stands on the line from its column on.
Spells ==
    /\ tokcol \in 1 .. ch - 1 /\ tokcol + Len(tokbuf) = ch
    /\ tokbuf = SubSeq(linebuf, tokcol, ch - 1)

ColumnInv ==
    Clean =>
        /\ at = "tokenize_line" =>
               /\ linepos = ch /\ toktype # "PATH_TOK"
               /\ toktype \in Number \cup {"ID_TOK"} => Spells
        /\ \A i \in DOMAIN toks :
               toks[i].line = linenum /\ toks[i].type \in WordTypes => Stands(toks[i])

\* The kinds of step that tokenize_line makes at a character.
Adds ==
    \E type \in Types \ {"NO_TOK"}, col \in {tokcol, linepos} :
        /\ Add(type, col) /\ ch <= Len(linebuf)
        /\ IF Building THEN type = toktype /\ col = tokcol ELSE type # "PATH_TOK" /\ col = linepos

Passes ==
    \E type \in {toktype, "PATH_TOK"}, pos \in Nat :
        /\ Continue(type, tokcol, tokbuf) /\ ch <= Len(linebuf) /\ ch' = ch + 1 /\ linepos' = pos
        /\ linepos < pos
        /\ linebuf[ch] \notin Disturbing =>
               pos = linepos + 1 /\ type = toktype /\ toktype \notin Number \cup {"ID_TOK"}

\* A token that is a word has the text and the column kept for it.
FromBuffer(type, text, col) ==
    type \in WordTypes =>
        text = tokbuf /\ col = tokcol /\ toktype \in Number \cup {"ID_TOK"}

Finishes ==
    \E type, text, col, c, pos, comment :
        /\ FinaliseFor(type, text, col, c, pos, comment) /\ Accepted(type, text)
        /\ FromBuffer(FinalType(type, text), text, col) /\ col \in {tokcol, linepos}
        /\ c \in ch .. Len(linebuf) + 1 /\ pos \in Nat /\ pos >= linepos
        /\ CharAt(ch) \notin Disturbing => pos - linepos = c - ch

EndsLine ==
    /\ UNCHANGED <<lexing, reading, isFirstTokOnLine>>
    /\ \/ at' = AfterLine /\ UNCHANGED toks
       \/ \E type, text, col : CreateTok(type, text, col, AfterLine) /\ FromBuffer(type, text, col)

Refuses == at' \in {"error", "undefined"} /\ UNCHANGED <<reading, made, lexing>>

-----------------------------------------------------------------------------
(* Every step of tokenize_line is one of these.                            *)

\* A case for other characters than the end of the line is taken on the line.
LEMMA OnIsOnLine ==
  ASSUME NEW chars, On(chars), "NUL" \notin chars
  PROVE  /\ at = "tokenize_line" /\ ch <= Len(linebuf)
         /\ Char = linebuf[ch] /\ linebuf[ch] \in chars
BY DEF On, Char, CharAt

\* How the operators that tokenize_line's cases share fit the kinds.
LEMMA AddToItAdds ==
  ASSUME LexingInv, Building, AddToIt, ch <= Len(linebuf)
  PROVE  Adds
<1>1. toktype \in Types \ {"NO_TOK"}
  BY DEF LexingInv, Building
<1> QED BY <1>1 DEF Adds, AddToIt

LEMMA NewTokAdds ==
  ASSUME ~Building, NEW type \in Types \ {"NO_TOK", "PATH_TOK"}, NewTok(type), ch <= Len(linebuf)
  PROVE  Adds
BY DEF Adds, NewTok

LEMMA IgnorePasses ==
  ASSUME LexingInv, Ignore, ch <= Len(linebuf),
         linebuf[ch] \notin Disturbing => toktype \notin Number \cup {"ID_TOK"}
  PROVE  Passes
<1>1. linepos + 1 \in Nat /\ linepos < linepos + 1
  BY DEF LexingInv, IsSequence
<1> QED BY <1>1 DEF Passes, Ignore, Forward

LEMMA RefuseRefuses == Refuse => Refuses
BY DEF Refuse, Refuses

\* finalise_tok at the character after the token, or refusing it.
LEMMA FinalisesAt ==
  ASSUME NEW type, NEW text, NEW col \in {tokcol, linepos}, NEW c, NEW pos, NEW comment,
         FinaliseFor(type, text, col, c, pos, comment),
         FromBuffer(FinalType(type, text), text, col),
         c \in ch .. Len(linebuf) + 1, pos \in Nat, pos >= linepos,
         CharAt(ch) \notin Disturbing => pos - linepos = c - ch
  PROVE  Finishes \/ Refuses
<1>1. CASE Accepted(type, text)
  BY <1>1 DEF Finishes
<1>2. CASE ~Accepted(type, text)
  BY <1>2, RefuseRefuses DEF FinaliseFor
<1> QED BY <1>1, <1>2

\* The token being built, finished, is from the buffer; any token is that is no
\* word.
LEMMA OfTheTokenBuilt ==
  ASSUME toktype \in Types
  PROVE  FromBuffer(FinalType(toktype, tokbuf), tokbuf, tokcol)
BY DEF FromBuffer, FinalType, WordTypes, Number, Types

LEMMA NoWord ==
  ASSUME NEW type, type \notin WordTypes, NEW text, NEW col
  PROVE  FromBuffer(type, text, col) /\ FromBuffer(FinalType(type, text), text, col)
BY DEF FromBuffer, FinalType, WordTypes

\* Operators and prefixes are no words.
LEMMA SinglesAreNoWords ==
  /\ \A c \in DOMAIN Operator : Operator[c] \notin WordTypes
  /\ \A c \in DOMAIN Prefix : Prefix[c] \notin WordTypes
  /\ "NUL" \notin DOMAIN Operator \cup DOMAIN Prefix
BY DEF Operator, Prefix, WordTypes, Number

\* What the cursor and the column move by.
LEMMA StepForward ==
  ASSUME LexingInv, Len(linebuf) \in Nat, ch <= Len(linebuf)
  PROVE  /\ ch + 1 \in ch .. Len(linebuf) + 1 /\ ch \in ch .. Len(linebuf) + 1
         /\ linepos + 1 \in Nat /\ linepos + 1 >= linepos /\ linepos \in Nat /\ linepos >= linepos
         /\ (linepos + 1) - linepos = (ch + 1) - ch /\ linepos - linepos = ch - ch
BY DEF LexingInv, IsSequence

\* A token finished at the character after it, or by a character of its own.
LEMMA DelimitedFinishes ==
  ASSUME LexingInv, Len(linebuf) \in Nat, ch <= Len(linebuf), Delimited \/ DelimitedBefore
  PROVE  Finishes \/ Refuses
<1>1. FromBuffer(FinalType(toktype, tokbuf), tokbuf, tokcol)
  BY OfTheTokenBuilt DEF LexingInv, IsSequence
<1>2. CASE Delimited
  BY <1>1, <1>2, StepForward, FinalisesAt DEF Delimited, finalise_tok
<1>3. CASE DelimitedBefore
  BY <1>1, <1>3, StepForward, FinalisesAt DEF DelimitedBefore, finalise_tok
<1> QED BY <1>2, <1>3

LEMMA SingleFinishes ==
  ASSUME LexingInv, Len(linebuf) \in Nat, ch <= Len(linebuf),
         NEW type, type \notin WordTypes, NEW text, Single(type, text)
  PROVE  Finishes \/ Refuses
BY NoWord, StepForward, FinalisesAt DEF Single, finalise_tok

\* The next quote on the line.
LEMMA LeastExists ==
  ASSUME NEW S, S \subseteq Nat, S # {}
  PROVE  Min(S) \in S /\ \A y \in S : Min(S) <= y
BY LeastElement DEF Min

LEMMA GreaterOfTwo ==
  ASSUME NEW a \in Nat, NEW b \in Nat
  PROVE  Max({a, b}) \in Nat /\ a <= Max({a, b}) /\ b <= Max({a, b})
<1>1. \E x \in {a, b} : \A y \in {a, b} : x >= y
  BY a >= b \/ b >= a
<1>2. Max({a, b}) \in {a, b} /\ \A y \in {a, b} : Max({a, b}) >= y
  BY <1>1 DEF Max
<1> QED BY <1>2

\* The cases, one by one.
LEMMA DigitStep ==
  ASSUME LexingInv, DigitChar
  PROVE  Adds
<1>1. ch <= Len(linebuf)
  BY OnIsOnLine DEF DigitChar, Digit
<1>2. FirstDigitType \in Types \ {"NO_TOK", "PATH_TOK"}
  BY DEF FirstDigitType, Types, Number
<1> QED BY <1>1, <1>2, AddToItAdds, NewTokAdds DEF DigitChar

LEMMA LetterStep ==
  ASSUME LexingInv, LetterChar
  PROVE  Adds \/ Passes \/ Refuses
<1>1. ch <= Len(linebuf)
  BY OnIsOnLine DEF LetterChar, Letter, HexLetter, X
<1>2. "ID_TOK" \in Types \ {"NO_TOK", "PATH_TOK"}
  BY DEF Types
<1>3. toktype = "BRKPNT_TOK" => toktype \notin Number \cup {"ID_TOK"}
  BY DEF Number
<1> QED BY <1>1, <1>2, <1>3, AddToItAdds, NewTokAdds, IgnorePasses, RefuseRefuses DEF LetterChar, Building

LEMMA CommentIndicatorStep ==
  ASSUME LexingInv, Len(linebuf) \in Nat, CommentIndicator
  PROVE  Finishes \/ Refuses
<1>1. ch <= Len(linebuf)
  BY OnIsOnLine DEF CommentIndicator
<1>2. FromBuffer(FinalType(toktype, tokbuf), tokbuf, tokcol)
  BY OfTheTokenBuilt DEF LexingInv, IsSequence
<1> QED BY <1>1, <1>2, StepForward, FinalisesAt DEF CommentIndicator

LEMMA BlankStep ==
  ASSUME LexingInv, Len(linebuf) \in Nat, Blank
  PROVE  Passes \/ Finishes \/ Refuses
<1> DEFINE pos == linepos + 1 + (IF Char = "\t" THEN 3 ELSE 0)
<1>1. ch <= Len(linebuf) /\ Char = linebuf[ch] /\ CharAt(ch) = linebuf[ch]
  BY OnIsOnLine DEF Blank, Char
<1>2. pos \in Nat /\ linepos < pos /\ pos >= linepos /\ (linebuf[ch] \notin Disturbing => pos = linepos + 1)
  <2>1. Char = "\t" => linebuf[ch] \in Disturbing
    BY <1>1 DEF Disturbing
  <2> QED BY <2>1 DEF LexingInv, IsSequence
<1>3. CASE Building
  <2>1. FromBuffer(FinalType(toktype, tokbuf), tokbuf, tokcol)
    BY OfTheTokenBuilt DEF LexingInv, IsSequence
  <2>2. FinaliseFor(toktype, tokbuf, tokcol, ch + 1, pos, FALSE)
    BY <1>3 DEF Blank, finalise_tok
  <2>3. CharAt(ch) \notin Disturbing => pos - linepos = (ch + 1) - ch
    BY <1>1, <1>2, StepForward
  <2> HIDE DEF pos
  <2> QED BY <1>1, <1>2, <2>1, <2>2, <2>3, StepForward, FinalisesAt
<1>4. CASE ~Building
  <2>1. Continue(toktype, tokcol, tokbuf) /\ ch' = ch + 1 /\ linepos' = pos
    BY <1>4 DEF Blank
  <2>2. toktype \notin Number \cup {"ID_TOK"}
    BY <1>4 DEF Building, Number
  <2> HIDE DEF pos
  <2> QED BY <1>1, <1>2, <2>1, <2>2 DEF Passes
<1> QED BY <1>3, <1>4

LEMMA UnderscoreStep ==
  ASSUME LexingInv, Underscore
  PROVE  Adds \/ Refuses
<1>1. ch <= Len(linebuf)
  BY OnIsOnLine DEF Underscore
<1>2. "ID_TOK" \in Types \ {"NO_TOK", "PATH_TOK"}
  BY DEF Types
<1> QED BY <1>1, <1>2, AddToItAdds, NewTokAdds, RefuseRefuses DEF Underscore, Building

LEMMA PointStep ==
  ASSUME LexingInv, Point
  PROVE  Adds \/ Refuses
<1>1. ch <= Len(linebuf)
  BY OnIsOnLine DEF Point
<1>2. "UREAL_TOK" \in Types \ {"NO_TOK", "PATH_TOK"}
  BY DEF Types, Number
<1> QED BY <1>1, <1>2, AddToItAdds, NewTokAdds, RefuseRefuses DEF Point, Building

LEMMA ColonStep ==
  ASSUME LexingInv, Len(linebuf) \in Nat, Colon
  PROVE  Adds \/ Finishes \/ Refuses
<1>1. ch <= Len(linebuf)
  BY OnIsOnLine DEF Colon
<1>2. CASE toktype = "PATH_TOK"
  BY <1>1, <1>2, AddToItAdds DEF Colon, Building
<1>3. CASE toktype = "ID_TOK"
  <2>1. FromBuffer(FinalType("LABEL_DEF_TOK", tokbuf), tokbuf, tokcol)
    BY <1>3 DEF FromBuffer
  <2> QED BY <1>1, <1>3, <2>1, StepForward, FinalisesAt DEF Colon, finalise_tok
<1>4. CASE toktype \notin {"PATH_TOK", "ID_TOK"}
  BY <1>4, RefuseRefuses DEF Colon
<1> QED BY <1>2, <1>3, <1>4

LEMMA NumberPrefixStep ==
  ASSUME LexingInv, Len(linebuf) \in Nat, NumberPrefix
  PROVE  Finishes \/ Refuses
<1>1. ch <= Len(linebuf) /\ Char \in DOMAIN Prefix
  BY OnIsOnLine, SinglesAreNoWords DEF NumberPrefix
<1> QED BY <1>1, SinglesAreNoWords, SingleFinishes, RefuseRefuses DEF NumberPrefix

\* The closing quote is on the line.
LEMMA NextOnLine ==
  ASSUME LexingInv, Len(linebuf) \in Nat, NEW q, {i \in ch + 1 .. Len(linebuf) : linebuf[i] = q} # {}
  PROVE  Min({i \in ch + 1 .. Len(linebuf) : linebuf[i] = q}) \in ch + 1 .. Len(linebuf)
<1> DEFINE ends == {i \in ch + 1 .. Len(linebuf) : linebuf[i] = q}
<1>1. ends \subseteq Nat /\ ends \subseteq ch + 1 .. Len(linebuf)
  BY DEF LexingInv, IsSequence
<1> HIDE DEF ends
<1>2. Min(ends) \in ends
  <2>1. ends # {}
    BY DEF ends
  <2> QED BY <1>1, <2>1, LeastExists
<1> QED BY <1>1, <1>2 DEF ends

LEMMA StringDelimStep ==
  ASSUME LexingInv, Len(linebuf) \in Nat, StringDelim
  PROVE  Finishes \/ Refuses
<1> DEFINE ends == {i \in ch + 1 .. Len(linebuf) : linebuf[i] = "\""}
<1>1. ch <= Len(linebuf) /\ CharAt(ch) \in Disturbing
  <2>1. On({"\""}) /\ "NUL" \notin {"\""} /\ {"\""} \subseteq Disturbing
    BY DEF StringDelim, Disturbing
  <2> QED BY <2>1, OnIsOnLine DEF Char
<1>2. CASE Building \/ ends = {}
  BY <1>2, RefuseRefuses DEF StringDelim, Refuses
<1>3. CASE ~Building /\ ends # {}
  <2>1. FinaliseFor("STRING_TOK", SubSeq(linebuf, ch + 1, Min(ends) - 1), linepos,
                    Min(ends) + 1, linepos + Min(ends) - ch, FALSE)
    BY <1>3 DEF StringDelim, finalise_tok
  <2>3. Min(ends) \in ch + 1 .. Len(linebuf)
    BY <1>3, NextOnLine
  <2> DEFINE m == Min(ends)
  <2> HIDE DEF m
  <2>4. /\ m + 1 \in ch .. Len(linebuf) + 1
        /\ linepos + m - ch \in Nat /\ linepos + m - ch >= linepos
    <3>1. m \in ch + 1 .. Len(linebuf)
      BY <2>3 DEF m
    <3> QED BY <3>1 DEF LexingInv, IsSequence
  <2>6. "STRING_TOK" \notin WordTypes
    BY DEF WordTypes, Number
  <2>7. FinaliseFor("STRING_TOK", SubSeq(linebuf, ch + 1, m - 1), linepos, m + 1, linepos + m - ch, FALSE)
    BY <2>1 DEF m
  <2> DEFINE text == SubSeq(linebuf, ch + 1, m - 1)
  <2>8. FromBuffer(FinalType("STRING_TOK", text), text, linepos)
    BY <2>6, NoWord
  <2> QED BY <1>1, <2>4, <2>7, <2>8, FinalisesAt
<1> QED BY <1>2, <1>3

LEMMA BreakpointIndicatorStep ==
  ASSUME LexingInv, BreakpointIndicator
  PROVE  Adds \/ Refuses
<1>1. ch <= Len(linebuf)
  BY OnIsOnLine DEF BreakpointIndicator
<1>2. "BRKPNT_TOK" \in Types \ {"NO_TOK", "PATH_TOK"}
  BY DEF Types
<1> QED BY <1>1, <1>2, NewTokAdds, RefuseRefuses DEF BreakpointIndicator

LEMMA PathStartStep ==
  ASSUME LexingInv, PathStart
  PROVE  Passes
<1>1. ch <= Len(linebuf) /\ linebuf[ch] \in Disturbing
  BY OnIsOnLine DEF PathStart, Disturbing
<1>2. linepos + 1 \in Nat /\ linepos < linepos + 1
  BY DEF LexingInv, IsSequence
<1> QED BY <1>1, <1>2 DEF PathStart, Passes, Forward

LEMMA PathEndStep ==
  ASSUME LexingInv, Len(linebuf) \in Nat, PathEnd
  PROVE  Finishes \/ Refuses
<1>1. ch <= Len(linebuf)
  BY OnIsOnLine DEF PathEnd
<1> QED BY <1>1, DelimitedFinishes, RefuseRefuses DEF PathEnd

LEMMA BackSlashStep ==
  ASSUME LexingInv, BackSlash
  PROVE  Adds \/ Refuses
<1>1. ch <= Len(linebuf)
  BY OnIsOnLine DEF BackSlash
<1> QED BY <1>1, AddToItAdds, RefuseRefuses DEF BackSlash, Building

LEMMA OperatorStep ==
  ASSUME LexingInv, Len(linebuf) \in Nat, OperatorChar
  PROVE  Adds \/ Finishes \/ Refuses
<1>1. ch <= Len(linebuf) /\ Char \in DOMAIN Operator
  BY OnIsOnLine, SinglesAreNoWords DEF OperatorChar
<1>2. CASE Char = "/" /\ toktype = "PATH_TOK"
  BY <1>1, <1>2, AddToItAdds DEF OperatorChar, Building
<1>3. CASE ~(Char = "/" /\ toktype = "PATH_TOK") /\ Building
  BY <1>1, <1>3, DelimitedFinishes DEF OperatorChar
<1>4. CASE ~(Char = "/" /\ toktype = "PATH_TOK") /\ ~Building
  <2>1. Single(Operator[Char], <<Char>>)
    BY <1>4 DEF OperatorChar
  <2>2. Operator[Char] \notin WordTypes
    BY <1>1, SinglesAreNoWords
  <2> QED BY <1>1, <2>1, <2>2, SingleFinishes
<1> QED BY <1>2, <1>3, <1>4

LEMMA OtherStep ==
  ASSUME LexingInv, Other
  PROVE  Passes
<1>1. ch <= Len(linebuf) /\ linebuf[ch] \in Disturbing
  BY OnIsOnLine DEF Other, Disturbing
<1> QED BY <1>1, IgnorePasses DEF Other

LEMMA CommentStep ==
  ASSUME Comment
  PROVE  at = "tokenize_line" /\ EndsLine
<1> DEFINE text == SubSeq(linebuf, ch, Len(linebuf))
           col == IF commentWasDelim THEN linepos - 1 ELSE linepos
<1>1. CreateTok("COMMENT_TOK", text, col, AfterLine) /\ UNCHANGED <<lexing, isFirstTokOnLine>>
      /\ at = "tokenize_line"
  BY DEF Comment
<1>2. FromBuffer("COMMENT_TOK", text, col)
  <2>1. "COMMENT_TOK" \notin WordTypes
    BY DEF WordTypes, Number
  <2> QED BY <2>1, NoWord
<1> HIDE DEF text, col
<1> QED BY <1>1, <1>2 DEF EndsLine, CreateTok

LEMMA EndOfLineStep ==
  ASSUME LexingInv, EndOfLine
  PROVE  at = "tokenize_line" /\ (EndsLine \/ Refuses)
<1>1. at = "tokenize_line" /\ UNCHANGED lexing
  BY DEF EndOfLine, On
<1>2. CASE ~Building
  BY <1>1, <1>2 DEF EndOfLine, EndsLine, made
<1>3. CASE Building /\ Accepted(toktype, tokbuf)
  <2>1. CreateTok(FinalType(toktype, tokbuf), tokbuf, tokcol, AfterLine) /\ UNCHANGED isFirstTokOnLine
    BY <1>3 DEF EndOfLine
  <2>2. FromBuffer(FinalType(toktype, tokbuf), tokbuf, tokcol)
    BY OfTheTokenBuilt DEF LexingInv
  <2> DEFINE type == FinalType(toktype, tokbuf)
  <2> HIDE DEF type
  <2>3. CreateTok(type, tokbuf, tokcol, AfterLine) /\ FromBuffer(type, tokbuf, tokcol)
    BY <2>1, <2>2 DEF type
  <2> QED BY <1>1, <2>1, <2>3 DEF EndsLine, CreateTok
<1>4. CASE Building /\ ~Accepted(toktype, tokbuf)
  BY <1>1, <1>4 DEF EndOfLine, Refuses
<1> QED BY <1>1, <1>2, <1>3, <1>4

\* All of them.
LEMMA CharacterKinds ==
  ASSUME LexingInv, Len(linebuf) \in Nat, Next, ~ReadNothing, ~ReadLine, ~FindLastOpcode
  PROVE  at = "tokenize_line" /\ (Adds \/ Passes \/ Finishes \/ EndsLine \/ Refuses)
<1>1. at = "tokenize_line"
  BY CharacterSteps
<1> QED
  BY <1>1, DigitStep, LetterStep, CommentIndicatorStep, CommentStep, EndOfLineStep, BlankStep,
     UnderscoreStep, PointStep, ColonStep, NumberPrefixStep, StringDelimStep, BreakpointIndicatorStep,
     PathStartStep, PathEndStep, BackSlashStep, OperatorStep, OtherStep DEF Next

-----------------------------------------------------------------------------
(* The types.                                                              *)

\* Nothing is read at first.
LEMMA InitTypeInv == Init => TypeInv
<1> SUFFICES ASSUME Init PROVE TypeInv
  OBVIOUS
<1>1. file \in Files /\ file # <<>> /\ file \in Seq(Seq(STRING))
  BY FilesAssumption DEF Init
<1>2. Len(file) \in Nat /\ Len(file) > 0
  BY <1>1, EmptySeq, LenProperties
<1>3. IsSequence(linebuf) /\ IsSequence(tokbuf) /\ Len(linebuf) \in Nat
  <2>1. linebuf \in {<<>>, <<"\n">>} /\ tokbuf = <<>>
    BY DEF Init
  <2>2. IsSequence(linebuf) /\ IsSequence(tokbuf)
    BY <2>1, SmallSequences
  <2> QED BY <2>2 DEF IsSequence
<1>4. ReadingInv
  <2>1. /\ linenum = 0 /\ linebuf_size = LINEBUF_INIT_SIZE /\ eof_reached = FALSE /\ at = "readline"
    BY DEF Init
  <2>2. linenum < Len(file) /\ linenum <= Len(file)
    BY <1>2, <2>1
  <2>3. linebuf_size \in Nat /\ linebuf_size >= LINEBUF_INIT_SIZE
    BY <2>1, SizesAssumption
  <2>4. at # "tokenize_line"
    BY <2>1
  <2> QED BY <1>1, <1>3, <2>1, <2>2, <2>3, <2>4 DEF ReadingInv, IsSequence
<1>5. LexingInv
  BY <1>3 DEF Init, LexingInv, Types
<1> QED BY <1>4, <1>5 DEF TypeInv

\* A line of a file is a sequence, and not the end of a line.
LEMMA LineIsText ==
  ASSUME ReadingInv, NEW n \in 1 .. Len(file)
  PROVE  IsSequence(file[n]) /\ file[n] # <<"\n">>
<1>1. file \in Seq(Seq(STRING)) /\ \A k \in DOMAIN file : file[k] # <<"\n">>
  BY FilesAssumption DEF ReadingInv, IsSequence
<1>2. file[n] \in Seq(STRING) /\ n \in DOMAIN file
  BY <1>1, ElementOfSeq, LenProperties
<1> QED BY <1>1, <1>2, SequenceIsSequence

\* The buffer only grows.
LEMMA ReadLineTypeInv ==
  ASSUME TypeInv, ReadLine
  PROVE  TypeInv'
<1> DEFINE line == file[linenum + 1]
<1>1. Len(file) \in Nat /\ linenum \in Nat /\ linenum < Len(file) /\ linenum + 1 \in 1 .. Len(file)
  <2>1. Len(file) \in Nat
    BY FilesAssumption, LenProperties DEF TypeInv, ReadingInv
  <2> QED BY <2>1 DEF TypeInv, ReadingInv, ReadLine
<1>2. IsSequence(line) /\ line # <<"\n">> /\ Len(line) \in Nat
  BY <1>1, LineIsText DEF TypeInv, IsSequence
<1>3. Growths(Len(line)) \in Nat
  <2> DEFINE n == Len(line)
  <2>1. n \in Nat
    BY <1>2
  <2> HIDE DEF n
  <2>2. LINEBUF_GROWTH_FACTOR \in Nat \ {0} /\ linebuf_size \in Nat
    BY SizesAssumption DEF TypeInv, ReadingInv
  <2>3. Growths(n) \in Nat
    <3>1. CASE n < linebuf_size
      BY <3>1 DEF Growths
    <3>2. CASE ~(n < linebuf_size)
      <4>1. n - linebuf_size \in Nat
        BY <2>1, <2>2, <3>2
      <4>2. (n - linebuf_size) \div LINEBUF_GROWTH_FACTOR \in Nat
        BY <2>2, <4>1
      <4> QED BY <3>2, <4>2 DEF Growths
    <3> QED BY <3>1, <3>2
  <2> QED BY <2>3 DEF n
<1>4. LINEBUF_GROWTH_FACTOR * Growths(Len(line)) \in Nat
  BY <1>3, SizesAssumption
<1>5. linebuf_size' \in Nat /\ linebuf_size' >= LINEBUF_INIT_SIZE
  BY <1>4, SizesAssumption DEF ReadLine, TypeInv, ReadingInv
<1>6. /\ linebuf' = line /\ linenum' = linenum + 1 /\ file' = file
      /\ eof_reached' = (linenum + 1 = Len(file)) /\ at' \in {"tokenize_line", "undefined"}
  BY DEF ReadLine
<1>7. ReadingInv'
  BY <1>1, <1>2, <1>5, <1>6 DEF ReadingInv, TypeInv, IsSequence
<1>8. LexingInv'
  <2>1. IsSequence(<<>>)
    BY SmallSequences
  <2> QED BY <1>2, <1>6, <2>1 DEF LexingInv, ReadLine, Types
<1> QED BY <1>7, <1>8 DEF TypeInv

\* Nothing is read at a character: at AfterLine, the line is the last or not.
LEMMA CharacterReading ==
  ASSUME ReadingInv, at = "tokenize_line", linenum > 0, UNCHANGED reading,
         at' \in {"tokenize_line", AfterLine, "error", "undefined"}
  PROVE  ReadingInv'
<1>1. UNCHANGED <<file, linenum, linebuf, linebuf_size, eof_reached>>
  BY DEF reading
<1>2. Len(file) \in Nat
  BY FilesAssumption, LenProperties DEF ReadingInv, IsSequence
<1>3. linebuf # <<"\n">> /\ linenum <= Len(file) /\ eof_reached = (linenum = Len(file))
  BY DEF ReadingInv, IsSequence
<1>4. at' = "readline" => linenum < Len(file)
  <2>1. at' = "readline" => ~eof_reached
    BY DEF AfterLine
  <2>2. linenum \in Nat
    BY DEF ReadingInv, IsSequence
  <2>3. ~eof_reached => linenum # Len(file)
    BY <1>3
  <2>4. linenum # Len(file) => linenum < Len(file)
    BY <1>2, <1>3, <2>2
  <2> QED BY <2>1, <2>3, <2>4
<1> QED BY <1>1, <1>3, <1>4 DEF ReadingInv, IsSequence

\* The character at the cursor.
LEMMA CharInLine ==
  ASSUME IsSequence(linebuf), ch \in 1 .. Len(linebuf) + 1, ch <= Len(linebuf)
  PROVE  /\ Char = linebuf[ch] /\ CharAt(ch) = linebuf[ch]
         /\ ch \in 1 .. Len(linebuf) /\ ch \in DOMAIN linebuf
<1>1. ch \in 1 .. Len(linebuf) /\ ch \in DOMAIN linebuf
  BY LenProperties DEF IsSequence
<1> QED BY <1>1 DEF Char, CharAt

\* The five kinds of step.
LEMMA AddsTypeInv ==
  ASSUME TypeInv, at = "tokenize_line", linenum > 0, Adds
  PROVE  TypeInv'
<1>1. PICK type \in Types \ {"NO_TOK"}, col \in {tokcol, linepos} :
        Add(type, col) /\ ch <= Len(linebuf)
  BY DEF Adds
<1>2. /\ toktype' = type /\ tokcol' = col /\ tokbuf' = Append(tokbuf, Char)
      /\ ch' = ch + 1 /\ linepos' = linepos + 1
      /\ UNCHANGED <<reading, made, at>>
  BY <1>1 DEF Add, Continue, Forward
<1>3. ReadingInv'
  BY <1>2, CharacterReading DEF TypeInv
<1>4. Len(linebuf) \in Nat
  BY DEF TypeInv, ReadingInv, IsSequence
<1>5. IsSequence(Append(tokbuf, Char))
  BY AppendKeeps DEF TypeInv, LexingInv
<1>6. linebuf' = linebuf /\ isFirstTokOnLine' = isFirstTokOnLine /\ at' = at
  BY <1>2 DEF reading, made
<1>7. ch' \in 1 .. Len(linebuf) + 1 /\ linepos' \in Nat \ {0} /\ tokcol' \in 0 .. linepos'
  BY <1>1, <1>2, <1>4 DEF TypeInv, LexingInv, IsSequence
<1>8. toktype' \in Types /\ toktype' # "NO_TOK"
  BY <1>2
<1>9. LexingInv'
  BY <1>2, <1>5, <1>6, <1>7, <1>8 DEF TypeInv, LexingInv, IsSequence
<1> QED BY <1>3, <1>9 DEF TypeInv

LEMMA PassesTypeInv ==
  ASSUME TypeInv, at = "tokenize_line", linenum > 0, Passes
  PROVE  TypeInv'
<1>1. PICK type \in {toktype, "PATH_TOK"}, pos \in Nat :
        /\ Continue(type, tokcol, tokbuf) /\ ch <= Len(linebuf) /\ ch' = ch + 1 /\ linepos' = pos
        /\ linepos < pos
  BY DEF Passes
<1>2. toktype' = type /\ tokcol' = tokcol /\ tokbuf' = tokbuf /\ UNCHANGED <<reading, made, at>>
  BY <1>1 DEF Continue
<1>3. ReadingInv'
  BY <1>2, CharacterReading DEF TypeInv
<1>4. Len(linebuf) \in Nat
  BY DEF TypeInv, ReadingInv, IsSequence
<1>5. linebuf' = linebuf /\ isFirstTokOnLine' = isFirstTokOnLine /\ at' = at
  BY <1>2 DEF reading, made
<1>6. ch' \in 1 .. Len(linebuf) + 1 /\ linepos' \in Nat \ {0} /\ tokcol' \in 0 .. linepos'
  BY <1>1, <1>2, <1>4 DEF TypeInv, LexingInv, IsSequence
<1>7. toktype' \in Types /\ (toktype' = "NO_TOK" => tokbuf' = <<>>)
  BY <1>2 DEF TypeInv, LexingInv, Types
<1>8. LexingInv'
  BY <1>2, <1>5, <1>6, <1>7 DEF TypeInv, LexingInv, IsSequence
<1> QED BY <1>3, <1>8 DEF TypeInv

LEMMA FinishesTypeInv ==
  ASSUME TypeInv, at = "tokenize_line", linenum > 0, Finishes
  PROVE  TypeInv'
<1>1. PICK type, text, col, c, pos, comment :
        /\ FinaliseFor(type, text, col, c, pos, comment) /\ Accepted(type, text)
        /\ col \in {tokcol, linepos}
        /\ c \in ch .. Len(linebuf) + 1 /\ pos \in Nat /\ pos >= linepos
  BY DEF Finishes
<1>2. /\ toktype' = "NO_TOK" /\ tokcol' = col /\ tokbuf' = <<>> /\ isFirstTokOnLine' = FALSE
      /\ ch' = c /\ linepos' = pos
      /\ UNCHANGED reading /\ at' \in {"tokenize_line", "undefined"}
  BY <1>1 DEF FinaliseFor, CreateTok, reset_vars
<1>3. ReadingInv'
  BY <1>2, CharacterReading DEF TypeInv
<1>4. Len(linebuf) \in Nat /\ IsSequence(<<>>)
  BY SmallSequences DEF TypeInv, ReadingInv, IsSequence
<1>5. linebuf' = linebuf
  BY <1>2 DEF reading
<1>6. ch' \in 1 .. Len(linebuf) + 1 /\ linepos' \in Nat \ {0} /\ tokcol' \in 0 .. linepos'
  BY <1>1, <1>2, <1>4 DEF TypeInv, LexingInv, IsSequence
<1>7. toktype' \in Types
  BY <1>2 DEF Types
<1>8. LexingInv'
  BY <1>2, <1>4, <1>5, <1>6, <1>7 DEF TypeInv, LexingInv, IsSequence
<1> QED BY <1>3, <1>8 DEF TypeInv

\* The steps that leave the token being built alone.
LEMMA LineOverTypeInv ==
  ASSUME TypeInv, at = "tokenize_line", linenum > 0, EndsLine \/ Refuses
  PROVE  TypeInv'
<1>1. /\ UNCHANGED <<lexing, reading, isFirstTokOnLine>>
      /\ at' \in {AfterLine, "error", "undefined"}
  BY DEF EndsLine, Refuses, CreateTok, made
<1>2. ReadingInv'
  BY <1>1, CharacterReading DEF TypeInv
<1>3. at' \in {"readline", "parse_file", "error", "undefined"}
  BY <1>1 DEF AfterLine
<1>4. LexingInv'
  BY <1>1, <1>3 DEF TypeInv, LexingInv, lexing, reading
<1> QED BY <1>2, <1>4 DEF TypeInv

\* Every step.
LEMMA StepTypeInv == TypeInv /\ LineInv /\ [Next]_vars => TypeInv'
<1> SUFFICES ASSUME TypeInv, LineInv, [Next]_vars PROVE TypeInv'
  OBVIOUS
<1>1. CASE ReadNothing
  <2>1. linenum' \in Nat /\ (linenum' <= MaxLinenum \/ linenum' <= Len(file))
    BY <1>1, SizesAssumption DEF ReadNothing, TypeInv, ReadingInv
  <2> QED BY <1>1, <2>1 DEF ReadNothing, TypeInv, ReadingInv, LexingInv, lexing, made
<1>2. CASE ReadLine
  BY <1>2, ReadLineTypeInv
<1>3. CASE FindLastOpcode
  BY <1>3 DEF FindLastOpcode, TypeInv, ReadingInv, LexingInv, lexing, reading
<1>4. CASE Next /\ ~ReadNothing /\ ~ReadLine /\ ~FindLastOpcode
  <2>1. Len(linebuf) \in Nat
    BY DEF TypeInv, ReadingInv, IsSequence
  <2>2. at = "tokenize_line" /\ (Adds \/ Passes \/ Finishes \/ EndsLine \/ Refuses)
    BY <1>4, <2>1, CharacterKinds DEF TypeInv
  <2>3. linenum > 0
    BY <2>2 DEF LineInv, FlagKnows
  <2> QED BY <2>2, <2>3, AddsTypeInv, PassesTypeInv, FinishesTypeInv, LineOverTypeInv
<1>5. CASE UNCHANGED vars
  BY <1>5 DEF vars, TypeInv, ReadingInv, LexingInv, lexing, reading, made
<1> QED BY <1>1, <1>2, <1>3, <1>4, <1>5

\* linenum is bounded by the greater of the two bounds it has.
LEMMA TypeInvGivesTypeOK == TypeInv => TypeOK
<1> SUFFICES ASSUME TypeInv PROVE TypeOK
  OBVIOUS
<1>1. Len(file) \in Nat /\ MaxLinenum \in Nat
  BY FilesAssumption, SizesAssumption, LenProperties DEF TypeInv, ReadingInv
<1> DEFINE m == Max({MaxLinenum, Len(file)})
<1>2. m \in Nat /\ MaxLinenum <= m /\ Len(file) <= m
  BY <1>1, GreaterOfTwo
<1> HIDE DEF m
<1>3. linenum \in 0 .. m
  BY <1>1, <1>2 DEF TypeInv, ReadingInv
<1> QED BY <1>3 DEF m, TypeOK, TypeInv, ReadingInv, LexingInv, Types

\* For every file, what the reader and the cursor hold has its type: the cursor
\* stays on the line, the reader within the file, and only a token being built
\* has a text.
THEOREM TypeCorrect == Spec => []TypeOK
<1>1. Init => LineInv /\ TypeInv
  BY InitLineInv, InitTypeInv
<1>2. LineInv /\ TypeInv /\ [Next]_vars => LineInv' /\ TypeInv'
  BY StepLineInv, StepTypeInv
<1> QED BY <1>1, <1>2, TypeInvGivesTypeOK, PTL DEF Spec

-----------------------------------------------------------------------------
(* The columns.                                                            *)

\* A piece of a line, and the character after it.
LEMMA SubSeqExtends ==
  ASSUME NEW s, IsSequence(s), NEW b \in 1 .. Len(s), NEW a \in 1 .. b
  PROVE  /\ SubSeq(s, a, b) = Append(SubSeq(s, a, b - 1), s[b])
         /\ SubSeq(s, b, b) = Append(<<>>, s[b])
<1> DEFINE S == {s[i] : i \in 1 .. Len(s)}
<1>1. s \in Seq(S) /\ Len(s) \in Nat /\ \A i \in 1 .. Len(s) : s[i] \in S
  BY DEF IsSequence
<1> HIDE DEF S
<1>2. ASSUME NEW d \in 1 .. b PROVE SubSeq(s, d, b) = Append(SubSeq(s, d, b - 1), s[b])
  <2>1. d \in 1 .. Len(s) /\ b \in d .. Len(s)
    BY <1>1, <1>2
  <2>2. SubSeq(s, d, b) = SubSeq(s, d, b - 1) \o <<s[b]>>
    BY <1>1, <2>1, SubSeqRecursiveSecond
  <2>3. SubSeq(s, d, b - 1) \in Seq(S)
    <3>1. \A i \in d .. b - 1 : s[i] \in S
      BY <1>1, <1>2
    <3> QED BY <1>1, <3>1, SubSeqProperties
  <2>4. s[b] \in S
    BY <1>1
  <2> QED BY <2>2, <2>3, <2>4, AppendIsConcat
<1>3. SubSeq(s, b, b - 1) = <<>>
  BY SubSeqEmpty
<1>4. a \in 1 .. b /\ b \in 1 .. b
  BY <1>1
<1> QED BY <1>2, <1>3, <1>4

\* Both depend on the line only.
LEMMA CleanKept ==
  ASSUME UNCHANGED reading
  PROVE  Clean' = Clean /\ \A tok : Stands(tok)' = Stands(tok)
BY DEF reading, Clean, Stands

\* The character at the cursor of a clean line.
LEMMA CleanChar ==
  ASSUME Clean, ReadingInv, LexingInv, ch <= Len(linebuf)
  PROVE  linebuf[ch] \notin Disturbing /\ CharAt(ch) \notin Disturbing
<1>1. ch \in DOMAIN linebuf /\ CharAt(ch) = linebuf[ch]
  BY CharInLine DEF ReadingInv, LexingInv
<1> QED BY <1>1 DEF Clean, ToSet

\* The end of a line disturbs nothing.
LEMMA CleanCharAt ==
  ASSUME Clean, ReadingInv, LexingInv
  PROVE  CharAt(ch) \notin Disturbing
<1>1. CASE ch <= Len(linebuf)
  BY <1>1, CleanChar
<1>2. CASE ~(ch <= Len(linebuf))
  BY <1>2 DEF CharAt, Disturbing
<1> QED BY <1>1, <1>2

\* The part of ColumnInv about the token being built, and that about the tokens.
AtCursor ==
    at = "tokenize_line" =>
        /\ linepos = ch /\ toktype # "PATH_TOK"
        /\ toktype \in Number \cup {"ID_TOK"} => Spells

AllStand ==
    \A i \in DOMAIN toks :
        toks[i].line = linenum /\ toks[i].type \in WordTypes => Stands(toks[i])

\* ColumnInv by its parts.
LEMMA ColumnParts == ColumnInv <=> (Clean => AtCursor /\ AllStand)
BY DEF ColumnInv, AtCursor, AllStand

LEMMA AllStandKept ==
  ASSUME AllStand, UNCHANGED <<toks, reading>>
  PROVE  AllStand'
BY CleanKept DEF AllStand, reading

\* A token that is a word stands where the buffer did.
LEMMA CreatedStands ==
  ASSUME TypeInv, LineInv, AllStand, Clean, at = "tokenize_line",
         toktype \in Number \cup {"ID_TOK"} => Spells,
         NEW type, NEW text, NEW col, NEW next, CreateTok(type, text, col, next),
         FromBuffer(type, text, col)
  PROVE  AllStand'
<1> DEFINE t == Token(type, text, col)
<1>1. toks' = Append(toks, t) /\ UNCHANGED reading
  BY DEF CreateTok
<1>2. t.type = type /\ t.text = text /\ t.col = col % 256
  BY DEF Token
<1>3. type \in WordTypes => Stands(t)
  <2> SUFFICES ASSUME type \in WordTypes PROVE Stands(t)
    OBVIOUS
  <2>1. text = tokbuf /\ col = tokcol /\ Spells
    BY DEF FromBuffer
  <2>2. Len(linebuf) \in Nat /\ Len(linebuf) < 256 /\ DOMAIN linebuf = 1 .. Len(linebuf)
        /\ ch \in 1 .. Len(linebuf) + 1 /\ Len(tokbuf) \in Nat
    BY LenProperties DEF TypeInv, ReadingInv, LexingInv, IsSequence, Clean
  <2>3. tokcol \in 1 .. Len(linebuf) /\ tokcol % 256 = tokcol /\ tokcol + Len(tokbuf) - 1 = ch - 1
    BY <2>1, <2>2 DEF Spells
  <2>4. tokbuf = SubSeq(linebuf, tokcol, ch - 1)
    BY <2>1 DEF Spells
  <2>5. t.col = tokcol /\ t.text = tokbuf
    BY <1>2, <2>1, <2>3
  <2> HIDE DEF t
  <2> QED BY <2>2, <2>3, <2>4, <2>5 DEF Stands
<1> HIDE DEF t
<1>4. IsSequence(toks) /\ Len(toks) \in Nat
  BY DEF LineInv, IsSequence
<1>5. /\ DOMAIN toks = 1 .. Len(toks) /\ DOMAIN toks' = 1 .. Len(toks) + 1
      /\ \A i \in 1 .. Len(toks) : toks'[i] = toks[i]
      /\ toks'[Len(toks) + 1] = t
  BY <1>1, <1>4, AppendKeeps
<1>6. ASSUME NEW i \in DOMAIN toks', toks'[i].line = linenum', toks'[i].type \in WordTypes
      PROVE  Stands(toks'[i])
  <2>1. linenum' = linenum
    BY <1>1 DEF reading
  <2>2. CASE i = Len(toks) + 1
    BY <1>2, <1>3, <1>5, <1>6, <2>2
  <2>3. CASE i # Len(toks) + 1
    <3>1. i \in DOMAIN toks /\ toks'[i] = toks[i]
      BY <1>4, <1>5, <2>3
    <3>2. Stands(toks[i])
      BY <1>6, <2>1, <3>1 DEF AllStand
    <3> QED BY <3>1, <3>2
  <2> QED BY <2>2, <2>3
<1>7. linebuf' = linebuf
  BY <1>1 DEF reading
<1> QED BY <1>6, <1>7 DEF AllStand, Stands

\* The five kinds of step.
LEMMA AddsColumnInv ==
  ASSUME TypeInv, AtCursor, AllStand, Clean, at = "tokenize_line", Adds
  PROVE  AtCursor' /\ AllStand'
<1>1. PICK type \in Types \ {"NO_TOK"}, col \in {tokcol, linepos} :
        /\ Add(type, col) /\ ch <= Len(linebuf)
        /\ IF Building THEN type = toktype /\ col = tokcol ELSE type # "PATH_TOK" /\ col = linepos
  BY DEF Adds
<1>2. /\ toktype' = type /\ tokcol' = col /\ tokbuf' = Append(tokbuf, Char)
      /\ ch' = ch + 1 /\ linepos' = linepos + 1
      /\ UNCHANGED <<reading, made, at>>
  BY <1>1 DEF Add, Continue, Forward
<1>3. AllStand'
  BY <1>2, AllStandKept DEF made
<1>4. linepos = ch /\ toktype # "PATH_TOK" /\ (toktype \in Number \cup {"ID_TOK"} => Spells)
  BY DEF AtCursor
<1>5. toktype' # "PATH_TOK" /\ linepos' = ch'
  BY <1>1, <1>2, <1>4 DEF Building
<1>6. Char = linebuf[ch] /\ ch \in 1 .. Len(linebuf) /\ IsSequence(linebuf) /\ linebuf' = linebuf
      /\ IsSequence(tokbuf) /\ Len(tokbuf) \in Nat /\ Len(linebuf) \in Nat
  BY <1>1, <1>2, CharInLine DEF TypeInv, ReadingInv, LexingInv, IsSequence, reading
<1>7. Len(tokbuf') = Len(tokbuf) + 1
  BY <1>2, <1>6, AppendKeeps
<1>8. (ch + 1) - 1 = ch
  BY <1>6
<1>9. ASSUME toktype' \in Number \cup {"ID_TOK"} PROVE Spells'
  <2>1. CASE Building
    <3>1. toktype' = toktype /\ tokcol' = tokcol
      BY <1>1, <1>2, <2>1
    <3>2. Spells
      BY <1>4, <1>9, <3>1
    <3>3. tokcol \in 1 .. ch
      BY <1>6, <3>2 DEF Spells
    <3>4. SubSeq(linebuf, tokcol, ch) = tokbuf'
      BY <1>2, <1>6, <3>2, <3>3, SubSeqExtends DEF Spells
    <3>5. tokcol + Len(tokbuf') = ch + 1
      BY <1>6, <1>7, <3>2, <3>3 DEF Spells
    <3> QED BY <1>2, <1>6, <1>8, <3>1, <3>3, <3>4, <3>5 DEF Spells
  <2>2. CASE ~Building
    <3>1. tokcol' = ch /\ tokbuf = <<>>
      BY <1>1, <1>2, <1>4, <2>2 DEF Building, TypeInv, LexingInv
    <3>2. ch \in 1 .. ch
      BY <1>6
    <3>3. SubSeq(linebuf, ch, ch) = tokbuf'
      BY <1>2, <1>6, <3>1, <3>2, SubSeqExtends
    <3>4. Len(tokbuf') = 1
      BY <1>7, <3>1
    <3> QED BY <1>2, <1>6, <1>8, <3>1, <3>2, <3>3, <3>4 DEF Spells
  <2> QED BY <2>1, <2>2
<1> QED BY <1>3, <1>5, <1>9 DEF AtCursor

LEMMA PassesColumnInv ==
  ASSUME TypeInv, AtCursor, AllStand, Clean, at = "tokenize_line", Passes
  PROVE  AtCursor' /\ AllStand'
<1>1. PICK type \in {toktype, "PATH_TOK"}, pos \in Nat :
        /\ Continue(type, tokcol, tokbuf) /\ ch <= Len(linebuf) /\ ch' = ch + 1 /\ linepos' = pos
        /\ linebuf[ch] \notin Disturbing =>
               pos = linepos + 1 /\ type = toktype /\ toktype \notin Number \cup {"ID_TOK"}
  BY DEF Passes
<1>2. linepos' = linepos + 1 /\ type = toktype /\ toktype \notin Number \cup {"ID_TOK"}
  BY <1>1, CleanChar DEF TypeInv
<1>3. toktype' = toktype /\ UNCHANGED <<reading, made, at>>
  BY <1>1, <1>2 DEF Continue
<1>4. AllStand'
  BY <1>3, AllStandKept DEF made
<1>5. linepos' = ch' /\ toktype' # "PATH_TOK"
  BY <1>1, <1>2, <1>3 DEF AtCursor
<1> QED BY <1>2, <1>3, <1>4, <1>5 DEF AtCursor

LEMMA FinishesColumnInv ==
  ASSUME TypeInv, LineInv, AtCursor, AllStand, Clean, at = "tokenize_line", Finishes
  PROVE  AtCursor' /\ AllStand'
<1>1. PICK type, text, col, c, pos, comment :
        /\ FinaliseFor(type, text, col, c, pos, comment) /\ Accepted(type, text)
        /\ FromBuffer(FinalType(type, text), text, col)
        /\ c \in ch .. Len(linebuf) + 1 /\ pos \in Nat
        /\ CharAt(ch) \notin Disturbing => pos - linepos = c - ch
  BY DEF Finishes
<1>2. /\ CreateTok(FinalType(type, text), text, col, "tokenize_line")
      /\ toktype' = "NO_TOK" /\ ch' = c /\ linepos' = pos
  BY <1>1 DEF FinaliseFor, reset_vars
<1> DEFINE final == FinalType(type, text)
<1>3. CreateTok(final, text, col, "tokenize_line") /\ FromBuffer(final, text, col)
  BY <1>1, <1>2
<1> HIDE DEF final
<1>4. AllStand'
  BY <1>3, CreatedStands DEF AtCursor
<1>5. pos - linepos = c - ch /\ linepos = ch /\ linepos \in Nat /\ ch \in Nat /\ c \in Nat
  BY <1>1, CleanCharAt DEF TypeInv, AtCursor, LexingInv
<1>6. linepos' = ch'
  BY <1>1, <1>2, <1>5
<1>7. toktype' \notin Number \cup {"ID_TOK", "PATH_TOK"}
  BY <1>2 DEF Number
<1> QED BY <1>4, <1>6, <1>7 DEF AtCursor

LEMMA LineOverColumnInv ==
  ASSUME TypeInv, LineInv, AtCursor, AllStand, Clean, at = "tokenize_line", EndsLine \/ Refuses
  PROVE  AtCursor' /\ AllStand'
<1>1. at' # "tokenize_line" /\ UNCHANGED reading
  BY DEF EndsLine, Refuses, CreateTok, AfterLine
<1>2. CASE UNCHANGED toks
  BY <1>1, <1>2, AllStandKept DEF AtCursor
<1>3. CASE \E type, text, col : CreateTok(type, text, col, AfterLine) /\ FromBuffer(type, text, col)
  <2>1. PICK type, text, col : CreateTok(type, text, col, AfterLine) /\ FromBuffer(type, text, col)
    BY <1>3
  <2>2. AllStand'
    BY <2>1, CreatedStands DEF AtCursor
  <2> QED BY <1>1, <2>2 DEF AtCursor
<1> QED BY <1>2, <1>3 DEF EndsLine, Refuses, made

\* A line just begun has no tokens.
LEMMA NewLineStands ==
  ASSUME LineInv, linenum' = linenum + 1, UNCHANGED toks
  PROVE  AllStand'
<1>1. ASSUME NEW i \in DOMAIN toks PROVE toks[i].line # linenum + 1
  <2>1. toks[i].line \in 1 .. linenum /\ linenum \in Nat
    BY DEF LineInv, Numbers
  <2> QED BY <2>1
<1> QED BY <1>1 DEF AllStand

\* No token is made at first.
LEMMA InitColumnInv == Init => ColumnInv
<1> SUFFICES ASSUME Init PROVE ColumnInv
  OBVIOUS
<1>1. at # "tokenize_line" /\ DOMAIN toks = {}
  BY DEF Init
<1> QED BY <1>1 DEF ColumnInv

\* Every step.
LEMMA StepColumnInv == ColumnInv /\ TypeInv /\ LineInv /\ [Next]_vars => ColumnInv'
<1> SUFFICES ASSUME ColumnInv, TypeInv, LineInv, [Next]_vars, Clean' PROVE AtCursor' /\ AllStand'
  BY ColumnParts DEF ColumnInv, AtCursor, AllStand
<1>1. CASE ReadNothing
  <2>1. at' = at /\ at # "tokenize_line" /\ UNCHANGED <<toks, linebuf, file, linebuf_size, eof_reached>>
    BY <1>1 DEF ReadNothing, made
  <2>2. CASE linenum' = linenum
    <3>1. UNCHANGED reading
      BY <2>1, <2>2 DEF reading
    <3>2. AllStand
      BY <3>1, CleanKept, ColumnParts
    <3> QED BY <2>1, <3>1, <3>2, AllStandKept DEF AtCursor
  <2>3. CASE linenum' = linenum + 1
    BY <2>1, <2>3, NewLineStands DEF AtCursor
  <2> QED BY <1>1, <2>2, <2>3 DEF ReadNothing
<1>2. CASE ReadLine
  <2>1. linenum' = linenum + 1 /\ UNCHANGED toks /\ ch' = 1 /\ linepos' = 1 /\ toktype' = "NO_TOK"
    BY <1>2 DEF ReadLine
  <2>2. AllStand'
    BY <2>1, NewLineStands
  <2>3. toktype' \notin Number \cup {"ID_TOK", "PATH_TOK"}
    BY <2>1 DEF Number
  <2> QED BY <2>1, <2>2, <2>3 DEF AtCursor
<1>3. CASE FindLastOpcode
  <2>1. at' # "tokenize_line" /\ UNCHANGED <<toks, reading>>
    BY <1>3 DEF FindLastOpcode
  <2>2. AllStand
    BY <2>1, CleanKept, ColumnParts
  <2> QED BY <2>1, <2>2, AllStandKept DEF AtCursor
<1>4. CASE Next /\ ~ReadNothing /\ ~ReadLine /\ ~FindLastOpcode
  <2>1. Len(linebuf) \in Nat
    BY DEF TypeInv, ReadingInv, IsSequence
  <2>2. at = "tokenize_line" /\ (Adds \/ Passes \/ Finishes \/ EndsLine \/ Refuses)
    BY <1>4, <2>1, CharacterKinds DEF TypeInv
  <2>3. UNCHANGED reading
    BY <2>2 DEF Adds, Add, Passes, Continue, Finishes, FinaliseFor, CreateTok, EndsLine, Refuses
  <2>4. Clean /\ AtCursor /\ AllStand
    BY <2>3, CleanKept, ColumnParts
  <2> QED BY <2>2, <2>4, AddsColumnInv, PassesColumnInv, FinishesColumnInv, LineOverColumnInv
<1>5. CASE UNCHANGED vars
  <2>1. UNCHANGED <<toks, reading, at, ch, linepos, toktype, tokcol, tokbuf>> /\ linebuf' = linebuf
    BY <1>5 DEF vars, made, lexing, reading
  <2>2. AtCursor /\ AllStand
    BY <2>1, CleanKept, ColumnParts
  <2> QED BY <2>1, <2>2, AllStandKept DEF AtCursor, Spells
<1> QED BY <1>1, <1>2, <1>3, <1>4, <1>5

\* The invariant says more than the property: it holds inside a line, too.
LEMMA ColumnInvGivesColumnsPoint == ColumnInv => ColumnsPoint
BY DEF ColumnInv, ColumnsPoint

\* For every file: on a line without tabs, strings and paths, the column of a
\* word or a number is where its text stands.
THEOREM ColumnsPointHolds == Spec => []ColumnsPoint
<1>1. Init => LineInv /\ TypeInv /\ ColumnInv
  BY InitLineInv, InitTypeInv, InitColumnInv
<1>2. LineInv /\ TypeInv /\ ColumnInv /\ [Next]_vars => LineInv' /\ TypeInv' /\ ColumnInv'
  BY StepLineInv, StepTypeInv, StepColumnInv
<1> QED BY <1>1, <1>2, ColumnInvGivesColumnsPoint, PTL DEF Spec

=============================================================================
