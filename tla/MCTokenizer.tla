----------------------------- MODULE MCTokenizer ------------------------------
(* Files of one line: every line of up to three characters of each kind the
   parser tells apart, of four characters of those that make words, and of up
   to three longer words; and files of up to three lines. *)
EXTENDS Tokenizer

UpTo(n, S) == UNION {[1 .. k -> S] : k \in 0 .. n}

EveryKind == {"a", "x", "g", "_", "0", "8", ".", " ", "\t", "#", ":", "$", "%", "\"", "^",
              "<", ">", ";", "/", "\\", ","}

OfWords == {"a", "x", "g", "_", "0", "8", ".", ";", ":", "+", " "}

Pieces == {<<"n", "o", "p">>, <<"l", "e", "t">>, <<"i", "m", "p", "o", "r", "t">>, <<"g", "_", "1">>,
           <<"1", "0">>, <<"0", "x", "f">>, <<"0", "1", "7">>, <<"\"", "a", " ", "\"">>, <<"<", "a", "/", "b", ">">>,
           <<" ">>, <<":">>, <<"+">>}

Short == {<<>>, <<"a">>, <<"n", "o", "p">>, <<"a", "#", "a">>, <<" ">>}

MCFiles ==
    {<<line>> : line \in UpTo(3, EveryKind) \cup [1 .. 4 -> OfWords] \cup {FlattenSeq(p) : p \in UpTo(3, Pieces)}}
        \cup (UpTo(3, Short) \ {<<>>})

MCOpcode(text) == IF text = <<"n", "o", "p">> THEN 1 ELSE 255

=============================================================================
