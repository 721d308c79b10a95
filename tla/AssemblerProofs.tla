--------------------------- MODULE AssemblerProofs ----------------------------
(***************************************************************************)
(* Proofs about Assembler, for all files, imports and bounds.              *)
(*                                                                         *)
(* AsmInv follows the imports.  In the first pass the labels of a file, up *)
(* to the token its Assembler is at, are in that Assembler's table, and    *)
(* for each file that was read some Assembler has a card with its labels.  *)
(* A return merges the cards of the one that returns into the card its     *)
(* importer waits with, so that at last they are all in the main module's  *)
(* table (ImportsVisible).  Tables grow at their end only and keep their   *)
(* order: what a name means does not change any more (LookupsStay).        *)
(*                                                                         *)
(* Upon it rest the types (SizeInv, StepsInv) and where the first          *)
(* instruction is written: HeaderInv relates the metadata to the table,    *)
(* InstrsInv the bytes to the instructions (LoaderFindsProgram).           *)
(*                                                                         *)
(* Both readers of operands are folds, which After computes by recursion.  *)
(* Its results are the ends of paths (Walk, Path), and what every step of  *)
(* a path keeps, its end has: neither reader leaves the stream of tokens,  *)
(* nor counts a token that begins a statement (OperandsCounted,            *)
(* OperandsEnd).  Side by side on the same operand they stay on the same   *)
(* token until the evaluation ends, or the search for the end has given    *)
(* up (Together): so both passes find the same instructions (PassInv,      *)
(* PassesAgree).                                                           *)
(*                                                                         *)
(* In a plain program the table tells what the file defines: its labels    *)
(* and macros, and a label's number is the room of the instructions        *)
(* before it (TellsInv).  An operand that is one number or name evaluates  *)
(* to itself or to what the table says (OperandsValue).  So the built      *)
(* instructions mean what their tokens mean (FileInv, BuiltAs), and each   *)
(* is written to its own place, over no other (AllAreWritten).  The file   *)
(* ends at most three bytes before the last of them does, those of the     *)
(* padding (FileEnds, BeforeGrows, FileIsAsWritten).                       *)
(***************************************************************************)
EXTENDS Assembler, DataLemmas

\* w begins with v.
Extends(v, w) == Len(v) <= Len(w) /\ \A i \in 1 .. Len(v) : w[i] = v[i]

\* Symbols and tables are records of these fields.
IsSymbol(s) == DOMAIN s = {"type", "id", "val_type", "val"}

TableFields == {"vec", "keep_symbols", "bytestream_size", "start_addr"}

IsTable(st) ==
    /\ DOMAIN st = TableFields
    /\ IsSequence(st.vec) /\ \A i \in 1 .. Len(st.vec) : IsSymbol(st.vec[i])
    /\ st.keep_symbols \in BOOLEAN

-----------------------------------------------------------------------------
(* The merging of symbol tables.                                           *)

\* What is taken from w, up to its n-th symbol.
TakenTo(f, v, w, n) ==
    f = [k \in 0 .. n |->
            IF k = 0 THEN v
            ELSE IF w[k].type = "ATOM_SYMBOL" THEN f[k - 1]
            ELSE Append(f[k - 1], Clone(w[k]))]

LEMMA TakenExists ==
  ASSUME NEW v, NEW w, NEW n \in Nat
  PROVE  \E f : TakenTo(f, v, w, n)
<1> DEFINE Sat == {k \in Nat : \E f : TakenTo(f, v, w, k)}
<1>1. 0 \in Sat
  <2>1. TakenTo([k \in 0 .. 0 |-> v], v, w, 0)
    BY DEF TakenTo
  <2> QED BY <2>1
<1>2. ASSUME NEW k \in Nat, k \in Sat PROVE k + 1 \in Sat
  <2>1. PICK f : TakenTo(f, v, w, k)
    BY <1>2
  <2> DEFINE last == IF w[k + 1].type = "ATOM_SYMBOL" THEN f[k] ELSE Append(f[k], Clone(w[k + 1]))
             g == [i \in 0 .. k + 1 |-> IF i <= k THEN f[i] ELSE last]
             h == [i \in 0 .. k + 1 |->
                      IF i = 0 THEN v
                      ELSE IF w[i].type = "ATOM_SYMBOL" THEN g[i - 1]
                      ELSE Append(g[i - 1], Clone(w[i]))]
  <2>2. ASSUME NEW i \in 0 .. k + 1 PROVE g[i] = h[i]
    <3>1. CASE i <= k
      <4>1. i \in 0 .. k /\ (i # 0 => i - 1 \in 0 .. k /\ i - 1 \in 0 .. k + 1 /\ i - 1 <= k)
        BY <3>1
      <4>2. g[i] = f[i] /\ (i # 0 => g[i - 1] = f[i - 1])
        BY <3>1, <4>1
      <4>3. f[i] = IF i = 0 THEN v
                   ELSE IF w[i].type = "ATOM_SYMBOL" THEN f[i - 1]
                   ELSE Append(f[i - 1], Clone(w[i]))
        BY <2>1, <4>1 DEF TakenTo
      <4> QED BY <4>1, <4>2, <4>3
    <3>2. CASE i = k + 1
      BY <3>2
    <3> QED BY <3>1, <3>2
  <2>3. g = h
    BY <2>2
  <2> HIDE DEF last
  <2>4. TakenTo(g, v, w, k + 1)
    BY <2>3 DEF TakenTo
  <2> HIDE DEF g
  <2> QED BY <2>4
<1> HIDE DEF Sat
<1>3. n \in Sat
  BY <1>1, <1>2, SetInduction
<1> QED BY <1>3 DEF Sat

\* v, and all symbols of w that are not built in.
Merged(v, w, n, r) ==
    /\ IsSequence(r) /\ Extends(v, r)
    /\ \A i \in 1 .. Len(r) : IsSymbol(r[i])
    /\ \A j \in 1 .. n : w[j].type # "ATOM_SYMBOL" =>
           \E i \in 1 .. Len(r) : r[i].id = w[j].id /\ r[i].type = w[j].type

LEMMA CloneKeeps ==
  ASSUME NEW s
  PROVE  IsSymbol(Clone(s)) /\ Clone(s).id = s.id /\ Clone(s).type = s.type
BY DEF Clone, Symbol, IsSymbol

LEMMA TakenMerged ==
  ASSUME NEW v, NEW w, NEW n \in Nat, NEW f, TakenTo(f, v, w, n),
         IsSequence(v), \A i \in 1 .. Len(v) : IsSymbol(v[i])
  PROVE  Merged(v, w, n, f[n])
<1> DEFINE Sat == {k \in 0 .. n : Merged(v, w, k, f[k])}
<1>1. 0 \in Sat
  <2>1. f[0] = v
    BY DEF TakenTo
  <2>2. Len(v) \in Nat
    BY DEF IsSequence
  <2> QED BY <2>1, <2>2 DEF Merged, Extends
<1>2. ASSUME NEW k \in 0 .. n - 1, k \in Sat PROVE k + 1 \in Sat
  <2>1. k \in 0 .. n /\ k + 1 \in 0 .. n /\ k + 1 # 0 /\ (k + 1) - 1 = k
    OBVIOUS
  <2>2. f[k + 1] = IF w[k + 1].type = "ATOM_SYMBOL" THEN f[k] ELSE Append(f[k], Clone(w[k + 1]))
    BY <2>1 DEF TakenTo
  <2> DEFINE r == f[k]
             q == f[k + 1]
  <2>3. Merged(v, w, k, r)
    BY <1>2
  <2>4. CASE w[k + 1].type = "ATOM_SYMBOL"
    <3>1. q = r
      BY <2>2, <2>4
    <3> HIDE DEF q, r
    <3>2. Merged(v, w, k + 1, q)
      BY <2>1, <2>3, <2>4, <3>1 DEF Merged
    <3> QED BY <2>1, <3>2 DEF q
  <2>5. CASE w[k + 1].type # "ATOM_SYMBOL"
    <3> DEFINE c == Clone(w[k + 1])
    <3>1. q = Append(r, c)
      BY <2>2, <2>5
    <3>2. IsSymbol(c) /\ c.id = w[k + 1].id /\ c.type = w[k + 1].type
      BY CloneKeeps
    <3> HIDE DEF q, r, c
    <3>3. /\ IsSequence(q) /\ Len(q) = Len(r) + 1 /\ Len(r) \in Nat
          /\ \A i \in 1 .. Len(r) : q[i] = r[i]
          /\ q[Len(r) + 1] = c
      <4>1. IsSequence(r) /\ Len(r) \in Nat
        BY <2>3 DEF Merged, IsSequence
      <4> QED BY <3>1, <4>1, AppendKeeps
    <3>4. Extends(v, q)
      <4>1. Len(v) \in Nat
        BY DEF IsSequence
      <4>2. Len(v) <= Len(r) /\ \A i \in 1 .. Len(v) : r[i] = v[i]
        BY <2>3 DEF Merged, Extends
      <4>3. \A i \in 1 .. Len(v) : i \in 1 .. Len(r)
        BY <3>3, <4>1, <4>2
      <4> QED BY <3>3, <4>1, <4>2, <4>3 DEF Extends
    <3>5. \A i \in 1 .. Len(q) : IsSymbol(q[i])
      <4> SUFFICES ASSUME NEW i \in 1 .. Len(q) PROVE IsSymbol(q[i])
        OBVIOUS
      <4>1. i \in 1 .. Len(r) \/ i = Len(r) + 1
        BY <3>3
      <4> QED BY <2>3, <3>2, <3>3, <4>1 DEF Merged
    <3>6. ASSUME NEW j \in 1 .. k + 1, w[j].type # "ATOM_SYMBOL"
          PROVE  \E i \in 1 .. Len(q) : q[i].id = w[j].id /\ q[i].type = w[j].type
      <4>1. CASE j = k + 1
        <5>1. Len(r) + 1 \in 1 .. Len(q)
          BY <3>3
        <5> QED BY <3>2, <3>3, <4>1, <5>1
      <4>2. CASE j # k + 1
        <5>1. j \in 1 .. k
          BY <2>1, <4>2
        <5>2. PICK i \in 1 .. Len(r) : r[i].id = w[j].id /\ r[i].type = w[j].type
          BY <2>3, <3>6, <5>1 DEF Merged
        <5>3. i \in 1 .. Len(q) /\ q[i] = r[i]
          BY <3>3
        <5> QED BY <5>2, <5>3
      <4> QED BY <4>1, <4>2
    <3>7. Merged(v, w, k + 1, q)
      BY <3>3, <3>4, <3>5, <3>6 DEF Merged
    <3> QED BY <2>1, <3>7 DEF q
  <2> QED BY <2>4, <2>5
<1> HIDE DEF Sat
<1>3. 0 .. n \subseteq Sat
  BY <1>1, <1>2, StepInduction
<1> QED BY <1>3 DEF Sat

\* What import_symtab makes of a table.
LEMMA ImportMerges ==
  ASSUME NEW st, IsTable(st), NEW src, IsTable(src)
  PROVE  \E vec : /\ import_symtab(st, src) = [st EXCEPT !.vec = vec]
                  /\ Merged(st.vec, src.vec, Len(src.vec), vec)
<1> DEFINE n == Len(src.vec)
           P(g) == g = [k \in 0 .. n |->
                           IF k = 0 THEN st.vec
                           ELSE IF src.vec[k].type = "ATOM_SYMBOL" THEN g[k - 1]
                           ELSE Append(g[k - 1], Clone(src.vec[k]))]
           taken == CHOOSE g : P(g)
<1>1. n \in Nat
  BY DEF IsTable, IsSequence
<1>2. import_symtab(st, src) = [st EXCEPT !.vec = taken[n]]
  BY DEF import_symtab
<1> HIDE DEF n
<1>3. \E g : P(g)
  <2>1. \E g : TakenTo(g, st.vec, src.vec, n)
    BY <1>1, TakenExists
  <2> QED BY <2>1 DEF TakenTo
<1>4. P(taken)
  BY <1>3
<1> HIDE DEF taken
<1>5. TakenTo(taken, st.vec, src.vec, n)
  BY <1>4 DEF TakenTo
<1>6. Merged(st.vec, src.vec, n, taken[n])
  BY <1>1, <1>5, TakenMerged DEF IsTable
<1> QED BY <1>2, <1>6 DEF n

\* The symbols of w that are not built in are in v as well.
Within(w, v) ==
    \A j \in 1 .. Len(w) : w[j].type # "ATOM_SYMBOL" =>
        \E i \in 1 .. Len(v) : v[i].id = w[j].id /\ v[i].type = w[j].type

\* r is st with more symbols behind its own.
Enlarged(st, r) ==
    /\ IsTable(r) /\ Extends(st.vec, r.vec)
    /\ r.keep_symbols = st.keep_symbols
    /\ r.bytestream_size = st.bytestream_size
    /\ r.start_addr = st.start_addr

LEMMA EnlargedTwice ==
  ASSUME NEW st, NEW q, NEW r, IsTable(st), Enlarged(st, q), Enlarged(q, r)
  PROVE  /\ Enlarged(st, r)
         /\ \A w : Within(w, q.vec) => Within(w, r.vec)
<1>1. Len(st.vec) \in Nat /\ Len(q.vec) \in Nat /\ Len(r.vec) \in Nat
  BY DEF Enlarged, IsTable, IsSequence
<1>2. /\ Len(st.vec) <= Len(q.vec) /\ \A i \in 1 .. Len(st.vec) : q.vec[i] = st.vec[i]
      /\ Len(q.vec) <= Len(r.vec) /\ \A i \in 1 .. Len(q.vec) : r.vec[i] = q.vec[i]
  BY DEF Enlarged, Extends
<1>3. 1 .. Len(st.vec) \subseteq 1 .. Len(q.vec) /\ 1 .. Len(q.vec) \subseteq 1 .. Len(r.vec)
  BY <1>1, <1>2
<1>4. Enlarged(st, r)
  BY <1>1, <1>2, <1>3 DEF Enlarged, Extends
<1>5. ASSUME NEW w, Within(w, q.vec) PROVE Within(w, r.vec)
  <2> SUFFICES ASSUME NEW j \in 1 .. Len(w), w[j].type # "ATOM_SYMBOL"
               PROVE  \E i \in 1 .. Len(r.vec) : r.vec[i].id = w[j].id /\ r.vec[i].type = w[j].type
    BY DEF Within
  <2>1. PICK i \in 1 .. Len(q.vec) : q.vec[i].id = w[j].id /\ q.vec[i].type = w[j].type
    BY <1>5 DEF Within
  <2>2. i \in 1 .. Len(r.vec) /\ r.vec[i] = q.vec[i]
    BY <1>2, <1>3
  <2> QED BY <2>1, <2>2
<1> QED BY <1>4, <1>5

LEMMA ImportEnlarges ==
  ASSUME NEW st, IsTable(st), NEW src, IsTable(src)
  PROVE  Enlarged(st, import_symtab(st, src)) /\ Within(src.vec, import_symtab(st, src).vec)
<1>1. PICK vec : /\ import_symtab(st, src) = [st EXCEPT !.vec = vec]
                 /\ Merged(st.vec, src.vec, Len(src.vec), vec)
  BY ImportMerges
<1> DEFINE r == import_symtab(st, src)
<1>4. /\ DOMAIN r = TableFields /\ r.vec = vec /\ r.keep_symbols = st.keep_symbols
      /\ r.bytestream_size = st.bytestream_size /\ r.start_addr = st.start_addr
  BY <1>1 DEF IsTable, TableFields
<1> HIDE DEF r
<1>5. IsSequence(vec) /\ Extends(st.vec, vec) /\ \A i \in 1 .. Len(vec) : IsSymbol(vec[i])
  BY <1>1 DEF Merged
<1>6. Within(src.vec, vec)
  BY <1>1 DEF Merged, Within
<1>7. IsTable(r)
  BY <1>4, <1>5 DEF IsTable
<1> QED BY <1>4, <1>5, <1>6, <1>7 DEF Enlarged, r

\* The tables of the first n cards, merged into st.
CardsTo(f, st, imports, n) ==
    f = [k \in 0 .. n |-> IF k = 0 THEN st ELSE import_symtab(f[k - 1], imports[k].symtab)]

LEMMA CardsExist ==
  ASSUME NEW st, NEW imports, NEW n \in Nat
  PROVE  \E f : CardsTo(f, st, imports, n)
<1> DEFINE Sat == {k \in Nat : \E f : CardsTo(f, st, imports, k)}
<1>1. 0 \in Sat
  <2>1. CardsTo([k \in 0 .. 0 |-> st], st, imports, 0)
    BY DEF CardsTo
  <2> QED BY <2>1
<1>2. ASSUME NEW k \in Nat, k \in Sat PROVE k + 1 \in Sat
  <2>1. PICK f : CardsTo(f, st, imports, k)
    BY <1>2
  <2> DEFINE last == import_symtab(f[k], imports[k + 1].symtab)
             g == [i \in 0 .. k + 1 |-> IF i <= k THEN f[i] ELSE last]
             h == [i \in 0 .. k + 1 |->
                      IF i = 0 THEN st ELSE import_symtab(g[i - 1], imports[i].symtab)]
  <2>2. ASSUME NEW i \in 0 .. k + 1 PROVE g[i] = h[i]
    <3>1. CASE i <= k
      <4>1. i \in 0 .. k /\ (i # 0 => i - 1 \in 0 .. k /\ i - 1 \in 0 .. k + 1 /\ i - 1 <= k)
        BY <3>1
      <4>2. g[i] = f[i] /\ (i # 0 => g[i - 1] = f[i - 1])
        BY <3>1, <4>1
      <4>3. f[i] = IF i = 0 THEN st ELSE import_symtab(f[i - 1], imports[i].symtab)
        BY <2>1, <4>1 DEF CardsTo
      <4> QED BY <4>1, <4>2, <4>3
    <3>2. CASE i = k + 1
      BY <3>2
    <3> QED BY <3>1, <3>2
  <2>3. g = h
    BY <2>2
  <2> HIDE DEF last
  <2>4. CardsTo(g, st, imports, k + 1)
    BY <2>3 DEF CardsTo
  <2> HIDE DEF g
  <2> QED BY <2>4
<1> HIDE DEF Sat
<1>3. n \in Sat
  BY <1>1, <1>2, SetInduction
<1> QED BY <1>3 DEF Sat

\* Import cards are records of these fields.
IsCard(c) ==
    /\ DOMAIN c = {"path", "insertion_index", "symtab"}
    /\ IsTable(c.symtab)

LEMMA CardsEnlarge ==
  ASSUME NEW st, IsTable(st), NEW imports, NEW n \in Nat, \A i \in 1 .. n : IsCard(imports[i]),
         NEW f, CardsTo(f, st, imports, n)
  PROVE  Enlarged(st, f[n]) /\ \A i \in 1 .. n : Within(imports[i].symtab.vec, f[n].vec)
<1> DEFINE Good(k) == /\ Enlarged(st, f[k])
                      /\ \A i \in 1 .. k : Within(imports[i].symtab.vec, f[k].vec)
           Sat == {k \in 0 .. n : Good(k)}
<1>1. 0 \in Sat
  <2>1. f[0] = st
    BY DEF CardsTo
  <2>2. Enlarged(st, st)
    BY DEF Enlarged, Extends, IsTable, IsSequence
  <2> QED BY <2>1, <2>2
<1>2. ASSUME NEW k \in 0 .. n - 1, k \in Sat PROVE k + 1 \in Sat
  <2>1. k \in 0 .. n /\ k + 1 \in 0 .. n /\ k + 1 # 0 /\ (k + 1) - 1 = k /\ k + 1 \in 1 .. n
    OBVIOUS
  <2> DEFINE src == imports[k + 1].symtab
  <2>2. f[k + 1] = import_symtab(f[k], src)
    BY <2>1 DEF CardsTo
  <2>3. Good(k)
    BY <1>2
  <2>4. IsTable(f[k]) /\ IsTable(src)
    BY <2>1, <2>3 DEF Enlarged, IsCard
  <2>5. Enlarged(f[k], f[k + 1]) /\ Within(src.vec, f[k + 1].vec)
    BY <2>2, <2>4, ImportEnlarges
  <2>6. Enlarged(st, f[k + 1]) /\ \A w : Within(w, f[k].vec) => Within(w, f[k + 1].vec)
    BY <2>3, <2>5, EnlargedTwice
  <2>7. ASSUME NEW i \in 1 .. k + 1 PROVE Within(imports[i].symtab.vec, f[k + 1].vec)
    <3>1. CASE i = k + 1
      BY <2>5, <3>1
    <3>2. CASE i # k + 1
      <4>1. i \in 1 .. k
        BY <2>1, <3>2
      <4> QED BY <2>3, <2>6, <4>1
    <3> QED BY <3>1, <3>2
  <2> QED BY <2>1, <2>6, <2>7
<1> HIDE DEF Sat
<1>3. 0 .. n \subseteq Sat
  BY <1>1, <1>2, StepInduction
<1> QED BY <1>3 DEF Sat

\* What an Assembler has when its imports are merged: all of its own symbols,
\* where they were, and those of its imports.
LEMMA WithImportsEnlarges ==
  ASSUME NEW a, IsTable(a.symtab), Len(a.imports) \in Nat,
         \A i \in 1 .. Len(a.imports) : IsCard(a.imports[i])
  PROVE  /\ Enlarged(a.symtab, WithImports(a))
         /\ \A i \in 1 .. Len(a.imports) : Within(a.imports[i].symtab.vec, WithImports(a).vec)
<1> DEFINE n == Len(a.imports)
           P(g) == g = [k \in 0 .. n |->
                           IF k = 0 THEN a.symtab ELSE import_symtab(g[k - 1], a.imports[k].symtab)]
           merged == CHOOSE g : P(g)
<1>1. WithImports(a) = merged[n]
  BY DEF WithImports
<1> HIDE DEF n
<1>2. \E g : P(g)
  <2>1. \E g : CardsTo(g, a.symtab, a.imports, n)
    BY CardsExist DEF n
  <2> QED BY <2>1 DEF CardsTo
<1>3. P(merged)
  BY <1>2
<1> HIDE DEF merged
<1>4. CardsTo(merged, a.symtab, a.imports, n)
  BY <1>3 DEF CardsTo
<1>5. /\ Enlarged(a.symtab, merged[n])
      /\ \A i \in 1 .. n : Within(a.imports[i].symtab.vec, merged[n].vec)
  BY <1>4, CardsEnlarge DEF n
<1> QED BY <1>1, <1>5 DEF n

\* A name that is in a table means the same in a larger one.
LEMMA LookupKept ==
  ASSUME NEW st, NEW r, IsTable(st), Enlarged(st, r), NEW i \in 1 .. Len(st.vec)
  PROVE  lookup_symbol(r, st.vec[i].id) = lookup_symbol(st, st.vec[i].id)
<1> DEFINE id == st.vec[i].id
           Named == {k \in 1 .. Len(st.vec) : st.vec[k].id = id}
<1>1. Len(st.vec) \in Nat /\ Len(r.vec) \in Nat
  BY DEF IsTable, Enlarged, IsSequence
<1>2. PICK n \in Named : \A k \in Named : n <= k
  <2>1. Named \subseteq Nat /\ Named # {}
    BY <1>1
  <2> HIDE DEF Named
  <2> QED BY <2>1, LeastElement
<1>3. DOMAIN st.vec = 1 .. Len(st.vec) /\ DOMAIN r.vec = 1 .. Len(r.vec)
  BY AppendKeeps DEF IsTable, Enlarged
<1>4. Len(st.vec) <= Len(r.vec) /\ \A k \in 1 .. Len(st.vec) : r.vec[k] = st.vec[k]
  BY DEF Enlarged, Extends
<1>5. n \in DOMAIN st.vec /\ n \in DOMAIN r.vec /\ n \in Nat /\ st.vec[n].id = id
      /\ r.vec[n] = st.vec[n]
  BY <1>1, <1>2, <1>3, <1>4
<1>6. ASSUME NEW j \in 1 .. n - 1 PROVE st.vec[j].id # id /\ r.vec[j].id # id
  <2>1. j \in 1 .. Len(st.vec) /\ ~(n <= j)
    BY <1>1, <1>2
  <2>2. j \notin Named
    BY <1>2, <2>1
  <2> QED BY <1>4, <2>1, <2>2
<1> DEFINE First(v, k) == /\ v[k].id = id
                          /\ \A j \in 1 .. k - 1 : v[j].id # id
<1>7. First(st.vec, n) /\ First(r.vec, n)
  BY <1>5, <1>6
<1>8. ASSUME NEW k \in DOMAIN st.vec, First(st.vec, k) PROVE k = n
  <2>1. k \in Named /\ k \in Nat
    BY <1>3, <1>8
  <2>2. n <= k /\ ~(n \in 1 .. k - 1)
    BY <1>2, <1>5, <1>8, <2>1
  <2> QED BY <1>5, <2>1, <2>2
<1>9. ASSUME NEW k \in DOMAIN r.vec, First(r.vec, k) PROVE k = n
  <2>1. k \in Nat /\ k >= 1 /\ n >= 1
    BY <1>1, <1>2, <1>3
  <2>2. ~(n \in 1 .. k - 1)
    BY <1>5, <1>9
  <2>3. k <= n
    BY <1>5, <2>1, <2>2
  <2>4. k \in 1 .. Len(st.vec)
    BY <1>1, <1>2, <2>1, <2>3
  <2>5. First(st.vec, k)
    <3>1. \A j \in 1 .. k - 1 : j \in 1 .. Len(st.vec)
      BY <1>1, <2>4
    <3> QED BY <1>4, <1>9, <2>4, <3>1
  <2> QED BY <1>3, <1>8, <2>4, <2>5
<1>10. lookup_symbol(st, id) = st.vec[n]
  <2>1. (CHOOSE k \in DOMAIN st.vec : First(st.vec, k)) = n
    BY <1>5, <1>7, <1>8
  <2> QED BY <2>1 DEF lookup_symbol
<1>11. lookup_symbol(r, id) = r.vec[n]
  <2>1. (CHOOSE k \in DOMAIN r.vec : First(r.vec, k)) = n
    BY <1>5, <1>7, <1>9
  <2> QED BY <2>1 DEF lookup_symbol
<1> QED BY <1>5, <1>10, <1>11

-----------------------------------------------------------------------------
(* The table of the main module, when its imports are merged.              *)

\* w has the names and types of v.
SameNames(v, w) ==
    /\ IsSequence(w) /\ Len(w) = Len(v)
    /\ \A i \in 1 .. Len(w) : IsSymbol(w[i]) /\ w[i].id = v[i].id /\ w[i].type = v[i].type

\* The size a table is given, when its symbols are to be in the file.
Sized(st) == IF st.keep_symbols THEN SizeofSizeT + TextSize(st.vec) ELSE st.bytestream_size

LEMMA SizedByMain ==
  ASSUME NEW st, IsTable(st), NEW fileid
  PROVE  LET r == main_module_serial_size(st, fileid)
         IN  /\ IsTable(r) /\ r.vec = st.vec /\ r.keep_symbols = st.keep_symbols
             /\ r.bytestream_size = Sized(st)
<1> DEFINE q == serial_size(st)
           start == IF st.keep_symbols THEN q.bytestream_size + lookup_symbol(st, <<fileid, "main">>).val ELSE 0
           r == main_module_serial_size(st, fileid)
<1>1. /\ DOMAIN q = TableFields /\ q.vec = st.vec /\ q.keep_symbols = st.keep_symbols
      /\ q.bytestream_size = Sized(st)
  BY DEF IsTable, TableFields, serial_size, Sized
<1> HIDE DEF q
<1>2. r = [q EXCEPT !.start_addr = METADATA_SIZE + start]
  BY DEF main_module_serial_size, q
<1> HIDE DEF start, r
<1>3. /\ DOMAIN r = TableFields /\ r.vec = st.vec /\ r.keep_symbols = st.keep_symbols
      /\ r.bytestream_size = Sized(st)
  BY <1>1, <1>2 DEF TableFields
<1> QED BY <1>3 DEF IsTable, r

\* A table whose vector is another.
LEMMA VectorReplaced ==
  ASSUME NEW st, IsTable(st), NEW w, SameNames(st.vec, w)
  PROVE  LET r == [st EXCEPT !.vec = w]
         IN  /\ IsTable(r) /\ r.vec = w /\ r.keep_symbols = st.keep_symbols
             /\ r.bytestream_size = st.bytestream_size
BY DEF IsTable, TableFields, SameNames

\* A vector rewritten symbol by symbol.
LEMMA MappedNames ==
  ASSUME NEW v, IsSequence(v), NEW w, w = [i \in DOMAIN v |-> w[i]],
         \A i \in 1 .. Len(v) : IsSymbol(w[i]) /\ w[i].id = v[i].id /\ w[i].type = v[i].type
  PROVE  SameNames(v, w)
<1> DEFINE S == {w[i] : i \in 1 .. Len(v)}
<1>1. Len(v) \in Nat /\ DOMAIN v = 1 .. Len(v)
  BY AppendKeeps DEF IsSequence
<1>2. w \in [1 .. Len(v) -> S]
  BY <1>1
<1> HIDE DEF S
<1>3. w \in Seq(S) /\ Len(w) = Len(v)
  BY <1>1, <1>2
<1> QED BY <1>3, SequenceIsSequence DEF SameNames

LEMMA BuiltinsResolved ==
  ASSUME NEW st, IsTable(st), NEW md
  PROVE  LET r == resolve_builtin_symbols(st, md)
         IN  /\ IsTable(r) /\ SameNames(st.vec, r.vec) /\ r.keep_symbols = st.keep_symbols
             /\ r.bytestream_size = st.bytestream_size
<1> DEFINE value == [bi_mem_size |-> md.mem_size, bi_prog_size |-> md.prog_size,
                  bi_instr_count |-> md.instr_count,
                  bi_first_instr_addr |-> md.first_instr_addr,
                  bi_last_instr_addr |-> md.last_instr_addr,
                  bi_first_user_addr |-> md.first_user_byte_addr,
                  bi_symtab_size |-> md.symtab_size]
           New(s) == IF s.type = "ATOM_SYMBOL" THEN Symbol("ATOM_SYMBOL", s.id, "UINT_TYPE", value[s.id[1]]) ELSE s
           v == st.vec
           w == [i \in DOMAIN v |-> New(v[i])]
<1>1. resolve_builtin_symbols(st, md) = [st EXCEPT !.vec = w]
  BY DEF resolve_builtin_symbols
<1> HIDE DEF value
<1>2. ASSUME NEW s, IsSymbol(s) PROVE IsSymbol(New(s)) /\ New(s).id = s.id /\ New(s).type = s.type
  BY <1>2 DEF IsSymbol, Symbol
<1> HIDE DEF New, v
<1>3. IsSequence(v) /\ \A i \in 1 .. Len(v) : IsSymbol(v[i])
  BY DEF IsTable, v
<1>4. DOMAIN v = 1 .. Len(v)
  BY <1>3, AppendKeeps
<1>5. \A i \in 1 .. Len(v) : w[i] = New(v[i])
  BY <1>4
<1>6. w = [i \in DOMAIN v |-> w[i]]
  OBVIOUS
<1> HIDE DEF w
<1>7. SameNames(v, w)
  BY <1>2, <1>3, <1>5, <1>6, MappedNames
<1> QED BY <1>1, <1>7, VectorReplaced DEF v

LEMMA OffsetsAdded ==
  ASSUME NEW st, IsTable(st)
  PROVE  LET r == calc_addr_offsets(st)
         IN  /\ IsTable(r) /\ SameNames(st.vec, r.vec) /\ r.keep_symbols = st.keep_symbols
             /\ r.bytestream_size = st.bytestream_size
<1> DEFINE New(s) == WithOffset(s, AddrOffset(st))
           v == st.vec
           w == [i \in DOMAIN v |-> New(v[i])]
<1>1. calc_addr_offsets(st) = [st EXCEPT !.vec = w]
  BY DEF calc_addr_offsets
<1>2. ASSUME NEW s, IsSymbol(s) PROVE IsSymbol(New(s)) /\ New(s).id = s.id /\ New(s).type = s.type
  BY <1>2 DEF IsSymbol, WithOffset
<1> HIDE DEF New, v
<1>3. IsSequence(v) /\ \A i \in 1 .. Len(v) : IsSymbol(v[i])
  BY DEF IsTable, v
<1>4. DOMAIN v = 1 .. Len(v)
  BY <1>3, AppendKeeps
<1>5. \A i \in 1 .. Len(v) : w[i] = New(v[i])
  BY <1>4
<1>6. w = [i \in DOMAIN v |-> w[i]]
  OBVIOUS
<1> HIDE DEF w
<1>7. SameNames(v, w)
  BY <1>2, <1>3, <1>5, <1>6, MappedNames
<1> QED BY <1>1, <1>7, VectorReplaced DEF v

LEMMA Finalised ==
  ASSUME NEW st, IsTable(st), NEW md
  PROVE  LET r == finalise(st, md)
         IN  /\ IsTable(r) /\ SameNames(st.vec, r.vec) /\ r.keep_symbols = st.keep_symbols
             /\ r.bytestream_size = Sized(st)
<1> DEFINE q == serial_size(st)
           p == resolve_builtin_symbols(q, md)
           r == finalise(st, md)
<1>1. /\ IsTable(q) /\ q.vec = st.vec /\ q.keep_symbols = st.keep_symbols
      /\ q.bytestream_size = Sized(st)
  BY DEF IsTable, TableFields, serial_size, Sized
<1>2. r = calc_addr_offsets(p)
  BY DEF finalise, resolve_all_macros
<1> HIDE DEF q
<1>3. /\ IsTable(p) /\ SameNames(st.vec, p.vec) /\ p.keep_symbols = st.keep_symbols
      /\ p.bytestream_size = Sized(st)
  BY <1>1, BuiltinsResolved
<1> HIDE DEF p, r
<1>4. /\ IsTable(r) /\ SameNames(p.vec, r.vec) /\ r.keep_symbols = st.keep_symbols
      /\ r.bytestream_size = Sized(st)
  BY <1>2, <1>3, OffsetsAdded
<1>5. SameNames(st.vec, r.vec)
  BY <1>3, <1>4 DEF SameNames
<1> QED BY <1>4, <1>5 DEF r

\* What strlen returns.
Lengths == StrayLength \in Nat /\ \A id : IdLength(id) \in Nat

\* The sizes of the first symbols, up to the n-th.
SizesTo(g, v, n) ==
    g = [k \in 0 .. n |-> IF k = 0 THEN 0 ELSE g[k - 1] + SymbolSize(v[k])]

\* The size of the symbols' text is a number.
LEMMA TextSizeIsNumber ==
  ASSUME Lengths, NEW v, Len(v) \in Nat
  PROVE  TextSize(v) \in Nat
<1> DEFINE n == Len(v)
           Add(s, k) == s + SymbolSize(v[k])
           size == CHOOSE g : SizesTo(g, v, n)
           Sat == {m \in Nat : \E g : SizesTo(g, v, m)}
<1>1. TextSize(v) = size[n]
  BY DEF TextSize, SizesTo
<1>2. 0 \in Sat
  <2>1. SizesTo([k \in 0 .. 0 |-> 0], v, 0)
    BY DEF SizesTo
  <2> QED BY <2>1
<1>3. ASSUME NEW m \in Nat, m \in Sat PROVE m + 1 \in Sat
  <2>1. PICK f : SizesTo(f, v, m)
    BY <1>3
  <2> DEFINE g == [i \in 0 .. m + 1 |-> IF i <= m THEN f[i] ELSE Add(f[m], m + 1)]
             h == [i \in 0 .. m + 1 |-> IF i = 0 THEN 0 ELSE Add(g[i - 1], i)]
  <2>2. f = [i \in 0 .. m |-> IF i = 0 THEN 0 ELSE Add(f[i - 1], i)]
    BY <2>1 DEF SizesTo
  <2>3. ASSUME NEW i \in 0 .. m + 1 PROVE g[i] = h[i]
    <3> HIDE DEF Add
    <3>1. CASE i <= m
      <4>1. i \in 0 .. m /\ (i # 0 => i - 1 \in 0 .. m /\ i - 1 \in 0 .. m + 1 /\ i - 1 <= m)
        BY <3>1
      <4>2. g[i] = f[i] /\ (i # 0 => g[i - 1] = f[i - 1])
        BY <3>1, <4>1
      <4>3. f[i] = IF i = 0 THEN 0 ELSE Add(f[i - 1], i)
        BY <2>2, <4>1
      <4> QED BY <4>1, <4>2, <4>3
    <3>2. CASE i = m + 1
      BY <3>2
    <3> QED BY <3>1, <3>2
  <2>4. g = h
    <3> HIDE DEF Add
    <3> QED BY <2>3
  <2> HIDE DEF g
  <2>5. SizesTo(g, v, m + 1)
    BY <2>4 DEF SizesTo
  <2> QED BY <2>5
<1>4. SizesTo(size, v, n)
  <2>1. n \in Sat
    <3> HIDE DEF Sat
    <3> QED BY <1>2, <1>3, SetInduction
  <2> QED BY <2>1
<1> HIDE DEF size, n
<1> DEFINE Good == {k \in 0 .. n : size[k] \in Nat}
<1>5. 0 \in Good
  BY <1>4 DEF n, SizesTo
<1>6. ASSUME NEW k \in 0 .. n - 1, k \in Good PROVE k + 1 \in Good
  <2>1. k + 1 \in 0 .. n /\ k + 1 # 0 /\ (k + 1) - 1 = k
    BY DEF n
  <2>2. size[k + 1] = size[k] + SymbolSize(v[k + 1])
    BY <1>4, <2>1 DEF SizesTo
  <2>3. size[k] \in Nat /\ SymbolSize(v[k + 1]) \in Nat
    BY <1>6 DEF Lengths, SymbolSize, SizeofSymbol
  <2> QED BY <2>1, <2>2, <2>3
<1>7. 0 .. n \subseteq Good
  <2> HIDE DEF Good
  <2> QED BY <1>5, <1>6, StepInduction DEF n
<1> QED BY <1>1, <1>7 DEF n

-----------------------------------------------------------------------------
(* What After computes.                                                    *)

\* The steps After is used with.  An operator cannot be the parameter of a lemma
\* that a prover is to use: their kind is, and what they need besides is in c.
Stepped(kind, c, s, x) ==
    CASE kind = "token"   -> CountToken(s, x)
      [] kind = "operand" -> CountNext(c, s)
      [] kind = "resolve" -> ResolveToken(s, x, c.st, c.fileid)
      [] kind = "until"   -> EvalNext(s, c)
      [] kind = "next"    -> ResolveNext(s, c)

\* The sets of one in After, and the states in them.
Walk(g, kind, c, start, seq, n) ==
    g = [k \in 0 .. n |->
            IF k = 0 THEN {start}
            ELSE {IF s.stop = "no" THEN Stepped(kind, c, s, seq[k]) ELSE s : s \in g[k - 1]}]

Path(f, kind, c, start, seq, n) ==
    /\ f[0] = start
    /\ \A k \in 1 .. n :
          f[k] = IF f[k - 1].stop = "no" THEN Stepped(kind, c, f[k - 1], seq[k]) ELSE f[k - 1]

LEMMA WalkExists ==
  ASSUME NEW kind, NEW c, NEW start, NEW seq, NEW n \in Nat
  PROVE  \E g : Walk(g, kind, c, start, seq, n)
<1> DEFINE Sat == {k \in Nat : \E g : Walk(g, kind, c, start, seq, k)}
           Next1(S, k) == {IF s.stop = "no" THEN Stepped(kind, c, s, seq[k]) ELSE s : s \in S}
<1>1. 0 \in Sat
  <2>1. Walk([k \in 0 .. 0 |-> {start}], kind, c, start, seq, 0)
    BY DEF Walk
  <2> QED BY <2>1
<1>2. ASSUME NEW k \in Nat, k \in Sat PROVE k + 1 \in Sat
  <2>1. PICK f : Walk(f, kind, c, start, seq, k)
    BY <1>2
  <2> DEFINE last == Next1(f[k], k + 1)
             g == [i \in 0 .. k + 1 |-> IF i <= k THEN f[i] ELSE last]
             h == [i \in 0 .. k + 1 |-> IF i = 0 THEN {start} ELSE Next1(g[i - 1], i)]
  <2>2. f = [i \in 0 .. k |-> IF i = 0 THEN {start} ELSE Next1(f[i - 1], i)]
    BY <2>1 DEF Walk
  <2>3. ASSUME NEW i \in 0 .. k + 1 PROVE g[i] = h[i]
    <3> HIDE DEF Next1
    <3>1. CASE i <= k
      <4>1. i \in 0 .. k /\ (i # 0 => i - 1 \in 0 .. k /\ i - 1 \in 0 .. k + 1 /\ i - 1 <= k)
        BY <3>1
      <4>2. g[i] = f[i] /\ (i # 0 => g[i - 1] = f[i - 1])
        BY <3>1, <4>1
      <4>3. f[i] = IF i = 0 THEN {start} ELSE Next1(f[i - 1], i)
        BY <2>2, <4>1
      <4> QED BY <4>1, <4>2, <4>3
    <3>2. CASE i = k + 1
      BY <3>2
    <3> QED BY <3>1, <3>2
  <2>4. g = h
    <3> HIDE DEF Next1
    <3> QED BY <2>3
  <2> HIDE DEF last
  <2>5. Walk(g, kind, c, start, seq, k + 1)
    BY <2>4 DEF Walk
  <2> HIDE DEF g
  <2> QED BY <2>5
<1> HIDE DEF Sat
<1>3. n \in Sat
  BY <1>1, <1>2, SetInduction
<1> QED BY <1>3 DEF Sat

\* The states end in the only element of S.
Leads(S, kind, c, start, seq, n) == \E f : Path(f, kind, c, start, seq, n) /\ S = {f[n]}

LEMMA WalkIsPath ==
  ASSUME NEW kind, NEW c, NEW start, NEW seq, NEW n \in Nat, NEW g, Walk(g, kind, c, start, seq, n)
  PROVE  Leads(g[n], kind, c, start, seq, n)
<1> DEFINE f == [k \in 0 .. n |-> CHOOSE s \in g[k] : TRUE]
           Then(s, k) == IF s.stop = "no" THEN Stepped(kind, c, s, seq[k]) ELSE s
           Sat == {k \in 0 .. n : g[k] = {f[k]} /\ (k # 0 => f[k] = Then(f[k - 1], k))}
<1>1. g[0] = {start} /\ \A k \in 1 .. n : g[k] = {Then(s, k) : s \in g[k - 1]}
  <2>1. g[0] = {start}
    BY DEF Walk
  <2>2. ASSUME NEW k \in 1 .. n PROVE g[k] = {Then(s, k) : s \in g[k - 1]}
    <3>1. k \in 0 .. n /\ k # 0
      OBVIOUS
    <3> DEFINE W(i) == IF i = 0 THEN {start} ELSE {Then(s, i) : s \in g[i - 1]}
    <3>2. g = [i \in 0 .. n |-> W(i)]
      BY DEF Walk
    <3> HIDE DEF Then
    <3>3. g[k] = W(k)
      BY <3>1, <3>2
    <3> QED BY <3>1, <3>3
  <2> QED BY <2>1, <2>2
<1> HIDE DEF Then
<1>2. 0 \in Sat /\ f[0] = start
  BY <1>1
<1>3. ASSUME NEW k \in 0 .. n - 1, k \in Sat PROVE k + 1 \in Sat
  <2>1. k + 1 \in 1 .. n /\ k + 1 \in 0 .. n /\ (k + 1) - 1 = k /\ k + 1 # 0
    OBVIOUS
  <2>2. g[k] = {f[k]}
    BY <1>3
  <2>3. g[k + 1] = {Then(s, k + 1) : s \in g[k]}
    BY <1>1, <2>1
  <2>4. g[k + 1] = {Then(f[k], k + 1)}
    <3> HIDE DEF f
    <3> QED BY <2>2, <2>3
  <2>5. f[k + 1] = Then(f[k], k + 1)
    BY <2>1, <2>4
  <2> HIDE DEF f
  <2> QED BY <2>1, <2>4, <2>5
<1>4. 0 .. n \subseteq Sat
  <2> HIDE DEF Sat
  <2> QED BY <1>2, <1>3, StepInduction
<1>5. g[n] = {f[n]} /\ \A k \in 1 .. n : f[k] = Then(f[k - 1], k)
  <2> HIDE DEF f
  <2> QED BY <1>4
<1> HIDE DEF f
<1>6. Path(f, kind, c, start, seq, n)
  BY <1>2, <1>5 DEF Path, Then
<1> QED BY <1>5, <1>6 DEF Leads

LEMMA TokensWalked ==
  ASSUME NEW start, NEW seq, Len(seq) \in Nat
  PROVE  \E f : /\ Path(f, "token", 0, start, seq, Len(seq))
                /\ After(CountToken, start, seq) = f[Len(seq)]
<1> DEFINE n == Len(seq)
           P(g) == g = [k \in 0 .. n |->
                          IF k = 0 THEN {start}
                          ELSE {IF s.stop = "no" THEN CountToken(s, seq[k]) ELSE s : s \in g[k - 1]}]
           states == CHOOSE g : P(g)
<1>1. After(CountToken, start, seq) = CHOOSE s \in states[n] : TRUE
  BY DEF After
<1>2. ASSUME NEW g PROVE P(g) <=> Walk(g, "token", 0, start, seq, n)
  <2>1. \A s, x : Stepped("token", 0, s, x) = CountToken(s, x)
    BY DEF Stepped
  <2> QED BY <2>1 DEF Walk
<1> HIDE DEF n
<1>3. \E g : P(g)
  BY <1>2, WalkExists DEF n
<1>4. P(states)
  BY <1>3
<1> HIDE DEF states
<1>5. PICK f : Path(f, "token", 0, start, seq, n) /\ states[n] = {f[n]}
  <2>1. Walk(states, "token", 0, start, seq, n) /\ n \in Nat
    BY <1>2, <1>4 DEF n
  <2>2. Leads(states[n], "token", 0, start, seq, n)
    BY <2>1, WalkIsPath
  <2> QED BY <2>2 DEF Leads
<1>6. After(CountToken, start, seq) = f[n]
  BY <1>1, <1>5
<1> QED BY <1>5, <1>6 DEF n

LEMMA OperandsWalked ==
  ASSUME NEW toks, NEW n, NEW count \in Nat
  PROVE  \E f : /\ Path(f, "operand", toks, [n |-> n + 1, line |-> toks[n].line, stop |-> "no"],
                        [k \in 1 .. count |-> k], count)
                /\ CountOperands(toks, n, count) = f[count]
<1> DEFINE start == [n |-> n + 1, line |-> toks[n].line, stop |-> "no"]
           seq == [k \in 1 .. count |-> k]
           P(g) == g = [k \in 0 .. Len(seq) |->
                          IF k = 0 THEN {start}
                          ELSE {IF s.stop = "no" THEN CountNext(toks, s) ELSE s : s \in g[k - 1]}]
           states == CHOOSE g : P(g)
<1>1. CountOperands(toks, n, count) = CHOOSE s \in states[Len(seq)] : TRUE
  BY DEF CountOperands, After
<1>2. Len(seq) = count
  <2>1. seq \in [1 .. count -> Nat]
    OBVIOUS
  <2> HIDE DEF seq
  <2> QED BY <2>1
<1> HIDE DEF start, seq
<1>3. ASSUME NEW g PROVE P(g) <=> Walk(g, "operand", toks, start, seq, count)
  <2>1. \A s, x : Stepped("operand", toks, s, x) = CountNext(toks, s)
    BY DEF Stepped
  <2> QED BY <1>2, <2>1 DEF Walk
<1>4. \E g : P(g)
  BY <1>3, WalkExists
<1>5. P(states)
  BY <1>4
<1> HIDE DEF states
<1>6. PICK f : Path(f, "operand", toks, start, seq, count) /\ states[count] = {f[count]}
  <2>1. Walk(states, "operand", toks, start, seq, count)
    BY <1>3, <1>5
  <2>2. Leads(states[count], "operand", toks, start, seq, count)
    BY <2>1, WalkIsPath
  <2> QED BY <2>2 DEF Leads
<1>7. CountOperands(toks, n, count) = f[count]
  BY <1>1, <1>2, <1>6
<1> QED BY <1>6, <1>7 DEF start, seq

LEMMA EvaluationWalked ==
  ASSUME NEW r, NEW type, Len(r.ops) \in Nat
  PROVE  \E f : /\ Path(f, "until", type, r, r.ops, Len(r.ops))
                /\ EvalUntil(r, type) = [f[Len(r.ops)] EXCEPT !.found = FALSE]
<1> DEFINE seq == r.ops
           n == Len(seq)
           P(g) == g = [k \in 0 .. Len(seq) |->
                          IF k = 0 THEN {r}
                          ELSE {IF s.stop = "no" THEN EvalNext(s, type) ELSE s : s \in g[k - 1]}]
           states == CHOOSE g : P(g)
<1>1. EvalUntil(r, type) = [(CHOOSE s \in states[n] : TRUE) EXCEPT !.found = FALSE]
  BY DEF EvalUntil, After
<1> HIDE DEF seq
<1>3. ASSUME NEW g PROVE P(g) <=> Walk(g, "until", type, r, seq, n)
  <2>1. \A s, x : Stepped("until", type, s, x) = EvalNext(s, type)
    BY DEF Stepped
  <2> QED BY <2>1 DEF Walk
<1>4. \E g : P(g)
  BY <1>3, WalkExists DEF seq
<1>5. P(states)
  BY <1>4
<1> HIDE DEF states
<1>6. PICK f : Path(f, "until", type, r, seq, n) /\ states[n] = {f[n]}
  <2>1. Walk(states, "until", type, r, seq, n) /\ n \in Nat
    BY <1>3, <1>5 DEF seq
  <2>2. Leads(states[n], "until", type, r, seq, n)
    BY <2>1, WalkIsPath
  <2> QED BY <2>2 DEF Leads
<1>7. EvalUntil(r, type) = [f[n] EXCEPT !.found = FALSE]
  BY <1>1, <1>6
<1> QED BY <1>6, <1>7 DEF seq

\* The start of the evaluation of an operand, and what it is before the end.
ResolveStart(n) ==
    [n |-> n, stop |-> "no", ops |-> <<>>, vals |-> <<>>, parsed |-> 0, last_is_value |-> FALSE,
     inside_paren |-> FALSE, inside_offset |-> FALSE, found |-> FALSE]

LEMMA ResolveWalked ==
  ASSUME NEW toks, NEW n, NEW st, NEW fileid, Len(SubSeq(toks, n + 1, Len(toks))) \in Nat
  PROVE  LET seq == SubSeq(toks, n + 1, Len(toks))
         IN  \E f : /\ Path(f, "resolve", [st |-> st, fileid |-> fileid], ResolveStart(n), seq, Len(seq))
                    /\ resolve_uint_operand(toks, n, st, fileid) = Resolved(f[Len(seq)])
<1> DEFINE seq == SubSeq(toks, n + 1, Len(toks))
           c == [st |-> st, fileid |-> fileid]
           start == ResolveStart(n)
           len == Len(seq)
           P(g) == g = [k \in 0 .. Len(seq) |->
                          IF k = 0 THEN {start}
                          ELSE {IF s.stop = "no" THEN ResolveToken(s, seq[k], st, fileid) ELSE s : s \in g[k - 1]}]
           states == CHOOSE g : P(g)
<1>1. resolve_uint_operand(toks, n, st, fileid) = Resolved(CHOOSE s \in states[len] : TRUE)
  BY DEF resolve_uint_operand, After, ResolveStart
<1> HIDE DEF seq, start
<1>3. ASSUME NEW g PROVE P(g) <=> Walk(g, "resolve", c, start, seq, len)
  <2>1. \A s, x : Stepped("resolve", c, s, x) = ResolveToken(s, x, st, fileid)
    BY DEF Stepped
  <2> HIDE DEF c
  <2> QED BY <2>1 DEF Walk
<1> HIDE DEF c
<1>4. \E g : P(g)
  BY <1>3, WalkExists DEF seq
<1>5. P(states)
  BY <1>4
<1> HIDE DEF states
<1>6. PICK f : Path(f, "resolve", c, start, seq, len) /\ states[len] = {f[len]}
  <2>1. Walk(states, "resolve", c, start, seq, len) /\ len \in Nat
    BY <1>3, <1>5 DEF seq
  <2>2. Leads(states[len], "resolve", c, start, seq, len)
    BY <2>1, WalkIsPath
  <2> QED BY <2>2 DEF Leads
<1>7. resolve_uint_operand(toks, n, st, fileid) = Resolved(f[len])
  BY <1>1, <1>6
<1> QED BY <1>6, <1>7 DEF seq, start, c

LEMMA NextWalked ==
  ASSUME NEW n, NEW count \in Nat
  PROVE  \E f : /\ Path(f, "next", count, [n |-> n, stop |-> "no", vals |-> <<>>],
                        [k \in 1 .. count |-> k], count)
                /\ ResolveOperands(n, count) = f[count]
<1> DEFINE start == [n |-> n, stop |-> "no", vals |-> <<>>]
           seq == [k \in 1 .. count |-> k]
           P(g) == g = [k \in 0 .. Len(seq) |->
                          IF k = 0 THEN {start}
                          ELSE {IF s.stop = "no" THEN ResolveNext(s, count) ELSE s : s \in g[k - 1]}]
           states == CHOOSE g : P(g)
<1>1. ResolveOperands(n, count) = CHOOSE s \in states[Len(seq)] : TRUE
  BY DEF ResolveOperands, After
<1>2. Len(seq) = count
  <2>1. seq \in [1 .. count -> Nat]
    OBVIOUS
  <2> HIDE DEF seq
  <2> QED BY <2>1
<1> HIDE DEF start, seq
<1>3. ASSUME NEW g PROVE P(g) <=> Walk(g, "next", count, start, seq, count)
  <2>1. \A s, x : Stepped("next", count, s, x) = ResolveNext(s, count)
    BY DEF Stepped
  <2> QED BY <1>2, <2>1 DEF Walk
<1>4. \E g : P(g)
  BY <1>3, WalkExists
<1>5. P(states)
  BY <1>4
<1> HIDE DEF states
<1>6. PICK f : Path(f, "next", count, start, seq, count) /\ states[count] = {f[count]}
  <2>1. Walk(states, "next", count, start, seq, count)
    BY <1>3, <1>5
  <2>2. Leads(states[count], "next", count, start, seq, count)
    BY <2>1, WalkIsPath
  <2> QED BY <2>2 DEF Leads
<1>7. ResolveOperands(n, count) = f[count]
  BY <1>1, <1>2, <1>6
<1> QED BY <1>6, <1>7 DEF start, seq

-----------------------------------------------------------------------------
(* The counting of operands.                                               *)

\* The rest of a sequence, from its n-th element.
LEMMA RestOf ==
  ASSUME NEW toks, IsSequence(toks), NEW n \in 1 .. Len(toks) + 1
  PROVE  LET seq == SubSeq(toks, n, Len(toks))
         IN  Len(seq) = Len(toks) - n + 1 /\ \A k \in 1 .. Len(seq) : seq[k] = toks[n + k - 1]
<1> DEFINE S == {toks[i] : i \in 1 .. Len(toks)}
           seq == SubSeq(toks, n, Len(toks))
<1>1. Len(toks) \in Nat /\ toks \in Seq(S)
  BY DEF IsSequence
<1>2. \A k \in n .. Len(toks) : toks[k] \in S
  BY <1>1
<1> HIDE DEF S, seq
<1>3. /\ seq \in Seq(S)
      /\ Len(seq) = IF n <= Len(toks) THEN Len(toks) - n + 1 ELSE 0
      /\ \A k \in 1 .. Len(toks) - n + 1 : seq[k] = toks[n + k - 1]
  BY <1>1, <1>2, SubSeqProperties DEF seq
<1>4. Len(seq) = Len(toks) - n + 1
  BY <1>1, <1>3
<1> QED BY <1>3, <1>4 DEF seq

IsCount(s) ==
    /\ s = [n |-> s.n, line |-> s.line, stop |-> s.stop, value_hit |-> s.value_hit,
            inside_expr |-> s.inside_expr, inside_parens |-> s.inside_parens,
            inside_brackets |-> s.inside_brackets]
    /\ s.n \in Nat

\* What one more token does to the search: it passes, or ends it.
Searched(s, tk, r) ==
    /\ IsCount(r)
    /\ \/ r.stop = "no" /\ r.n = s.n + 1 /\ tk.type \notin Starts
       \/ r.stop \in {"end", "exit"} /\ r.n = s.n
       \/ r.stop = "end" /\ r.n = s.n + 1 /\ tk.type = "EXPREND_TOK"

LEMMA PassSearches ==
  ASSUME NEW s, IsCount(s), NEW tk
  PROVE  /\ IsCount(Pass(s)) /\ Pass(s).n = s.n + 1 /\ Pass(s).stop = s.stop
         /\ \A how : /\ IsCount(Halt(s, tk, how)) /\ Halt(s, tk, how).n = s.n
                      /\ Halt(s, tk, how).stop = how
                      /\ IsCount(Halt(Pass(s), tk, how)) /\ Halt(Pass(s), tk, how).n = s.n + 1
                      /\ Halt(Pass(s), tk, how).stop = how
<1>1. s = [n |-> s.n, line |-> s.line, stop |-> s.stop, value_hit |-> s.value_hit,
           inside_expr |-> s.inside_expr, inside_parens |-> s.inside_parens,
           inside_brackets |-> s.inside_brackets] /\ s.n \in Nat
  BY DEF IsCount
<1>2. Pass(s) = [n |-> s.n + 1, line |-> s.line, stop |-> s.stop, value_hit |-> s.value_hit,
                 inside_expr |-> s.inside_expr, inside_parens |-> s.inside_parens,
                 inside_brackets |-> s.inside_brackets]
  BY <1>1 DEF Pass
<1>3. ASSUME NEW q, IsCount(q), NEW how
      PROVE  Halt(q, tk, how) = [n |-> q.n, line |-> tk.line, stop |-> how, value_hit |-> q.value_hit,
                 inside_expr |-> q.inside_expr, inside_parens |-> q.inside_parens,
                 inside_brackets |-> q.inside_brackets]
  <2>1. q = [n |-> q.n, line |-> q.line, stop |-> q.stop, value_hit |-> q.value_hit,
             inside_expr |-> q.inside_expr, inside_parens |-> q.inside_parens,
             inside_brackets |-> q.inside_brackets]
    BY <1>3 DEF IsCount
  <2> DEFINE h == [q EXCEPT !.stop = how]
  <2>2. h = [n |-> q.n, line |-> q.line, stop |-> how, value_hit |-> q.value_hit,
             inside_expr |-> q.inside_expr, inside_parens |-> q.inside_parens,
             inside_brackets |-> q.inside_brackets]
    BY <2>1
  <2>3. Halt(q, tk, how) = [h EXCEPT !.line = tk.line]
    BY DEF Halt
  <2> HIDE DEF h
  <2> QED BY <2>2, <2>3
<1>4. IsCount(Pass(s)) /\ Pass(s).n = s.n + 1 /\ Pass(s).stop = s.stop
  BY <1>1, <1>2 DEF IsCount
<1>5. ASSUME NEW q, IsCount(q), NEW how
      PROVE  IsCount(Halt(q, tk, how)) /\ Halt(q, tk, how).n = q.n /\ Halt(q, tk, how).stop = how
  BY <1>3, <1>5 DEF IsCount
<1> QED BY <1>4, <1>5

LEMMA CountChanges ==
  ASSUME NEW p, IsCount(p), NEW b
  PROVE  /\ LET q == [p EXCEPT !.value_hit = b] IN IsCount(q) /\ q.n = p.n /\ q.stop = p.stop
         /\ LET q == [p EXCEPT !.inside_expr = b] IN IsCount(q) /\ q.n = p.n /\ q.stop = p.stop
         /\ LET q == [p EXCEPT !.inside_parens = b] IN IsCount(q) /\ q.n = p.n /\ q.stop = p.stop
         /\ LET q == [p EXCEPT !.inside_brackets = b] IN IsCount(q) /\ q.n = p.n /\ q.stop = p.stop
<1>1. PICK n, line, stop, hit, expr, parens, brackets :
          p = [n |-> n, line |-> line, stop |-> stop, value_hit |-> hit, inside_expr |-> expr,
               inside_parens |-> parens, inside_brackets |-> brackets]
  BY DEF IsCount
<1>2. /\ [p EXCEPT !.value_hit = b] =
           [n |-> n, line |-> line, stop |-> stop, value_hit |-> b, inside_expr |-> expr,
            inside_parens |-> parens, inside_brackets |-> brackets]
      /\ [p EXCEPT !.inside_expr = b] =
           [n |-> n, line |-> line, stop |-> stop, value_hit |-> hit, inside_expr |-> b,
            inside_parens |-> parens, inside_brackets |-> brackets]
      /\ [p EXCEPT !.inside_parens = b] =
           [n |-> n, line |-> line, stop |-> stop, value_hit |-> hit, inside_expr |-> expr,
            inside_parens |-> b, inside_brackets |-> brackets]
      /\ [p EXCEPT !.inside_brackets = b] =
           [n |-> n, line |-> line, stop |-> stop, value_hit |-> hit, inside_expr |-> expr,
            inside_parens |-> parens, inside_brackets |-> b]
  BY <1>1
<1>3. n \in Nat /\ p.n = n /\ p.stop = stop
  BY <1>1 DEF IsCount
<1> QED BY <1>2, <1>3 DEF IsCount

LEMMA CountTokenSearches ==
  ASSUME NEW s, IsCount(s), s.stop = "no", NEW tk
  PROVE  Searched(s, tk, CountToken(s, tk))
<1> DEFINE r == CountToken(s, tk)
           Step(q) == q.stop = "no" /\ q.n = s.n + 1 /\ IsCount(q)
<1>1. /\ Step(Pass(s))
      /\ \A how : /\ IsCount(Halt(s, tk, how)) /\ Halt(s, tk, how).n = s.n
                   /\ Halt(s, tk, how).stop = how
                   /\ IsCount(Halt(Pass(s), tk, how)) /\ Halt(Pass(s), tk, how).n = s.n + 1
                   /\ Halt(Pass(s), tk, how).stop = how
  BY PassSearches
<1>2. ASSUME NEW q, Step(q)
      PROVE  /\ Step([q EXCEPT !.inside_expr = TRUE])
             /\ Step([q EXCEPT !.inside_expr = TRUE, !.inside_parens = TRUE])
             /\ Step([q EXCEPT !.inside_expr = TRUE, !.inside_brackets = TRUE])
             /\ Step([q EXCEPT !.inside_brackets = FALSE])
             /\ Step([q EXCEPT !.value_hit = TRUE])
  <2>1. ASSUME NEW p, Step(p)
        PROVE  /\ Step([p EXCEPT !.inside_expr = TRUE])
               /\ Step([p EXCEPT !.inside_parens = TRUE])
               /\ Step([p EXCEPT !.inside_brackets = TRUE])
               /\ Step([p EXCEPT !.inside_brackets = FALSE])
               /\ Step([p EXCEPT !.value_hit = TRUE])
    <3> HIDE DEF Step
    <3>1. IsCount(p) /\ p.n = s.n + 1 /\ p.stop = "no"
      BY <2>1 DEF Step
    <3>2. ASSUME NEW b
          PROVE  /\ Step([p EXCEPT !.inside_expr = b])
                 /\ Step([p EXCEPT !.inside_parens = b])
                 /\ Step([p EXCEPT !.inside_brackets = b])
                 /\ Step([p EXCEPT !.value_hit = b])
      <4> DEFINE q1 == [p EXCEPT !.value_hit = b]
                 q2 == [p EXCEPT !.inside_expr = b]
                 q3 == [p EXCEPT !.inside_parens = b]
                 q4 == [p EXCEPT !.inside_brackets = b]
      <4>1. /\ IsCount(q1) /\ q1.n = p.n /\ q1.stop = p.stop
            /\ IsCount(q2) /\ q2.n = p.n /\ q2.stop = p.stop
            /\ IsCount(q3) /\ q3.n = p.n /\ q3.stop = p.stop
            /\ IsCount(q4) /\ q4.n = p.n /\ q4.stop = p.stop
        BY <3>1, CountChanges
      <4> HIDE DEF q1, q2, q3, q4
      <4>2. Step(q1) /\ Step(q2) /\ Step(q3) /\ Step(q4)
        BY <3>1, <4>1 DEF Step
      <4> QED BY <4>2 DEF q1, q2, q3, q4
    <3> QED BY <3>2
  <2> DEFINE e == [q EXCEPT !.inside_expr = TRUE]
  <2>2. Step(e)
    BY <1>2, <2>1
  <2>3. /\ [q EXCEPT !.inside_expr = TRUE, !.inside_parens = TRUE] = [e EXCEPT !.inside_parens = TRUE]
        /\ [q EXCEPT !.inside_expr = TRUE, !.inside_brackets = TRUE] = [e EXCEPT !.inside_brackets = TRUE]
    OBVIOUS
  <2> HIDE DEF Step
  <2>4. Step([e EXCEPT !.inside_parens = TRUE]) /\ Step([e EXCEPT !.inside_brackets = TRUE])
    <3> HIDE DEF e
    <3> QED BY <2>1, <2>2
  <2> QED BY <1>2, <2>1, <2>3, <2>4
<1> DEFINE p == Pass(s)
<1>20. /\ Step([p EXCEPT !.inside_expr = TRUE])
       /\ Step([p EXCEPT !.inside_expr = TRUE, !.inside_parens = TRUE])
       /\ Step([p EXCEPT !.inside_expr = TRUE, !.inside_brackets = TRUE])
       /\ Step([p EXCEPT !.inside_brackets = FALSE])
       /\ Step([p EXCEPT !.value_hit = TRUE])
  <2> HIDE DEF p, Step
  <2> QED BY <1>1, <1>2 DEF p
<1>3. CASE tk.type \in Starts
  <2>1. r = CountStart(s, tk)
    BY <1>3 DEF CountToken, Starts, Counted, Operators
  <2> QED BY <1>1, <2>1 DEF CountStart, Searched
<1>4. CASE tk.type \in Counted
  <2>1. r = CountValue(s, tk) /\ tk.type \notin Starts
    BY <1>4 DEF CountToken, Starts, Counted, Operators
  <2> QED BY <1>1, <1>20, <2>1 DEF CountValue, Searched
<1>5. CASE tk.type = "EXPREND_TOK"
  <2>1. r = CountExprEnd(s, tk)
    BY <1>5 DEF CountToken, Starts, Counted, Operators
  <2> QED BY <1>1, <1>5, <2>1 DEF CountExprEnd, Searched
<1>6. CASE tk.type \in Operators
  <2>1. r = [Pass(s) EXCEPT !.inside_expr = TRUE] /\ tk.type \notin Starts
    BY <1>6 DEF CountToken, Starts, Counted, Operators
  <2> QED BY <1>1, <1>20, <2>1 DEF Searched
<1>7. CASE tk.type = "RPRN_TOK"
  <2>1. r = CountParen(s, tk) /\ tk.type \notin Starts
    BY <1>7 DEF CountToken, Starts, Counted, Operators
  <2> QED BY <1>1, <2>1 DEF CountParen, Searched
<1>8. CASE tk.type = "RBRKTOP_TOK"
  <2>1. r = CountBracket(s, tk) /\ tk.type \notin Starts
    BY <1>8 DEF CountToken, Starts, Counted, Operators
  <2> QED BY <1>1, <1>20, <2>1 DEF CountBracket, Searched
<1>9. CASE tk.type = "LPRN_TOK"
  <2>1. r = [Pass(s) EXCEPT !.inside_expr = TRUE, !.inside_parens = TRUE] /\ tk.type \notin Starts
    BY <1>9 DEF CountToken, Starts, Counted, Operators
  <2> QED BY <1>1, <1>20, <2>1 DEF Searched
<1>10. CASE tk.type = "LBRKTOP_TOK"
  <2>1. r = [Pass(s) EXCEPT !.inside_expr = TRUE, !.inside_brackets = TRUE] /\ tk.type \notin Starts
    BY <1>10 DEF CountToken, Starts, Counted, Operators
  <2> QED BY <1>1, <1>20, <2>1 DEF Searched
<1>11. CASE /\ tk.type \notin Starts /\ tk.type \notin Counted /\ tk.type # "EXPREND_TOK"
            /\ tk.type \notin Operators /\ tk.type # "RPRN_TOK" /\ tk.type # "RBRKTOP_TOK"
            /\ tk.type # "LPRN_TOK" /\ tk.type # "LBRKTOP_TOK"
  <2>1. r = Pass(s)
    BY <1>11 DEF CountToken
  <2> QED BY <1>1, <1>11, <2>1 DEF Searched
<1> QED BY <1>3, <1>4, <1>5, <1>6, <1>7, <1>8, <1>9, <1>10, <1>11

\* The search is at c, having begun at n: no token that starts a statement was
\* passed, and only the end of an expression can be the last of the stream.
Between(toks, n, c) ==
    /\ IsCount(c) /\ c.n \in n .. Len(toks) + 1
    /\ \A m \in n .. c.n - 1 : toks[m].type \notin Starts
    /\ c.stop = "end" => c.n <= Len(toks) \/ (c.n > n /\ toks[c.n - 1].type = "EXPREND_TOK")

LEMMA CountSearch ==
  ASSUME NEW toks, IsSequence(toks), NEW n \in 1 .. Len(toks) + 1, NEW line
  PROVE  LET c == count_uint_operand(toks, n, line)
         IN  Between(toks, n, c) /\ c.stop \in {"end", "exit", "exception"}
<1> DEFINE start == [n |-> n, line |-> line, stop |-> "no", value_hit |-> FALSE,
                     inside_expr |-> FALSE, inside_parens |-> FALSE, inside_brackets |-> FALSE]
           seq == SubSeq(toks, n, Len(toks))
           len == Len(seq)
           last == After(CountToken, start, seq)
<1>1. Len(toks) \in Nat /\ n \in Nat /\ len \in Nat /\ n + len = Len(toks) + 1
      /\ \A k \in 1 .. len : seq[k] = toks[n + k - 1]
  <2>1. Len(toks) \in Nat /\ n \in Nat /\ n <= Len(toks) + 1
    BY DEF IsSequence
  <2>2. len = Len(toks) - n + 1 /\ \A k \in 1 .. len : seq[k] = toks[n + k - 1]
    BY RestOf
  <2> HIDE DEF seq, len
  <2> QED BY <2>1, <2>2
<1>2. IsCount(start) /\ start.n = n /\ start.stop = "no"
  BY <1>1 DEF IsCount
<1> HIDE DEF start, seq
<1>3. PICK f : Path(f, "token", 0, start, seq, len) /\ last = f[len]
  BY <1>1, TokensWalked
<1> HIDE DEF len, last
<1> DEFINE G(k, s) ==
               /\ IsCount(s) /\ s.n \in n .. n + k /\ s.stop \in {"no", "end", "exit"}
               /\ s.stop = "no" => s.n = n + k
               /\ \A m \in n .. s.n - 1 : toks[m].type \notin Starts
               /\ s.stop = "end" =>
                     s.n < n + k \/ (s.n = n + k /\ s.n > n /\ toks[s.n - 1].type = "EXPREND_TOK")
           Sat == {k \in 0 .. len : G(k, f[k])}
<1>4. 0 \in Sat
  <2>1. f[0] = start
    BY <1>3 DEF Path
  <2> QED BY <1>1, <1>2, <2>1
<1>5. ASSUME NEW k \in 0 .. len - 1, k \in Sat PROVE k + 1 \in Sat
  <2>1. k + 1 \in 1 .. len /\ k + 1 \in 0 .. len /\ (k + 1) - 1 = k
    BY <1>1
  <2>2. f[k + 1] = IF f[k].stop = "no" THEN CountToken(f[k], seq[k + 1]) ELSE f[k]
    BY <1>3, <2>1 DEF Path, Stepped
  <2>3. G(k, f[k])
    BY <1>5
  <2> DEFINE s == f[k]
             r == f[k + 1]
             tk == toks[n + k]
  <2>4. CASE s.stop # "no"
    <3>1. r = s
      BY <2>2, <2>4
    <3> HIDE DEF r, s
    <3>2. /\ IsCount(s) /\ s.n \in n .. n + k /\ s.stop \in {"end", "exit"}
          /\ \A m \in n .. s.n - 1 : toks[m].type \notin Starts
          /\ s.stop = "end" =>
                s.n < n + k \/ (s.n = n + k /\ s.n > n /\ toks[s.n - 1].type = "EXPREND_TOK")
      BY <2>3, <2>4 DEF s
    <3>3. s.n \in n .. n + (k + 1) /\ s.n < n + (k + 1)
      BY <1>1, <2>1, <3>2
    <3> QED BY <2>1, <2>4, <3>1, <3>2, <3>3 DEF r, s
  <2>5. CASE s.stop = "no"
    <3>1. seq[k + 1] = tk
      <4>1. n + (k + 1) - 1 = n + k
        BY <1>1
      <4> QED BY <1>1, <2>1, <4>1
    <3>2. Searched(s, tk, r)
      BY <2>2, <2>3, <2>5, <3>1, CountTokenSearches
    <3> HIDE DEF r, s
    <3>3. IsCount(r) /\ s.n = n + k
      BY <2>3, <2>5, <3>2 DEF Searched, s
    <3>4. \A m \in n .. s.n - 1 : toks[m].type \notin Starts
      BY <2>3 DEF s
    <3>5. CASE r.stop = "no" /\ r.n = s.n + 1 /\ tk.type \notin Starts
      <4>1. ASSUME NEW m \in n .. r.n - 1 PROVE toks[m].type \notin Starts
        <5>0. n \in Nat /\ k \in Nat /\ s.n = n + k /\ r.n = n + k + 1 /\ m \in n .. r.n - 1
          BY <1>1, <3>3, <3>5
        <5>1. m = n + k \/ m \in n .. s.n - 1
          BY <5>0
        <5> QED BY <3>4, <3>5, <5>1
      <4>2. r.n = n + (k + 1) /\ r.n \in n .. n + (k + 1)
        <5>1. k \in Nat /\ r.n = n + k + 1
          BY <1>1, <3>3, <3>5
        <5> QED BY <1>1, <5>1
      <4> QED BY <3>3, <3>5, <4>1, <4>2, <2>1 DEF r
    <3>6. CASE r.stop \in {"end", "exit"} /\ r.n = s.n
      <4>1. r.n < n + (k + 1) /\ r.n \in n .. n + (k + 1)
        BY <1>1, <2>1, <3>3, <3>6
      <4> QED BY <3>3, <3>4, <3>6, <4>1, <2>1 DEF r
    <3>7. CASE r.stop = "end" /\ r.n = s.n + 1 /\ tk.type = "EXPREND_TOK"
      <4>0. tk.type \notin Starts
        BY <3>7 DEF Starts
      <4>1. ASSUME NEW m \in n .. r.n - 1 PROVE toks[m].type \notin Starts
        <5>0. n \in Nat /\ k \in Nat /\ s.n = n + k /\ r.n = n + k + 1 /\ m \in n .. r.n - 1
          BY <1>1, <3>3, <3>7
        <5>1. m = n + k \/ m \in n .. s.n - 1
          BY <5>0
        <5> QED BY <3>4, <4>0, <5>1
      <4>2. r.n = n + (k + 1) /\ r.n \in n .. n + (k + 1) /\ r.n > n /\ r.n - 1 = n + k
        <5>1. k \in Nat /\ r.n = n + k + 1
          BY <1>1, <3>3, <3>7
        <5> QED BY <1>1, <5>1
      <4> QED BY <3>3, <3>7, <4>1, <4>2, <2>1 DEF r
    <3> QED BY <3>2, <3>5, <3>6, <3>7 DEF Searched
  <2> QED BY <2>4, <2>5
<1>6. G(len, last)
  <2> HIDE DEF G
  <2>1. 0 .. len \subseteq Sat
    <3> HIDE DEF Sat
    <3> QED BY <1>1, <1>4, <1>5, StepInduction
  <2> QED BY <1>1, <1>3, <2>1
<1> DEFINE c == count_uint_operand(toks, n, line)
<1>7. c = IF last.stop = "no" THEN [last EXCEPT !.stop = "exception"] ELSE last
  BY DEF count_uint_operand, last, start, seq
<1> HIDE DEF c
<1>8. CASE last.stop # "no"
  <2>1. c = last
    BY <1>7, <1>8
  <2> QED BY <1>1, <1>6, <1>8, <2>1 DEF Between, c
<1>9. CASE last.stop = "no"
  <2>1. PICK n1, line1, hit, expr, parens, brackets :
          last = [n |-> n1, line |-> line1, stop |-> "no", value_hit |-> hit, inside_expr |-> expr,
                  inside_parens |-> parens, inside_brackets |-> brackets]
    BY <1>6, <1>9 DEF IsCount
  <2>2. c = [n |-> n1, line |-> line1, stop |-> "exception", value_hit |-> hit, inside_expr |-> expr,
             inside_parens |-> parens, inside_brackets |-> brackets]
    BY <1>7, <1>9, <2>1
  <2>3. IsCount(c) /\ c.n = last.n /\ c.stop = "exception"
    BY <1>6, <2>1, <2>2 DEF IsCount
  <2> HIDE DEF c
  <2> QED BY <1>1, <1>6, <2>3 DEF Between, c
<1> QED BY <1>8, <1>9

\* The operands of an opcode: none of their tokens starts a statement, and only
\* the end of an expression can be the last of the stream.
LEMMA OperandsCounted ==
  ASSUME NEW toks, IsSequence(toks), NEW n \in 1 .. Len(toks), NEW count \in Nat
  PROVE  LET s == CountOperands(toks, n, count)
         IN  /\ s.stop \in {"no", "exit", "exception"} /\ s.n \in n + 1 .. Len(toks) + 1
             /\ \A m \in n + 1 .. s.n - 1 : toks[m].type \notin Starts
             /\ s.stop = "no" =>
                   s.n <= Len(toks) \/ s.n = n + 1 \/ toks[s.n - 1].type = "EXPREND_TOK"
<1> DEFINE start == [n |-> n + 1, line |-> toks[n].line, stop |-> "no"]
           seq == [k \in 1 .. count |-> k]
           last == CountOperands(toks, n, count)
<1>1. Len(toks) \in Nat /\ n \in Nat
  BY DEF IsSequence
<1>3. start.n = n + 1 /\ start.stop = "no"
  OBVIOUS
<1>5. PICK f : Path(f, "operand", toks, start, seq, count) /\ last = f[count]
  BY <1>1, OperandsWalked
<1> HIDE DEF start, seq, last
<1> DEFINE G(s) ==
               /\ s.stop \in {"no", "exit", "exception"} /\ s.n \in n + 1 .. Len(toks) + 1
               /\ \A m \in n + 1 .. s.n - 1 : toks[m].type \notin Starts
               /\ s.stop = "no" =>
                     s.n <= Len(toks) \/ s.n = n + 1 \/ toks[s.n - 1].type = "EXPREND_TOK"
           Sat == {k \in 0 .. count : G(f[k])}
<1>6. 0 \in Sat
  <2>1. f[0] = start
    BY <1>5 DEF Path
  <2> QED BY <1>1, <1>3, <2>1
<1>7. ASSUME NEW k \in 0 .. count - 1, k \in Sat PROVE k + 1 \in Sat
  <2>1. k + 1 \in 1 .. count /\ k + 1 \in 0 .. count /\ (k + 1) - 1 = k
    OBVIOUS
  <2>2. f[k + 1] = IF f[k].stop = "no" THEN CountNext(toks, f[k]) ELSE f[k]
    BY <1>5, <2>1 DEF Path, Stepped
  <2>3. G(f[k])
    BY <1>7
  <2> DEFINE s == f[k]
             r == f[k + 1]
             c == count_uint_operand(toks, s.n, s.line)
  <2>4. CASE s.stop # "no"
    BY <2>1, <2>2, <2>3, <2>4
  <2>5. CASE s.stop = "no"
    <3>1. r.n = c.n /\ r.stop = (IF c.stop = "end" THEN "no" ELSE c.stop)
      BY <2>2, <2>5 DEF CountNext
    <3>2. s.n \in 1 .. Len(toks) + 1 /\ s.n \in n + 1 .. Len(toks) + 1
      BY <1>1, <2>3
    <3>3. Between(toks, s.n, c) /\ c.stop \in {"end", "exit", "exception"}
      BY <3>2, CountSearch
    <3> HIDE DEF r, c
    <3>4. /\ c.n \in s.n .. Len(toks) + 1
          /\ \A m \in s.n .. c.n - 1 : toks[m].type \notin Starts
          /\ c.stop = "end" => c.n <= Len(toks) \/ (c.n > s.n /\ toks[c.n - 1].type = "EXPREND_TOK")
      BY <3>3 DEF Between
    <3>5. \A m \in n + 1 .. s.n - 1 : toks[m].type \notin Starts
      BY <2>3
    <3> HIDE DEF s
    <3>6. r.n \in n + 1 .. Len(toks) + 1
      BY <1>1, <3>1, <3>2, <3>4
    <3>7. ASSUME NEW m \in n + 1 .. r.n - 1 PROVE toks[m].type \notin Starts
      <4>1. m \in n + 1 .. s.n - 1 \/ m \in s.n .. c.n - 1
        BY <1>1, <3>1, <3>2, <3>4
      <4> QED BY <3>4, <3>5, <4>1
    <3>8. r.stop \in {"no", "exit", "exception"} /\ (r.stop = "no" => c.stop = "end")
      BY <3>1, <3>3
    <3>9. G(r)
      BY <3>1, <3>4, <3>6, <3>7, <3>8
    <3> QED BY <2>1, <3>9 DEF r
  <2> QED BY <2>4, <2>5
<1>8. G(last)
  <2> HIDE DEF G
  <2>1. 0 .. count \subseteq Sat
    <3> HIDE DEF Sat
    <3> QED BY <1>6, <1>7, StepInduction
  <2> QED BY <1>5, <2>1
<1> QED BY <1>8 DEF last

-----------------------------------------------------------------------------
(* The Assembler objects.                                                  *)

AsmFields == {"path", "toks", "toknum", "prog_size", "next_byte_addr", "instr_count", "symtab", "imports"}

IsAsm(a) ==
    /\ DOMAIN a = AsmFields
    /\ a.path \in Readable /\ a.toks = Source(a.path) /\ a.toknum \in 1 .. Len(a.toks) + 1
    /\ a.prog_size \in Nat /\ a.next_byte_addr \in Nat /\ a.instr_count \in Nat
    /\ a.prog_size % UINT_SIZE = 0
    /\ IsTable(a.symtab)
    /\ IsSequence(a.imports) /\ \A i \in 1 .. Len(a.imports) : IsCard(a.imports[i])

\* There is always one, and after the first pass no other; those that wait for
\* another one have a card for it.
AsmsInv ==
    /\ IsSequence(asms) /\ Len(asms) >= 1 /\ Len(asms) <= MaxNesting
    /\ \A i \in 1 .. Len(asms) : IsAsm(asms[i])
    /\ \A i \in 1 .. Len(asms) - 1 : Len(asms[i].imports) >= 1
    /\ asms[1].path \in MainPaths
    /\ at \notin {"first_stage_pass"} \cup Errors => Len(asms) = 1

LEMMA FrontKeeps ==
  ASSUME NEW s, IsSequence(s), Len(s) >= 1
  PROVE  /\ IsSequence(Front(s)) /\ Len(Front(s)) = Len(s) - 1
         /\ \A i \in 1 .. Len(s) - 1 : Front(s)[i] = s[i]
<1> DEFINE n == Len(s) - 1
           S == {s[i] : i \in 1 .. Len(s)}
           f == [k \in 1 .. n |-> s[k]]
<1>1. n \in Nat /\ Len(s) = n + 1 /\ s \in Seq(S)
  BY DEF IsSequence
<1> HIDE DEF S, n
<1>2. SubSeq(s, 1, n) = f
  BY <1>1, FrontIsFunction
<1>3. Front(s) = f
  BY <1>2 DEF Front, n
<1>4. f \in Seq({s[k] : k \in 1 .. n}) /\ Len(f) = n
  <2> DEFINE T == {s[k] : k \in 1 .. n}
  <2>1. f \in [1 .. n -> T]
    OBVIOUS
  <2> HIDE DEF f, T
  <2>2. f \in Seq(T) /\ Len(f) = n
    BY <1>1, <2>1
  <2> QED BY <2>2 DEF T
<1>5. IsSequence(f)
  <2> HIDE DEF f
  <2> QED BY <1>4, SequenceIsSequence
<1> QED BY <1>3, <1>4, <1>5 DEF n

\* Concatenation with one element.
LEMMA ConcatKeeps ==
  ASSUME NEW s, IsSequence(s), NEW x
  PROVE  /\ IsSequence(s \o <<x>>) /\ Len(s \o <<x>>) = Len(s) + 1
         /\ \A i \in 1 .. Len(s) : (s \o <<x>>)[i] = s[i]
         /\ (s \o <<x>>)[Len(s) + 1] = x
<1> DEFINE S == {s[i] : i \in 1 .. Len(s)} \cup {x}
           c == s \o <<x>>
           one == <<x>>
<1>1. Len(s) \in Nat /\ s \in Seq(S) /\ one \in Seq(S) /\ Len(one) = 1 /\ one[1] = x
  BY DEF IsSequence
<1> HIDE DEF S, one
<1>2. /\ s \o one \in Seq(S) /\ Len(s \o one) = Len(s) + Len(one)
      /\ \A i \in 1 .. Len(s) + Len(one) :
             (s \o one)[i] = IF i <= Len(s) THEN s[i] ELSE one[i - Len(s)]
  BY <1>1, ConcatProperties
<1>3. IsSequence(s \o one)
  BY <1>2, SequenceIsSequence
<1> QED BY <1>1, <1>2, <1>3 DEF one

\* The first elements of s replaced from the n-th on, by one.
LEMMA ReplaceLast ==
  ASSUME NEW s, IsSequence(s), Len(s) >= 1, NEW x
  PROVE  /\ IsSequence(Append(Front(s), x)) /\ Len(Append(Front(s), x)) = Len(s)
         /\ \A i \in 1 .. Len(s) - 1 : Append(Front(s), x)[i] = s[i]
         /\ Append(Front(s), x)[Len(s)] = x
<1>1. Len(s) \in Nat
  BY DEF IsSequence
<1>2. /\ IsSequence(Front(s)) /\ Len(Front(s)) = Len(s) - 1
      /\ \A i \in 1 .. Len(s) - 1 : Front(s)[i] = s[i]
  BY FrontKeeps
<1> DEFINE f == Front(s)
<1> HIDE DEF f
<1>3. /\ IsSequence(Append(f, x)) /\ Len(Append(f, x)) = Len(f) + 1
      /\ \A i \in 1 .. Len(f) : Append(f, x)[i] = f[i]
      /\ Append(f, x)[Len(f) + 1] = x
  BY <1>2, AppendKeeps DEF f
<1> QED BY <1>1, <1>2, <1>3 DEF f

\* A step of the first pass that changes only the innermost Assembler.
LEMMA BecomesKeeps ==
  ASSUME AsmsInv, at = "first_stage_pass", NEW a, IsAsm(a), a.path = asm.path, Becomes(a)
  PROVE  AsmsInv'
<1>1. IsSequence(asms) /\ Len(asms) \in Nat /\ Len(asms) >= 1 /\ Len(asms) <= MaxNesting
  BY DEF AsmsInv, IsSequence
<1>2. asms' = Append(Front(asms), a) /\ at' = "first_stage_pass"
  BY DEF Becomes
<1>3. /\ IsSequence(asms') /\ Len(asms') = Len(asms)
      /\ \A i \in 1 .. Len(asms) - 1 : asms'[i] = asms[i]
      /\ asms'[Len(asms)] = a
  BY <1>1, <1>2, ReplaceLast
<1>4. ASSUME NEW i \in 1 .. Len(asms) PROVE IsAsm(asms'[i])
  <2>1. i = Len(asms) \/ i \in 1 .. Len(asms) - 1
    BY <1>1
  <2> QED BY <1>3, <2>1 DEF AsmsInv
<1>5. \A i \in 1 .. Len(asms) - 1 : Len(asms'[i].imports) >= 1
  BY <1>3 DEF AsmsInv
<1>6. asms'[1].path \in MainPaths
  <2>1. CASE Len(asms) = 1
    <3>1. asms'[1] = a /\ a.path = asms[1].path
      BY <1>3, <2>1 DEF asm, Last
    <3> QED BY <3>1 DEF AsmsInv
  <2>2. CASE 1 \in 1 .. Len(asms) - 1
    <3>1. asms'[1] = asms[1]
      BY <1>3, <2>2
    <3> QED BY <3>1 DEF AsmsInv
  <2>3. Len(asms) = 1 \/ 1 \in 1 .. Len(asms) - 1
    <3>1. Len(asms) \in Nat /\ Len(asms) >= 1
      BY <1>1 DEF AsmsInv, IsSequence
    <3> QED BY ONLY <3>1
  <2> QED BY <2>1, <2>2, <2>3
<1> QED BY <1>1, <1>2, <1>3, <1>4, <1>5, <1>6 DEF AsmsInv

\* A new symbol, and a new table.
LEMMA CreateKeeps ==
  ASSUME NEW st, IsTable(st), NEW type, NEW id, NEW val_type, NEW val
  PROVE  /\ Enlarged(st, create_new_symbol(st, Symbol(type, id, val_type, val)))
         /\ LET v == create_new_symbol(st, Symbol(type, id, val_type, val)).vec
            IN  Len(v) = Len(st.vec) + 1 /\ v[Len(v)].id = id /\ v[Len(v)].type = type
<1> DEFINE sym == Symbol(type, id, val_type, val)
           v == Append(st.vec, sym)
           r == create_new_symbol(st, sym)
<1>1. IsSymbol(sym) /\ sym.id = id /\ sym.type = type
  BY DEF Symbol, IsSymbol
<1>2. IsSequence(st.vec) /\ Len(st.vec) \in Nat
  BY DEF IsTable, IsSequence
<1> HIDE DEF sym
<1>3. /\ IsSequence(v) /\ Len(v) = Len(st.vec) + 1
      /\ \A i \in 1 .. Len(st.vec) : v[i] = st.vec[i]
      /\ v[Len(st.vec) + 1] = sym
  BY <1>2, AppendKeeps
<1> HIDE DEF v
<1>5. /\ DOMAIN r = TableFields /\ r.vec = v /\ r.keep_symbols = st.keep_symbols
      /\ r.bytestream_size = st.bytestream_size /\ r.start_addr = st.start_addr
  <2> HIDE DEF sym
  <2> QED BY DEF IsTable, TableFields, create_new_symbol, v
<1> HIDE DEF r
<1>6. \A i \in 1 .. Len(v) : IsSymbol(v[i])
  <2> SUFFICES ASSUME NEW i \in 1 .. Len(v) PROVE IsSymbol(v[i])
    OBVIOUS
  <2>1. i \in 1 .. Len(st.vec) \/ i = Len(st.vec) + 1
    BY <1>2, <1>3
  <2> QED BY <1>1, <1>3, <2>1 DEF IsTable
<1>7. IsTable(r)
  BY <1>3, <1>5, <1>6 DEF IsTable
<1>8. Extends(st.vec, v)
  BY <1>2, <1>3 DEF Extends
<1>9. Enlarged(st, r)
  BY <1>5, <1>7, <1>8 DEF Enlarged
<1> QED BY <1>1, <1>3, <1>5, <1>9 DEF r, sym

LEMMA NewTable ==
  ASSUME NEW keep \in BOOLEAN
  PROVE  /\ IsTable(NewSymbolTable(keep))
         /\ NewSymbolTable(keep).keep_symbols = keep
         /\ NewSymbolTable(keep).bytestream_size = 0
<1> DEFINE v == [i \in DOMAIN Builtins |-> Symbol("ATOM_SYMBOL", <<Builtins[i]>>, "VOID_TYPE", 0)]
<1>1. DOMAIN Builtins = 1 .. 7
  BY DEF Builtins
<1>2. \A i \in 1 .. 7 : IsSymbol(v[i])
  BY <1>1 DEF Symbol, IsSymbol
<1> DEFINE S == {v[i] : i \in 1 .. 7}
<1>3. v \in Seq(S) /\ Len(v) = 7
  <2>1. v \in [1 .. 7 -> S]
    BY <1>1
  <2> HIDE DEF v, S
  <2>2. \A n \in Nat : v \in [1 .. n -> S] => v \in Seq(S) /\ Len(v) = n
    OBVIOUS
  <2> QED BY <2>1, <2>2
<1>4. IsSequence(v)
  <2> HIDE DEF v, S
  <2> QED BY <1>3, SequenceIsSequence
<1> HIDE DEF v
<1> QED BY <1>2, <1>3, <1>4 DEF NewSymbolTable, IsTable, TableFields, v

LEMMA SourceIsSequence ==
  ASSUME NEW path \in Readable
  PROVE  IsSequence(Source(path)) /\ DOMAIN Source(path) = 1 .. Len(Source(path))
<1>1. Source(path) \in Seq(Range(Source(path)))
  BY AssemblerAssumption
<1> DEFINE S == Range(Source(path))
           s == Source(path)
<1> HIDE DEF S, s
<1>2. s \in Seq(S)
  BY <1>1 DEF S, s
<1>3. IsSequence(s) /\ DOMAIN s = 1 .. Len(s)
  BY <1>2, SequenceIsSequence, LenProperties
<1> QED BY <1>3 DEF s

LEMMA NewAsm ==
  ASSUME NEW path \in Readable, NEW keep \in BOOLEAN
  PROVE  IsAsm(NewAssembler(path, keep))
<1> DEFINE a == NewAssembler(path, keep)
<1>1. a = [path |-> path, toks |-> Source(path), toknum |-> 1, prog_size |-> 0, next_byte_addr |-> 0,
           instr_count |-> 0, symtab |-> NewSymbolTable(keep), imports |-> <<>>]
  BY DEF NewAssembler
<1> HIDE DEF a
<1>2. Len(Source(path)) \in Nat
  BY SourceIsSequence DEF IsSequence
<1>3. a.toknum \in 1 .. Len(a.toks) + 1 /\ 0 % 4 = 0
  BY <1>1, <1>2
<1>4. IsTable(a.symtab) /\ IsSequence(a.imports) /\ \A i \in 1 .. Len(a.imports) : IsCard(a.imports[i])
  BY <1>1, NewTable, SmallSequences
<1>5. IsAsm(a)
  BY <1>1, <1>3, <1>4 DEF IsAsm, AsmFields, UINT_SIZE
<1> QED BY <1>5 DEF a

LEMMA AsmIsOne ==
  ASSUME AsmsInv
  PROVE  IsAsm(asm) /\ IsAsm(main)
<1>1. Len(asms) \in Nat /\ Len(asms) >= 1
  BY DEF AsmsInv, IsSequence
<1>2. Len(asms) \in 1 .. Len(asms) /\ 1 \in 1 .. Len(asms)
  BY <1>1
<1> QED BY <1>2 DEF AsmsInv, asm, main, Last

LEMMA EndsKeeps ==
  ASSUME AsmsInv, NEW how \in Errors, Ends(how)
  PROVE  AsmsInv'
BY DEF AsmsInv, Ends

-----------------------------------------------------------------------------
(* The first pass.                                                         *)

\* The symbol of a label.
Has(vec, id) == \E i \in 1 .. Len(vec) : vec[i].id = id /\ vec[i].type = "LABEL_SYMBOL"

\* b is a, a few tokens further: the labels among them are in its table.
ReadOn(a, b) ==
    /\ IsAsm(b) /\ b.path = a.path /\ b.imports = a.imports
    /\ Enlarged(a.symtab, b.symtab)
    /\ b.toknum > a.toknum
    /\ \A n \in a.toknum .. b.toknum - 1 :
          /\ n \in Labels(a.path) => Has(b.symtab.vec, NameFrom(a.path, a.toks[n].v))
          /\ a.toks[n].type = "IMPORT_DEF_TOK" => n < Len(a.toks)

Stops == \E how \in Errors : Ends(how)

Reads == at = "first_stage_pass" /\ \E a : Becomes(a) /\ ReadOn(asm, a)

\* The changes of an Assembler, field by field.
LEMMA ChangesOfAsm ==
  ASSUME NEW a, DOMAIN a = AsmFields, NEW t, NEW st, NEW size
  PROVE  /\ LET b == [a EXCEPT !.toknum = t]
            IN  /\ DOMAIN b = AsmFields /\ b.path = a.path /\ b.toks = a.toks /\ b.toknum = t
                /\ b.prog_size = a.prog_size /\ b.next_byte_addr = a.next_byte_addr
                /\ b.instr_count = a.instr_count /\ b.symtab = a.symtab /\ b.imports = a.imports
         /\ LET b == [a EXCEPT !.toknum = t, !.symtab = st]
            IN  /\ DOMAIN b = AsmFields /\ b.path = a.path /\ b.toks = a.toks /\ b.toknum = t
                /\ b.prog_size = a.prog_size /\ b.next_byte_addr = a.next_byte_addr
                /\ b.instr_count = a.instr_count /\ b.symtab = st /\ b.imports = a.imports
         /\ LET b == [a EXCEPT !.instr_count = @ + 1, !.prog_size = @ + size, !.next_byte_addr = @ + size]
            IN  /\ DOMAIN b = AsmFields /\ b.path = a.path /\ b.toks = a.toks /\ b.toknum = a.toknum
                /\ b.prog_size = a.prog_size + size /\ b.next_byte_addr = a.next_byte_addr + size
                /\ b.instr_count = a.instr_count + 1 /\ b.symtab = a.symtab /\ b.imports = a.imports
         /\ LET b == [a EXCEPT !.toknum = t, !.instr_count = @ + 1, !.prog_size = @ + size,
                               !.next_byte_addr = @ + size]
            IN  /\ DOMAIN b = AsmFields /\ b.path = a.path /\ b.toks = a.toks /\ b.toknum = t
                /\ b.prog_size = a.prog_size + size /\ b.next_byte_addr = a.next_byte_addr + size
                /\ b.instr_count = a.instr_count + 1 /\ b.symtab = a.symtab /\ b.imports = a.imports
BY DEF AsmFields

LEMMA NothingEnlarges ==
  ASSUME NEW st, IsTable(st)
  PROVE  Enlarged(st, st)
BY DEF Enlarged, Extends, IsTable, IsSequence

LEMMA Counts ==
  /\ \A op \in DOMAIN OperandCount : OperandCount[op] \in 0 .. 3
  /\ "LABEL_DEF_TOK" \notin DOMAIN NumberTypes /\ "IMPORT_DEF_TOK" \notin DOMAIN NumberTypes
<1>1. \A op \in DOMAIN OperandCount : OperandCount[op] \in 0 .. 3
  BY DEF OperandCount, OneOperand, TwoOperands, ThreeOperands, NoOperand
<1>2. "LABEL_DEF_TOK" \notin DOMAIN NumberTypes /\ "IMPORT_DEF_TOK" \notin DOMAIN NumberTypes
  BY DEF NumberTypes
<1> QED BY <1>1, <1>2

LEMMA Fours ==
  ASSUME NEW size \in Nat, size % UINT_SIZE = 0, NEW count \in 0 .. 3
  PROVE  /\ size + (OPCODE_SIZE + UINT_SIZE * count) \in Nat
         /\ (size + (OPCODE_SIZE + UINT_SIZE * count)) % UINT_SIZE = 0
         /\ (size + OPCODE_SIZE) % UINT_SIZE = 0
BY DEF OPCODE_SIZE, UINT_SIZE

\* An Assembler that has advanced.
LEMMA Advances ==
  ASSUME NEW a, IsAsm(a), NEW b, DOMAIN b = AsmFields, b.path = a.path, b.toks = a.toks,
         b.imports = a.imports, b.toknum \in a.toknum + 1 .. Len(a.toks) + 1,
         b.prog_size \in Nat, b.next_byte_addr \in Nat, b.instr_count \in Nat,
         b.prog_size % UINT_SIZE = 0, Enlarged(a.symtab, b.symtab),
         \A n \in a.toknum .. b.toknum - 1 :
             /\ n \in Labels(a.path) => Has(b.symtab.vec, NameFrom(a.path, a.toks[n].v))
             /\ a.toks[n].type = "IMPORT_DEF_TOK" => n < Len(a.toks)
  PROVE  ReadOn(a, b)
<1>1. Len(a.toks) \in Nat /\ a.toknum \in Nat
  BY SourceIsSequence DEF IsAsm, IsSequence
<1>2. b.toknum \in 1 .. Len(b.toks) + 1 /\ b.toknum > a.toknum
  BY <1>1
<1>3. IsAsm(b)
  BY <1>2 DEF IsAsm, Enlarged
<1> QED BY <1>2, <1>3 DEF ReadOn

\* An Assembler at a token.
LEMMA AtToken ==
  ASSUME AsmsInv, asm.toknum <= Len(asm.toks)
  PROVE  /\ IsAsm(asm) /\ DOMAIN asm = AsmFields /\ IsSequence(asm.toks) /\ Len(asm.toks) \in Nat
         /\ asm.toknum \in Nat /\ asm.toknum \in 1 .. Len(asm.toks)
         /\ asm.toks = Source(asm.path) /\ asm.path \in Readable
         /\ asm.prog_size \in Nat /\ asm.next_byte_addr \in Nat /\ asm.instr_count \in Nat
         /\ asm.prog_size % UINT_SIZE = 0 /\ IsTable(asm.symtab)
<1>1. IsAsm(asm)
  BY AsmIsOne
<1>2. IsSequence(asm.toks) /\ Len(asm.toks) \in Nat
  BY <1>1, SourceIsSequence DEF IsAsm, IsSequence
<1> QED BY <1>1, <1>2 DEF IsAsm

\* A macro's definition ends three tokens further, if it does not stop, and
\* its value is not the end of anything.
LEMMA MacroDefined ==
  ASSUME AsmsInv, NEW a, IsAsm(a), a.toks = asm.toks, NEW n \in Nat, DefineMacro(a, n)
  PROVE  \/ Stops
         \/ /\ n + 3 \in 1 .. Len(a.toks) + 1
            /\ a.toks[n + 1].type = "ID_TOK" /\ a.toks[n + 2].type \in DOMAIN NumberTypes
            /\ \E st : /\ Enlarged(a.symtab, st)
                       /\ Becomes([a EXCEPT !.toknum = n + 3, !.symtab = st])
<1> DEFINE name == a.toks[n + 1]
           value == a.toks[n + 2]
           sym == Symbol("MACRO_SYMBOL", SymbolId(name.v), NumberTypes[value.type],
                         IF value.type \in {"ID_TOK", "STRING_TOK"} THEN Unknown ELSE value.v)
           st == create_new_symbol(a.symtab, sym)
<1>1. SUFFICES ASSUME ~Stops
               PROVE  /\ n + 3 \in 1 .. Len(a.toks) + 1
                      /\ name.type = "ID_TOK" /\ value.type \in DOMAIN NumberTypes
                      /\ Enlarged(a.symtab, st)
                      /\ Becomes([a EXCEPT !.toknum = n + 3, !.symtab = st])
  OBVIOUS
<1>2. ~Ends("exception") /\ ~Ends("exit")
  BY <1>1 DEF Stops, Errors
<1>3. /\ ~Missing(n + 1) /\ ~Missing(n + 2) /\ name.type = "ID_TOK" /\ value.type \in DOMAIN NumberTypes
      /\ Becomes([a EXCEPT !.toknum = n + 3, !.symtab = create_new_symbol(@, sym)])
  BY <1>2 DEF DefineMacro
<1>4. Len(a.toks) \in Nat
  BY SourceIsSequence DEF IsAsm, IsSequence
<1>5. n + 3 \in 1 .. Len(a.toks) + 1
  BY <1>3, <1>4 DEF Missing
<1>6. Enlarged(a.symtab, st)
  BY CreateKeeps DEF IsAsm
<1>7. [a EXCEPT !.toknum = n + 3, !.symtab = create_new_symbol(@, sym)]
        = [a EXCEPT !.toknum = n + 3, !.symtab = st]
  <2> HIDE DEF sym
  <2> QED OBVIOUS
<1> QED BY <1>3, <1>5, <1>6, <1>7

LEMMA OpcodeReads ==
  ASSUME AsmsInv, OpcodeTok
  PROVE  Stops \/ Reads
<1> DEFINE n == asm.toknum
           toks == asm.toks
           count == OperandCount[tok.v]
           s == CountOperands(toks, n, count)
           size == OPCODE_SIZE + UINT_SIZE * count
           b == [asm EXCEPT !.toknum = s.n, !.instr_count = @ + 1, !.prog_size = @ + size,
                            !.next_byte_addr = @ + size]
<1>1. /\ at = "first_stage_pass" /\ n <= Len(toks) /\ toks[n].type = "OPCODE_TOK"
      /\ tok.v \in DOMAIN OperandCount
      /\ IF s.stop # "no" THEN Ends(s.stop) ELSE Becomes(b)
  BY DEF OpcodeTok, InFirstPass
<1>2. /\ IsAsm(asm) /\ DOMAIN asm = AsmFields /\ IsSequence(toks) /\ Len(toks) \in Nat
      /\ n \in 1 .. Len(toks) /\ toks = Source(asm.path)
      /\ asm.prog_size \in Nat /\ asm.next_byte_addr \in Nat /\ asm.instr_count \in Nat
      /\ asm.prog_size % UINT_SIZE = 0 /\ IsTable(asm.symtab)
  BY <1>1, AtToken
<1>3. count \in 0 .. 3 /\ count \in Nat
  BY <1>1, Counts
<1>4. size \in Nat /\ asm.prog_size + size \in Nat /\ (asm.prog_size + size) % UINT_SIZE = 0
  <2>1. asm.prog_size + size \in Nat /\ (asm.prog_size + size) % UINT_SIZE = 0
    BY <1>2, <1>3, Fours
  <2> HIDE DEF count
  <2>2. size \in Nat
    BY <1>3 DEF OPCODE_SIZE, UINT_SIZE
  <2> QED BY <2>1, <2>2
<1> HIDE DEF n, toks, count, size
<1>5. /\ s.stop \in {"no", "exit", "exception"} /\ s.n \in n + 1 .. Len(toks) + 1
      /\ \A m \in n + 1 .. s.n - 1 : toks[m].type \notin Starts
      /\ s.stop = "no" => s.n <= Len(toks) \/ s.n = n + 1 \/ toks[s.n - 1].type = "EXPREND_TOK"
  BY <1>2, <1>3, OperandsCounted
<1> HIDE DEF s
<1>6. CASE s.stop # "no"
  BY <1>1, <1>5, <1>6 DEF Stops, Errors
<1>7. CASE s.stop = "no"
  <2>1. /\ DOMAIN b = AsmFields /\ b.path = asm.path /\ b.toks = asm.toks /\ b.toknum = s.n
        /\ b.prog_size = asm.prog_size + size /\ b.next_byte_addr = asm.next_byte_addr + size
        /\ b.instr_count = asm.instr_count + 1 /\ b.symtab = asm.symtab /\ b.imports = asm.imports
    BY <1>2, ChangesOfAsm
  <2> HIDE DEF b
  <2>2. ASSUME NEW m \in n .. s.n - 1
        PROVE  /\ m \notin Labels(asm.path)
               /\ toks[m].type = "IMPORT_DEF_TOK" => m < Len(toks)
    <3>1. m = n \/ m \in n + 1 .. s.n - 1
      BY <1>2, <1>5
    <3>2. m \notin Labels(asm.path)
      BY <1>1, <1>2, <1>5, <3>1 DEF Labels, Starts, toks, n
    <3>3. ASSUME toks[m].type = "IMPORT_DEF_TOK" PROVE m < Len(toks)
      <4>1. m \in n + 1 .. s.n - 1
        BY <1>1, <3>1, <3>3 DEF toks, n
      <4>2. s.n - 1 # m \/ s.n <= Len(toks)
        BY <1>2, <1>5, <1>7, <3>3, <4>1
      <4> QED BY <1>2, <1>5, <4>1, <4>2
    <3> QED BY <3>2, <3>3
  <2>3. Enlarged(asm.symtab, b.symtab)
    BY <1>2, <2>1, NothingEnlarges
  <2>4. b.next_byte_addr \in Nat /\ b.instr_count \in Nat
    BY <1>2, <1>4, <2>1
  <2>5. ReadOn(asm, b)
    BY <1>2, <1>4, <1>5, <2>1, <2>2, <2>3, <2>4, Advances DEF toks, n
  <2> QED BY <1>1, <1>7, <2>5 DEF Reads
<1> QED BY <1>6, <1>7

LEMMA MacroReads ==
  ASSUME AsmsInv, MacroDefTok
  PROVE  Stops \/ Reads
<1> DEFINE n == asm.toknum
           toks == asm.toks
<1>1. /\ at = "first_stage_pass" /\ n <= Len(toks) /\ toks[n].type = "MACRO_DEF_TOK"
      /\ DefineMacro(asm, n)
  BY DEF MacroDefTok, InFirstPass
<1>2. /\ IsAsm(asm) /\ DOMAIN asm = AsmFields /\ Len(toks) \in Nat /\ n \in Nat
      /\ n \in 1 .. Len(toks) /\ toks = Source(asm.path)
      /\ asm.prog_size \in Nat /\ asm.next_byte_addr \in Nat /\ asm.instr_count \in Nat
      /\ asm.prog_size % UINT_SIZE = 0
  BY <1>1, AtToken
<1>3. SUFFICES ASSUME ~Stops PROVE Reads
  OBVIOUS
<1>4. PICK st : /\ n + 3 \in 1 .. Len(toks) + 1
                /\ toks[n + 1].type = "ID_TOK" /\ toks[n + 2].type \in DOMAIN NumberTypes
                /\ Enlarged(asm.symtab, st)
                /\ Becomes([asm EXCEPT !.toknum = n + 3, !.symtab = st])
  BY <1>1, <1>2, <1>3, MacroDefined
<1> DEFINE b == [asm EXCEPT !.toknum = n + 3, !.symtab = st]
<1>5. /\ DOMAIN b = AsmFields /\ b.path = asm.path /\ b.toks = asm.toks /\ b.toknum = n + 3
      /\ b.prog_size = asm.prog_size /\ b.next_byte_addr = asm.next_byte_addr
      /\ b.instr_count = asm.instr_count /\ b.symtab = st /\ b.imports = asm.imports
  BY <1>2, ChangesOfAsm
<1> HIDE DEF b
<1>6. ASSUME NEW m \in n .. b.toknum - 1
      PROVE  m \notin Labels(asm.path) /\ toks[m].type # "IMPORT_DEF_TOK"
  <2>1. m = n \/ m = n + 1 \/ m = n + 2
    BY <1>2, <1>5
  <2> QED BY <1>1, <1>2, <1>4, <2>1, Counts DEF Labels
<1>7. b.toknum \in n + 1 .. Len(toks) + 1
  BY <1>2, <1>4, <1>5
<1>8. ReadOn(asm, b)
  BY <1>2, <1>4, <1>5, <1>6, <1>7, Advances
<1> QED BY <1>1, <1>4, <1>8 DEF Reads, b

LEMMA UnlistedReads ==
  ASSUME AsmsInv, UnlistedOpcodeTok
  PROVE  Stops \/ Reads
<1> DEFINE n == asm.toknum
           toks == asm.toks
           a == [asm EXCEPT !.instr_count = @ + 1, !.prog_size = @ + OPCODE_SIZE,
                            !.next_byte_addr = @ + OPCODE_SIZE]
<1>1. /\ at = "first_stage_pass" /\ n <= Len(toks) /\ toks[n].type = "OPCODE_TOK"
      /\ toks[n].v \notin DOMAIN OperandCount
      /\ DefineMacro(a, n + 1)
  BY DEF UnlistedOpcodeTok, InFirstPass, tok
<1>2. /\ IsAsm(asm) /\ DOMAIN asm = AsmFields /\ Len(toks) \in Nat /\ n \in Nat
      /\ n \in 1 .. Len(toks) /\ toks = Source(asm.path)
      /\ asm.prog_size \in Nat /\ asm.next_byte_addr \in Nat /\ asm.instr_count \in Nat
      /\ asm.prog_size % UINT_SIZE = 0 /\ IsTable(asm.symtab)
  BY <1>1, AtToken
<1>3. /\ DOMAIN a = AsmFields /\ a.path = asm.path /\ a.toks = asm.toks /\ a.toknum = asm.toknum
      /\ a.prog_size = asm.prog_size + OPCODE_SIZE
      /\ a.next_byte_addr = asm.next_byte_addr + OPCODE_SIZE
      /\ a.instr_count = asm.instr_count + 1 /\ a.symtab = asm.symtab /\ a.imports = asm.imports
  BY <1>2, ChangesOfAsm
<1> HIDE DEF a
<1>4. /\ a.prog_size \in Nat /\ a.next_byte_addr \in Nat /\ a.instr_count \in Nat
      /\ a.prog_size % UINT_SIZE = 0
  <2>1. (asm.prog_size + OPCODE_SIZE) % UINT_SIZE = 0
    <3>1. 0 \in 0 .. 3
      OBVIOUS
    <3>2. asm.prog_size \in Nat /\ asm.prog_size % UINT_SIZE = 0
      BY <1>2
    <3> QED BY ONLY <3>1, <3>2, Fours
  <2>2. OPCODE_SIZE \in Nat
    BY DEF OPCODE_SIZE
  <2>3. /\ asm.prog_size + OPCODE_SIZE \in Nat /\ asm.next_byte_addr + OPCODE_SIZE \in Nat
        /\ asm.instr_count + 1 \in Nat
    BY <1>2, <2>2
  <2> QED BY <1>3, <2>1, <2>3
<1>5. IsAsm(a)
  BY <1>2, <1>3, <1>4 DEF IsAsm
<1>6. SUFFICES ASSUME ~Stops PROVE Reads
  OBVIOUS
<1>7. PICK st : /\ (n + 1) + 3 \in 1 .. Len(toks) + 1
                /\ toks[(n + 1) + 1].type = "ID_TOK" /\ toks[(n + 1) + 2].type \in DOMAIN NumberTypes
                /\ Enlarged(asm.symtab, st)
                /\ Becomes([a EXCEPT !.toknum = (n + 1) + 3, !.symtab = st])
  <2> DEFINE k == n + 1
  <2>1. k \in Nat
    BY <1>2
  <2> HIDE DEF k
  <2>2. DefineMacro(a, k) => \/ Stops
             \/ /\ k + 3 \in 1 .. Len(a.toks) + 1
                /\ a.toks[k + 1].type = "ID_TOK" /\ a.toks[k + 2].type \in DOMAIN NumberTypes
                /\ \E st : /\ Enlarged(a.symtab, st)
                           /\ Becomes([a EXCEPT !.toknum = k + 3, !.symtab = st])
    BY <1>3, <1>5, <2>1, MacroDefined
  <2> QED BY <1>1, <1>3, <1>6, <2>2 DEF k
<1> DEFINE b == [a EXCEPT !.toknum = (n + 1) + 3, !.symtab = st]
<1>8. /\ DOMAIN b = AsmFields /\ b.path = a.path /\ b.toks = a.toks /\ b.toknum = (n + 1) + 3
      /\ b.prog_size = a.prog_size /\ b.next_byte_addr = a.next_byte_addr
      /\ b.instr_count = a.instr_count /\ b.symtab = st /\ b.imports = a.imports
  BY <1>3, ChangesOfAsm
<1> HIDE DEF b
<1>9. ASSUME NEW m \in n .. b.toknum - 1
      PROVE  m \notin Labels(asm.path) /\ (toks[m].type = "IMPORT_DEF_TOK" => m < Len(toks))
  <2>1. m = n \/ m = n + 1 \/ m = n + 2 \/ m = n + 3
    <3>1. m \in n .. b.toknum - 1
      OBVIOUS
    <3>2. n \in Nat /\ b.toknum = (n + 1) + 3
      BY <1>2, <1>8
    <3> QED BY ONLY <3>1, <3>2
  <2>2. CASE m = n + 1
    <3>1. m > 1 /\ m - 1 = n /\ m < Len(toks)
      <4>1. n \in Nat /\ n >= 1 /\ Len(toks) \in Nat /\ (n + 1) + 3 \in 1 .. Len(toks) + 1
        BY <1>2, <1>7
      <4> QED BY ONLY <4>1, <2>2
    <3>2. toks[m - 1].type = "OPCODE_TOK" /\ toks[m - 1].v \notin DOMAIN OperandCount
      BY <1>1, <3>1
    <3>3. m \notin Labels(asm.path)
      BY <1>2, <3>1, <3>2 DEF Labels
    <3> QED BY <3>1, <3>3
  <2>3. CASE m # n + 1
    <3>1. (n + 1) + 1 = n + 2 /\ (n + 1) + 2 = n + 3
      BY <1>2
    <3> QED BY <1>1, <1>2, <1>7, <2>1, <2>3, <3>1, Counts DEF Labels
  <2> QED BY <2>2, <2>3
<1>10. b.toknum \in n + 1 .. Len(toks) + 1
  BY <1>2, <1>7, <1>8
<1>11. ReadOn(asm, b)
  BY <1>2, <1>3, <1>4, <1>7, <1>8, <1>9, <1>10, Advances
<1> QED BY <1>1, <1>7, <1>11 DEF Reads, b

LEMMA LabelReads ==
  ASSUME AsmsInv, LabelDefTok
  PROVE  Stops \/ Reads
<1> DEFINE n == asm.toknum
           toks == asm.toks
           id == SymbolId(toks[n].v)
           st == create_new_symbol(asm.symtab, Symbol("LABEL_SYMBOL", id, "UINT_TYPE", asm.next_byte_addr))
           b == [asm EXCEPT !.toknum = n + 1, !.symtab = st]
<1>1. /\ at = "first_stage_pass" /\ n <= Len(toks) /\ toks[n].type = "LABEL_DEF_TOK"
      /\ Ends("exit") \/ Becomes([asm EXCEPT !.toknum = @ + 1,
              !.symtab = create_new_symbol(@, Symbol("LABEL_SYMBOL", id, "UINT_TYPE", asm.next_byte_addr))])
  BY DEF LabelDefTok, InFirstPass, tok
<1>2. Ends("exit") => Stops
  BY DEF Stops, Errors
<1>3. [asm EXCEPT !.toknum = @ + 1,
           !.symtab = create_new_symbol(@, Symbol("LABEL_SYMBOL", id, "UINT_TYPE", asm.next_byte_addr))] = b
  <2> HIDE DEF id
  <2> QED BY Zenon
<1>4. /\ IsAsm(asm) /\ DOMAIN asm = AsmFields /\ Len(toks) \in Nat /\ n \in Nat
      /\ n \in 1 .. Len(toks) /\ toks = Source(asm.path)
      /\ asm.prog_size \in Nat /\ asm.next_byte_addr \in Nat /\ asm.instr_count \in Nat
      /\ asm.prog_size % UINT_SIZE = 0 /\ IsTable(asm.symtab)
  BY <1>1, AtToken
<1>5. Enlarged(asm.symtab, st) /\ Has(st.vec, id)
  <2> HIDE DEF id
  <2>1. /\ Enlarged(asm.symtab, st)
        /\ Len(st.vec) = Len(asm.symtab.vec) + 1
        /\ st.vec[Len(st.vec)].id = id /\ st.vec[Len(st.vec)].type = "LABEL_SYMBOL"
    <3> DEFINE type == "LABEL_SYMBOL"
               addr == asm.next_byte_addr
               table == asm.symtab
               number == "UINT_TYPE"
               new == create_new_symbol(table, Symbol(type, id, number, addr))
    <3>1. IsTable(table)
      BY <1>4
    <3> HIDE DEF type, addr, table, number
    <3>2. /\ Enlarged(table, new)
          /\ Len(new.vec) = Len(table.vec) + 1
          /\ new.vec[Len(new.vec)].id = id /\ new.vec[Len(new.vec)].type = type
      BY <3>1, CreateKeeps
    <3> QED BY <3>2 DEF type, addr, table, number
  <2>2. Len(asm.symtab.vec) \in Nat
    BY <1>4 DEF IsTable, IsSequence
  <2> HIDE DEF st
  <2>3. Len(st.vec) \in 1 .. Len(st.vec)
    BY <2>1, <2>2
  <2> QED BY <2>1, <2>3 DEF Has
<1>6. id = NameFrom(asm.path, toks[n].v)
  BY DEF SymbolId, NameFrom
<1> HIDE DEF st, id
<1>7. /\ DOMAIN b = AsmFields /\ b.path = asm.path /\ b.toks = asm.toks /\ b.toknum = n + 1
      /\ b.prog_size = asm.prog_size /\ b.next_byte_addr = asm.next_byte_addr
      /\ b.instr_count = asm.instr_count /\ b.symtab = st /\ b.imports = asm.imports
  BY <1>4, ChangesOfAsm
<1> HIDE DEF b
<1>8. ASSUME NEW m \in n .. b.toknum - 1
      PROVE  /\ Has(b.symtab.vec, NameFrom(asm.path, toks[m].v))
             /\ toks[m].type # "IMPORT_DEF_TOK"
  <2>1. m = n
    BY <1>4, <1>7
  <2> QED BY <1>1, <1>5, <1>6, <1>7, <2>1
<1>9. b.toknum \in n + 1 .. Len(toks) + 1
  BY <1>4, <1>7
<1>10. ReadOn(asm, b)
  BY <1>4, <1>5, <1>7, <1>8, <1>9, Advances
<1> QED BY <1>1, <1>2, <1>3, <1>10 DEF Reads

\* A token, or an import statement of a module that is imported already, passed.
LEMMA PassReads ==
  ASSUME AsmsInv, at = "first_stage_pass", asm.toknum <= Len(asm.toks),
         NEW k \in 1 .. 2, asm.toknum + k <= Len(asm.toks) + 1,
         \A m \in asm.toknum .. asm.toknum + k - 1 :
             /\ asm.toks[m].type # "LABEL_DEF_TOK"
             /\ asm.toks[m].type = "IMPORT_DEF_TOK" => m < Len(asm.toks),
         Becomes([asm EXCEPT !.toknum = @ + k])
  PROVE  Reads
<1> DEFINE n == asm.toknum
           toks == asm.toks
           b == [asm EXCEPT !.toknum = n + k]
<1>1. [asm EXCEPT !.toknum = @ + k] = b
  BY Zenon
<1>2. /\ IsAsm(asm) /\ DOMAIN asm = AsmFields /\ Len(toks) \in Nat /\ n \in Nat
      /\ n \in 1 .. Len(toks) /\ toks = Source(asm.path)
      /\ asm.prog_size \in Nat /\ asm.next_byte_addr \in Nat /\ asm.instr_count \in Nat
      /\ asm.prog_size % UINT_SIZE = 0 /\ IsTable(asm.symtab)
  BY AtToken
<1>3. /\ DOMAIN b = AsmFields /\ b.path = asm.path /\ b.toks = asm.toks /\ b.toknum = n + k
      /\ b.prog_size = asm.prog_size /\ b.next_byte_addr = asm.next_byte_addr
      /\ b.instr_count = asm.instr_count /\ b.symtab = asm.symtab /\ b.imports = asm.imports
  BY <1>2, ChangesOfAsm
<1> HIDE DEF b
<1>4. \A m \in n .. b.toknum - 1 :
          m \notin Labels(asm.path) /\ (toks[m].type = "IMPORT_DEF_TOK" => m < Len(toks))
  <2> SUFFICES ASSUME NEW m \in n .. b.toknum - 1
               PROVE  m \notin Labels(asm.path) /\ (toks[m].type = "IMPORT_DEF_TOK" => m < Len(toks))
    OBVIOUS
  <2>1. toks[m].type # "LABEL_DEF_TOK" /\ (toks[m].type = "IMPORT_DEF_TOK" => m < Len(toks))
    BY <1>2, <1>3
  <2> QED BY <1>2, <2>1 DEF Labels
<1>5. b.toknum \in n + 1 .. Len(toks) + 1
  BY <1>2, <1>3
<1>6. Enlarged(asm.symtab, b.symtab)
  BY <1>2, <1>3, NothingEnlarges
<1>7. ReadOn(asm, b)
  BY <1>2, <1>3, <1>4, <1>5, <1>6, Advances
<1> QED BY <1>1, <1>7 DEF Reads

\* b is a behind the statement that imports another module.
Opened(a, b) ==
    /\ IsAsm(b) /\ b.path = a.path /\ b.symtab = a.symtab /\ b.toknum = a.toknum + 2
    /\ a.toknum + 1 <= Len(a.toks)
    /\ a.toks[a.toknum].type = "IMPORT_DEF_TOK" /\ a.toks[a.toknum + 1].type = "PATH_TOK"
    /\ Len(b.imports) = Len(a.imports) + 1
    /\ \A i \in 1 .. Len(a.imports) : b.imports[i] = a.imports[i]

Opens ==
    /\ at = "first_stage_pass" /\ Len(asms) # MaxNesting
    /\ UNCHANGED <<at, output, done_modules>>
    /\ \E a : \E path \in Readable :
          Opened(asm, a) /\ asms' = Append(Front(asms), a) \o <<NewAssembler(path, FALSE)>>

LEMMA ImportSteps ==
  ASSUME AsmsInv, ImportDefTok
  PROVE  Stops \/ Reads \/ Opens
<1> DEFINE n == asm.toknum
           toks == asm.toks
           path == toks[n + 1]
           card == [path |-> path.v, insertion_index |-> 0, symtab |-> NewSymbolTable(FALSE)]
           b == [asm EXCEPT !.toknum = @ + 2, !.imports = Append(@, card)]
<1>1. at = "first_stage_pass" /\ n <= Len(toks) /\ toks[n].type = "IMPORT_DEF_TOK"
  BY DEF ImportDefTok, InFirstPass
<1>2. /\ IsAsm(asm) /\ DOMAIN asm = AsmFields /\ Len(toks) \in Nat /\ n \in Nat
      /\ n \in 1 .. Len(toks) /\ toks = Source(asm.path)
      /\ asm.prog_size \in Nat /\ asm.next_byte_addr \in Nat /\ asm.instr_count \in Nat
      /\ asm.prog_size % UINT_SIZE = 0 /\ IsTable(asm.symtab)
  BY <1>1, AtToken
<1>3. SUFFICES ASSUME ~Stops PROVE Reads \/ Opens
  OBVIOUS
<1>4. ~Ends("exception") /\ ~Ends("exit") /\ ~Ends("caught") /\ ~Ends("crashed")
  BY <1>3 DEF Stops, Errors
<1>5. /\ ~Missing(n + 1) /\ path.type = "PATH_TOK"
      /\ \/ Becomes([asm EXCEPT !.toknum = @ + 2])
         \/ /\ path.v \in Readable /\ Len(asms) # MaxNesting
            /\ asms' = Append(Front(asms), b) \o <<NewAssembler(path.v, FALSE)>>
            /\ UNCHANGED <<at, output, done_modules>>
  BY <1>4 DEF ImportDefTok
<1>6. n + 1 <= Len(toks)
  BY <1>2, <1>5 DEF Missing
<1>7. CASE Becomes([asm EXCEPT !.toknum = @ + 2])
  <2>1. 2 \in 1 .. 2 /\ n + 2 <= Len(toks) + 1
    BY <1>2, <1>6
  <2>2. ASSUME NEW m \in n .. n + 2 - 1
        PROVE  toks[m].type # "LABEL_DEF_TOK" /\ (toks[m].type = "IMPORT_DEF_TOK" => m < Len(toks))
    <3>1. m = n \/ m = n + 1
      BY <1>2
    <3> QED BY <1>1, <1>2, <1>5, <1>6, <3>1
  <2> QED BY <1>1, <1>2, <1>7, <2>1, <2>2, PassReads
<1>8. CASE /\ path.v \in Readable /\ Len(asms) # MaxNesting
           /\ asms' = Append(Front(asms), b) \o <<NewAssembler(path.v, FALSE)>>
           /\ UNCHANGED <<at, output, done_modules>>
  <2>1. IsCard(card)
    BY NewTable DEF IsCard
  <2> HIDE DEF card
  <2>2. /\ DOMAIN b = AsmFields /\ b.path = asm.path /\ b.toks = asm.toks /\ b.toknum = n + 2
        /\ b.prog_size = asm.prog_size /\ b.next_byte_addr = asm.next_byte_addr
        /\ b.instr_count = asm.instr_count /\ b.symtab = asm.symtab
        /\ b.imports = Append(asm.imports, card)
    BY <1>2 DEF AsmFields
  <2> HIDE DEF b
  <2>3. IsSequence(asm.imports) /\ Len(asm.imports) \in Nat
        /\ \A i \in 1 .. Len(asm.imports) : IsCard(asm.imports[i])
    BY <1>2 DEF IsAsm, IsSequence
  <2>4. /\ IsSequence(b.imports) /\ Len(b.imports) = Len(asm.imports) + 1
        /\ \A i \in 1 .. Len(asm.imports) : b.imports[i] = asm.imports[i]
        /\ b.imports[Len(asm.imports) + 1] = card
    BY <2>2, <2>3, AppendKeeps
  <2>5. \A i \in 1 .. Len(b.imports) : IsCard(b.imports[i])
    <3> SUFFICES ASSUME NEW i \in 1 .. Len(b.imports) PROVE IsCard(b.imports[i])
      OBVIOUS
    <3>1. i \in 1 .. Len(asm.imports) \/ i = Len(asm.imports) + 1
      BY <2>3, <2>4
    <3> QED BY <2>1, <2>3, <2>4, <3>1
  <2>6. b.toknum \in 1 .. Len(b.toks) + 1
    BY <1>2, <1>6, <2>2
  <2>7. IsAsm(b)
    BY <1>2, <2>2, <2>4, <2>5, <2>6 DEF IsAsm
  <2>8. Opened(asm, b)
    BY <1>1, <1>5, <1>6, <2>2, <2>4, <2>7 DEF Opened
  <2> QED BY <1>1, <1>8, <2>8 DEF Opens
<1> QED BY <1>5, <1>7, <1>8

\* What a step of the first pass does.
LEMMA FirstPassSteps ==
  ASSUME AsmsInv, FirstPass
  PROVE  Stops \/ Reads \/ Opens \/ ImportReturns
<1>1. CASE SkippedTok
  <2>1. /\ at = "first_stage_pass" /\ asm.toknum <= Len(asm.toks)
        /\ asm.toks[asm.toknum].type \in {"COMMENT_TOK", "BRKPNT_TOK"}
        /\ Becomes([asm EXCEPT !.toknum = @ + 1])
    BY <1>1 DEF SkippedTok, InFirstPass
  <2>2. asm.toknum \in Nat /\ Len(asm.toks) \in Nat
    BY <2>1, AtToken
  <2>3. 1 \in 1 .. 2 /\ asm.toknum + 1 <= Len(asm.toks) + 1
    BY <2>1, <2>2
  <2>4. \A m \in asm.toknum .. asm.toknum + 1 - 1 :
            asm.toks[m].type # "LABEL_DEF_TOK" /\ asm.toks[m].type # "IMPORT_DEF_TOK"
    BY <2>1, <2>2
  <2> QED BY <2>1, <2>3, <2>4, PassReads
<1>2. CASE ValueTok \/ StrayTok
  BY <1>2 DEF ValueTok, StrayTok, Stops, Errors
<1> QED BY <1>1, <1>2, OpcodeReads, UnlistedReads, MacroReads, LabelReads, ImportSteps DEF FirstPass

-----------------------------------------------------------------------------
(* The stack of Assemblers, in the first pass.                             *)

LEMMA OpensKeeps ==
  ASSUME AsmsInv, NEW a, Opened(asm, a), NEW path \in Readable, at = "first_stage_pass",
         Len(asms) # MaxNesting, at' = at,
         asms' = Append(Front(asms), a) \o <<NewAssembler(path, FALSE)>>
  PROVE  /\ AsmsInv' /\ Len(asms') = Len(asms) + 1
         /\ \A i \in 1 .. Len(asms) - 1 : asms'[i] = asms[i]
         /\ asms'[Len(asms)] = a /\ asms'[Len(asms) + 1] = NewAssembler(path, FALSE)
<1> DEFINE q == Append(Front(asms), a)
           new == NewAssembler(path, FALSE)
<1>1. IsSequence(asms) /\ Len(asms) \in Nat /\ Len(asms) >= 1 /\ Len(asms) <= MaxNesting
  BY DEF AsmsInv, IsSequence
<1>2. /\ IsSequence(q) /\ Len(q) = Len(asms)
      /\ \A i \in 1 .. Len(asms) - 1 : q[i] = asms[i]
      /\ q[Len(asms)] = a
  BY <1>1, ReplaceLast
<1>3. asms' = q \o <<new>> /\ at' = "first_stage_pass"
  OBVIOUS
<1> HIDE DEF q, new
<1>4. /\ IsSequence(asms') /\ Len(asms') = Len(asms) + 1
      /\ \A i \in 1 .. Len(asms) : asms'[i] = q[i]
      /\ asms'[Len(asms) + 1] = new
  <2>1. /\ IsSequence(q \o <<new>>) /\ Len(q \o <<new>>) = Len(q) + 1
        /\ \A i \in 1 .. Len(q) : (q \o <<new>>)[i] = q[i]
        /\ (q \o <<new>>)[Len(q) + 1] = new
    BY <1>2, ConcatKeeps
  <2> QED BY <1>2, <1>3, <2>1
<1>5. /\ \A i \in 1 .. Len(asms) - 1 : asms'[i] = asms[i]
      /\ asms'[Len(asms)] = a
  BY <1>1, <1>2, <1>4
<1>6. IsAsm(a) /\ IsAsm(new) /\ Len(a.imports) >= 1
  <2>1. IsAsm(asm) /\ IsAsm(a) /\ Len(a.imports) = Len(asm.imports) + 1
    BY AsmIsOne DEF Opened
  <2>2. Len(asm.imports) \in Nat
    BY <2>1 DEF IsAsm, IsSequence
  <2>3. IsAsm(new)
    BY NewAsm DEF new
  <2> QED BY <2>1, <2>2, <2>3
<1>7. ASSUME NEW i \in 1 .. Len(asms) + 1
      PROVE  IsAsm(asms'[i]) /\ (i # Len(asms) + 1 => Len(asms'[i].imports) >= 1)
  <2>1. i = Len(asms) + 1 \/ i = Len(asms) \/ i \in 1 .. Len(asms) - 1
    BY <1>1
  <2>2. i \in 1 .. Len(asms) - 1 => i \in 1 .. Len(asms)
    BY <1>1
  <2> QED BY <1>1, <1>4, <1>5, <1>6, <2>1, <2>2 DEF AsmsInv
<1>8. Len(asms) + 1 <= MaxNesting /\ Len(asms) + 1 >= 1
  BY <1>1, AssemblerAssumption
<1>9. AsmsInv'
  <2>1. /\ \A i \in 1 .. Len(asms') : IsAsm(asms'[i])
        /\ \A i \in 1 .. Len(asms') - 1 : Len(asms'[i].imports) >= 1
    <3> DEFINE m == Len(asms) + 1
    <3>1. m - 1 = Len(asms) /\ m \in Nat /\ Len(asms') = m
      BY <1>1, <1>4
    <3>3. \A i \in 1 .. m : IsAsm(asms'[i]) /\ (i # m => Len(asms'[i].imports) >= 1)
      BY <1>7
    <3> HIDE DEF m
    <3>2. \A i \in 1 .. m - 1 : i \in 1 .. m /\ i # m
      BY <3>1
    <3> QED BY <3>1, <3>2, <3>3
  <2>2. asms'[1].path \in MainPaths
    <3>1. Len(asms) = 1 \/ 1 \in 1 .. Len(asms) - 1
      BY <1>1
    <3>2. a.path = asm.path
      BY DEF Opened
    <3> QED BY <1>5, <3>1, <3>2 DEF AsmsInv, asm, Last
  <2> QED BY <1>3, <1>4, <1>8, <2>1, <2>2 DEF AsmsInv
<1> QED BY <1>4, <1>5, <1>9 DEF new

\* b is a, the importer, when its last import has been read by child.
Returned(a, child, b) ==
    /\ IsAsm(b) /\ b.path = a.path /\ b.toknum = a.toknum /\ b.symtab = a.symtab
    /\ Len(b.imports) = Len(a.imports) /\ Len(a.imports) >= 1
    /\ \A i \in 1 .. Len(a.imports) - 1 : b.imports[i] = a.imports[i]
    /\ b.imports[Len(a.imports)].symtab = WithImports(child)

Returns(n) ==
    /\ at = "first_stage_pass" /\ n > 1 /\ asm.toknum > Len(asm.toks)
    /\ Len(asms') = n - 1 /\ \A i \in 1 .. n - 2 : asms'[i] = asms[i]
    /\ Returned(asms[n - 1], asm, asms'[n - 1])
    /\ done_modules' = done_modules \cup {asm.path} /\ UNCHANGED <<at, output>>

LEMMA ReturnsKeep ==
  ASSUME AsmsInv, ImportReturns
  PROVE  Returns(Len(asms)) /\ AsmsInv'
<1> DEFINE n == Len(asms)
           a == asms[n - 1]
           k == Len(a.imports)
           st == WithImports(asm)
           b == [a EXCEPT !.prog_size = asm.prog_size,
                          !.next_byte_addr = asm.next_byte_addr,
                          !.imports[k].insertion_index = a.instr_count,
                          !.imports[k].symtab = st,
                          !.instr_count = @ + asm.instr_count]
<1>1. /\ at = "first_stage_pass" /\ asm.toknum > Len(asm.toks) /\ n > 1
      /\ asms' = Append(Front(Front(asms)), b)
      /\ done_modules' = done_modules \cup {asm.path} /\ UNCHANGED <<at, output>>
  BY DEF ImportReturns, FirstPassOver
<1>2. n \in Nat /\ n - 1 \in 1 .. n /\ n - 1 \in 1 .. n - 1 /\ IsSequence(asms) /\ n <= MaxNesting
  BY <1>1 DEF AsmsInv, IsSequence
<1>3. IsAsm(asm) /\ IsAsm(a) /\ k >= 1
  BY <1>2, AsmIsOne DEF AsmsInv
<1>4. IsTable(st)
  <2>1. IsTable(asm.symtab) /\ Len(asm.imports) \in Nat
        /\ \A i \in 1 .. Len(asm.imports) : IsCard(asm.imports[i])
    BY <1>3 DEF IsAsm, IsSequence
  <2> QED BY <2>1, WithImportsEnlarges DEF Enlarged
<1> HIDE DEF st
<1>5. IsSequence(a.imports) /\ k \in Nat /\ k \in 1 .. k /\ \A i \in 1 .. k : IsCard(a.imports[i])
  BY <1>3 DEF IsAsm, IsSequence
<1>6. DOMAIN a = AsmFields /\ DOMAIN a.imports = 1 .. k
  BY <1>3, <1>5, AppendKeeps DEF IsAsm
<1> DEFINE card == [a.imports[k] EXCEPT !.insertion_index = a.instr_count, !.symtab = st]
           imports == [a.imports EXCEPT ![k] = card]
<1>7. IsCard(card) /\ card.symtab = st
  <2>1. IsCard(a.imports[k])
    BY <1>5
  <2> HIDE DEF k
  <2> QED BY <2>1, <1>4 DEF IsCard
<1>8. /\ DOMAIN b = AsmFields /\ b.path = a.path /\ b.toks = a.toks /\ b.toknum = a.toknum
      /\ b.prog_size = asm.prog_size /\ b.next_byte_addr = asm.next_byte_addr
      /\ b.instr_count = a.instr_count + asm.instr_count /\ b.symtab = a.symtab
  BY <1>6 DEF AsmFields
<1>9. b.imports = imports
  BY <1>5, <1>6 DEF AsmFields
<1> HIDE DEF b, card
<1>10. /\ DOMAIN imports = 1 .. k /\ imports[k] = card
       /\ \A i \in 1 .. k - 1 : imports[i] = a.imports[i]
  BY <1>5, <1>6
<1>11. \A i \in 1 .. k : IsCard(imports[i])
  <2> SUFFICES ASSUME NEW i \in 1 .. k PROVE IsCard(imports[i])
    OBVIOUS
  <2>1. i = k \/ i \in 1 .. k - 1
    BY <1>5
  <2> QED BY <1>5, <1>7, <1>10, <2>1
<1> HIDE DEF imports
<1>12. IsSequence(imports) /\ Len(imports) = k
  <2> DEFINE S == {imports[i] : i \in 1 .. k}
  <2>1. imports = [i \in 1 .. k |-> imports[i]]
    BY <1>9, <1>10 DEF imports
  <2>2. imports \in [1 .. k -> S]
    BY <2>1
  <2> HIDE DEF S, k
  <2>3. imports \in Seq(S) /\ Len(imports) = k
    BY <1>5, <2>2
  <2> QED BY <2>3, SequenceIsSequence
<1>13. IsAsm(b)
  <2>1. /\ a.path \in Readable /\ a.toks = Source(a.path) /\ a.toknum \in 1 .. Len(a.toks) + 1
        /\ a.instr_count \in Nat /\ asm.instr_count \in Nat /\ IsTable(a.symtab)
        /\ asm.prog_size \in Nat /\ asm.next_byte_addr \in Nat /\ asm.prog_size % UINT_SIZE = 0
    BY <1>3 DEF IsAsm
  <2> QED BY <1>8, <1>9, <1>11, <1>12, <2>1 DEF IsAsm
<1>14. Returned(a, asm, b)
  BY <1>3, <1>7, <1>8, <1>9, <1>10, <1>12, <1>13 DEF Returned, st
<1> DEFINE f == Front(asms)
<1>15. /\ IsSequence(f) /\ Len(f) = n - 1 /\ \A i \in 1 .. n - 1 : f[i] = asms[i]
  BY <1>1, <1>2, FrontKeeps
<1>16. asms' = Append(Front(f), b)
  BY <1>1
<1> HIDE DEF f
<1>17. /\ IsSequence(asms') /\ Len(asms') = n - 1
       /\ \A i \in 1 .. n - 2 : asms'[i] = asms[i]
       /\ asms'[n - 1] = b
  <2>1. /\ IsSequence(Append(Front(f), b)) /\ Len(Append(Front(f), b)) = Len(f)
        /\ \A i \in 1 .. Len(f) - 1 : Append(Front(f), b)[i] = f[i]
        /\ Append(Front(f), b)[Len(f)] = b
    <3>1. Len(f) >= 1
      BY <1>1, <1>2, <1>15
    <3> QED BY <1>15, <3>1, ReplaceLast
  <2> QED BY <1>1, <1>2, <1>15, <1>16, <2>1
<1>18. \A i \in 1 .. n - 1 : IsAsm(asms'[i])
  <2> SUFFICES ASSUME NEW i \in 1 .. n - 1 PROVE IsAsm(asms'[i])
    OBVIOUS
  <2>1. (i = n - 1 \/ i \in 1 .. n - 2) /\ i \in 1 .. n
    BY <1>2
  <2> QED BY <1>13, <1>17, <2>1 DEF AsmsInv
<1>19. \A i \in 1 .. n - 2 : Len(asms'[i].imports) >= 1
  BY <1>2, <1>17 DEF AsmsInv
<1>20. AsmsInv'
  <2>1. /\ \A i \in 1 .. Len(asms') - 1 : Len(asms'[i].imports) >= 1
        /\ Len(asms') >= 1 /\ Len(asms') <= MaxNesting /\ at' = "first_stage_pass"
    BY <1>1, <1>2, <1>17, <1>19, AssemblerAssumption
  <2>2. asms'[1].path \in MainPaths
    <3>0. n \in Nat /\ n > 1
      BY <1>1, <1>2
    <3>1. n - 1 = 1 \/ 1 \in 1 .. n - 2
      <4> HIDE DEF n
      <4> QED BY <3>0
    <3> QED BY <1>8, <1>17, <3>1 DEF AsmsInv
  <2> QED BY <1>17, <1>18, <2>1, <2>2 DEF AsmsInv
<1> QED BY <1>1, <1>14, <1>17, <1>20 DEF Returns

-----------------------------------------------------------------------------
(* The evaluation of operands.                                             *)

Refusals == {"exit", "crashed", "spinning"}

IsRes(r) ==
    /\ DOMAIN r = {"n", "stop", "ops", "vals", "parsed", "last_is_value", "inside_paren",
                   "inside_offset", "found"}
    /\ IsSequence(r.ops) /\ r.n \in Nat

\* e is r, evaluated further, at the same token.
Stays(r, e) == IsRes(e) /\ e.n = r.n /\ e.stop \in {"no"} \cup Refusals

LEMMA PushStays ==
  ASSUME NEW r, IsRes(r), r.stop \in {"no"} \cup Refusals, NEW type
  PROVE  Stays(r, push_operator(r, type)) /\ push_operator(r, type).stop = r.stop
<1> DEFINE ops == Append(r.ops, type)
           e == push_operator(r, type)
<1>1. IsSequence(ops)
  BY AppendKeeps DEF IsRes
<1> HIDE DEF ops
<1>2. e = [r EXCEPT !.ops = ops, !.last_is_value = FALSE]
  BY DEF push_operator, ops
<1> HIDE DEF e
<1>3. IsRes(e) /\ e.n = r.n /\ e.stop = r.stop
  BY <1>1, <1>2 DEF IsRes
<1> QED BY <1>3 DEF Stays, e

LEMMA TopStays ==
  ASSUME NEW r, IsRes(r), r.stop = "no", r.ops # <<>>
  PROVE  Stays(r, eval_opstack_top(r))
<1> DEFINE e == eval_opstack_top(r)
<1>1. \A how \in {"exit", "crashed"} : Stays(r, Stopped(r, how))
  BY DEF Stays, Stopped, IsRes, Refusals
<1>2. Stays(r, r)
  BY DEF Stays
<1>3. ASSUME NEW lower, NEW res PROVE Stays(r, ReplaceTwo(r, lower, res))
  <2> DEFINE ops == Front(r.ops)
             vals == Append(Front(Front(r.vals)), [lower EXCEPT !.val = res])
             q == [r EXCEPT !.ops = ops, !.vals = vals]
  <2>1. IsSequence(ops)
    <3>1. IsSequence(r.ops) /\ Len(r.ops) >= 1
      BY DEF IsRes, IsSequence
    <3> QED BY <3>1, FrontKeeps
  <2>2. ReplaceTwo(r, lower, res) = Stopped(r, "crashed") \/ ReplaceTwo(r, lower, res) = q
    BY DEF ReplaceTwo
  <2> HIDE DEF ops, vals
  <2>3. Stays(r, q)
    BY <2>1 DEF Stays, IsRes
  <2> QED BY <1>1, <2>2, <2>3
<1>4. \/ e = r \/ e = Stopped(r, "exit")
      \/ \E lower, res : e = ReplaceTwo(r, lower, res)
  BY DEF eval_opstack_top
<1> QED BY <1>1, <1>2, <1>3, <1>4

LEMMA NextStays ==
  ASSUME NEW r, IsRes(r), r.stop = "no", NEW type
  PROVE  Stays(r, EvalNext(r, type))
<1>1. Stays(r, r) /\ Stays(r, Stopped(r, "spinning"))
  BY DEF Stays, Stopped, IsRes, Refusals
<1>2. CASE r.ops # <<>>
  <2> DEFINE ops == Front(r.ops)
  <2>1. IsSequence(ops)
    <3>1. IsSequence(r.ops) /\ Len(r.ops) >= 1
      BY <1>2 DEF IsRes, IsSequence
    <3> QED BY <3>1, FrontKeeps
  <2>2. \/ EvalNext(r, type) = r \/ EvalNext(r, type) = Stopped(r, "spinning")
        \/ EvalNext(r, type) = [r EXCEPT !.ops = ops, !.found = TRUE]
        \/ EvalNext(r, type) = eval_opstack_top(r)
    BY DEF EvalNext
  <2> HIDE DEF ops
  <2>3. Stays(r, [r EXCEPT !.ops = ops, !.found = TRUE])
    BY <2>1 DEF Stays, IsRes
  <2> QED BY <1>1, <1>2, <2>2, <2>3, TopStays
<1>3. CASE r.ops = <<>>
  BY <1>1, <1>3 DEF EvalNext
<1> QED BY <1>2, <1>3

LEMMA UntilStays ==
  ASSUME NEW r, IsRes(r), r.stop = "no", NEW type
  PROVE  Stays(r, EvalUntil(r, type))
<1> DEFINE n == Len(r.ops)
<1>1. n \in Nat
  BY DEF IsRes, IsSequence
<1>2. PICK f : /\ Path(f, "until", type, r, r.ops, n)
               /\ EvalUntil(r, type) = [f[n] EXCEPT !.found = FALSE]
  BY <1>1, EvaluationWalked
<1> HIDE DEF n
<1> DEFINE Sat == {k \in 0 .. n : Stays(r, f[k])}
<1>3. 0 \in Sat
  BY <1>1, <1>2 DEF Path, Stays
<1>4. ASSUME NEW k \in 0 .. n - 1, k \in Sat PROVE k + 1 \in Sat
  <2>1. k + 1 \in 1 .. n /\ k + 1 \in 0 .. n /\ (k + 1) - 1 = k
    BY <1>1
  <2>2. f[k + 1] = IF f[k].stop = "no" THEN EvalNext(f[k], type) ELSE f[k]
    BY <1>2, <2>1 DEF Path, Stepped
  <2>3. Stays(r, f[k])
    BY <1>4
  <2>4. f[k].stop = "no" => Stays(f[k], EvalNext(f[k], type))
    BY <2>3, NextStays DEF Stays
  <2>5. Stays(r, f[k + 1])
    BY <2>2, <2>3, <2>4 DEF Stays
  <2> QED BY <2>1, <2>5
<1>5. Stays(r, f[n])
  <2>1. 0 .. n \subseteq Sat
    <3> HIDE DEF Sat
    <3> QED BY <1>1, <1>3, <1>4, StepInduction
  <2> QED BY <1>1, <2>1
<1> DEFINE e == f[n]
<1> HIDE DEF e
<1>6. Stays(r, [e EXCEPT !.found = FALSE])
  BY <1>5 DEF Stays, IsRes, e
<1> QED BY <1>2, <1>6 DEF e

\* What one more token does to the evaluation.
Moves(s, r) ==
    /\ IsRes(r) /\ r.n \in {s.n, s.n + 1}
    /\ r.stop \in {"no", "end"} \cup Refusals

LEMMA TokenMoves ==
  ASSUME NEW s, IsRes(s), s.stop = "no", NEW tk, NEW st, NEW fileid
  PROVE  Moves(s, ResolveToken(s, tk, st, fileid))
<1> DEFINE r == [s EXCEPT !.n = @ + 1, !.parsed = @ + 1]
           e == ResolveToken(s, tk, st, fileid)
<1>1. IsRes(r) /\ r.n = s.n + 1 /\ r.stop = "no"
  BY DEF IsRes
<1>2. \A how \in {"end", "exit"} : Moves(s, Stopped(s, how))
  BY DEF Moves, Stopped, IsRes, Refusals
<1> DEFINE Step(q) == IsRes(q) /\ q.n = r.n /\ q.stop \in {"no", "end"} \cup Refusals
<1>3. ASSUME NEW q, Step(q) PROVE Moves(s, q)
  BY <1>1, <1>3 DEF Moves
<1>4. ASSUME NEW q, Stays(r, q)
      PROVE  /\ Step(q) /\ Step([q EXCEPT !.last_is_value = FALSE]) /\ Step([q EXCEPT !.inside_offset = TRUE])
             /\ Step([q EXCEPT !.inside_paren = TRUE]) /\ Step(Stopped(q, "end"))
  BY <1>4 DEF Stays, Stopped, IsRes
<1>5. Stays(r, r) /\ \A type : Stays(r, push_operator(r, type))
  BY <1>1, PushStays DEF Stays
<1> HIDE DEF Step
<1>6. Step(r) /\ \A how \in {"end", "exit"} : Step(Stopped(r, how))
  BY <1>1 DEF Step, Stopped, IsRes, Refusals
<1> HIDE DEF r
<1>7. ASSUME NEW type PROVE Step(ResolveOperator(r, type))
  <2>1. Stays(r, eval_opstack_top(r)) \/ r.ops = <<>>
    BY <1>1, TopStays
  <2>2. ASSUME NEW q, Stays(r, q) PROVE Step(OnceEvaluated(q, type))
    <3>1. Stays(q, push_operator(q, type))
      BY <2>2, PushStays DEF Stays
    <3>2. Stays(r, push_operator(q, type))
      BY <2>2, <3>1 DEF Stays
    <3> QED BY <2>2, <3>2, <1>4 DEF OnceEvaluated
  <2> QED BY <1>5, <2>1, <2>2 DEF ResolveOperator
<1>8. ASSUME NEW type
      PROVE  /\ Step(BracketClosed(EvalUntil(r, type)))
             /\ Step([EvalUntil(r, type) EXCEPT !.last_is_value = FALSE])
  <2>1. Stays(r, EvalUntil(r, type))
    BY <1>1, UntilStays
  <2> QED BY <2>1, <1>4 DEF BracketClosed
<1>9. Step(push_value(r, tk, st, fileid))
  <2> DEFINE vals == Append(r.vals, ValueOf(tk, st, fileid))
  <2>1. \/ push_value(r, tk, st, fileid) = Stopped(r, "exit")
        \/ push_value(r, tk, st, fileid) = [r EXCEPT !.vals = vals, !.last_is_value = TRUE]
    BY DEF push_value
  <2> HIDE DEF vals
  <2>2. Step([r EXCEPT !.vals = vals, !.last_is_value = TRUE])
    BY <1>1 DEF Step, IsRes
  <2> QED BY <1>6, <2>1, <2>2
<1>10. Moves(s, ResolveValue(r, tk, st, fileid))
  <2> DEFINE q == [Stopped(r, "end") EXCEPT !.n = @ - 1]
  <2>1. IsRes(q) /\ q.n = s.n /\ q.stop = "end"
    BY <1>1 DEF Stopped, IsRes
  <2>2. Moves(s, q)
    BY <2>1 DEF Moves
  <2>3. Moves(s, Stopped(r, "exit")) /\ Moves(s, push_value(r, tk, st, fileid))
    BY <1>3, <1>6, <1>9
  <2> QED BY <2>2, <2>3 DEF ResolveValue
<1>11. CASE tk.type \in Starts
  <2>1. e = Stopped(s, "end")
    BY <1>11 DEF ResolveToken, Starts, Operators, Values, Counted
  <2> QED BY <1>2, <2>1
<1>12. CASE tk.type \notin Starts
  <2>1. \/ e = Stopped(r, "exit") \/ e = Stopped(r, "end") \/ e = r
        \/ e = ResolveOperator(r, tk.type)
        \/ e = BracketClosed(EvalUntil(r, "LBRKTOP_TOK"))
        \/ e = [EvalUntil(r, "LPRN_TOK") EXCEPT !.last_is_value = FALSE]
        \/ e = [push_operator(r, tk.type) EXCEPT !.inside_offset = TRUE]
        \/ e = [push_operator(r, tk.type) EXCEPT !.inside_paren = TRUE]
        \/ e = ResolveValue(r, tk, st, fileid)
    BY <1>12 DEF ResolveToken, r
  <2>2. /\ Step([push_operator(r, tk.type) EXCEPT !.inside_offset = TRUE])
        /\ Step([push_operator(r, tk.type) EXCEPT !.inside_paren = TRUE])
    BY <1>4, <1>5
  <2> QED BY <1>3, <1>6, <1>7, <1>8, <1>10, <2>1, <2>2
<1> QED BY <1>11, <1>12

\* Where an operand that was evaluated ends.
LEMMA OperandEnds ==
  ASSUME NEW toks, IsSequence(toks), NEW n \in 1 .. Len(toks) + 1, NEW st, NEW fileid
  PROVE  LET r == resolve_uint_operand(toks, n, st, fileid)
         IN  /\ r.stop \in {"end", "exception"} \cup Refusals
             /\ r.stop = "end" => r.n \in n + 1 .. Len(toks) + 1
<1> DEFINE seq == SubSeq(toks, n + 1, Len(toks))
           len == Len(seq)
           start == ResolveStart(n)
           c == [st |-> st, fileid |-> fileid]
           res == resolve_uint_operand(toks, n, st, fileid)
<1>1. Len(toks) \in Nat /\ n \in Nat
  BY DEF IsSequence
<1>2. len \in Nat /\ n + len <= Len(toks) + 1 /\ (len # 0 => n + len <= Len(toks))
  <2> DEFINE S == {toks[i] : i \in 1 .. Len(toks)}
  <2>1. toks \in Seq(S) /\ \A k \in n + 1 .. Len(toks) : toks[k] \in S
    <3>1. \A k \in n + 1 .. Len(toks) : k \in 1 .. Len(toks)
      BY <1>1
    <3> QED BY <3>1 DEF IsSequence
  <2> HIDE DEF S
  <2> DEFINE m == n + 1
  <2>2. m \in 1 .. Len(toks) + 2 /\ m \in Nat /\ m \in Int
    BY <1>1
  <2> HIDE DEF m
  <2>3. len = IF m <= Len(toks) THEN Len(toks) - m + 1 ELSE 0
    BY <1>1, <2>1, <2>2, SubSeqProperties DEF m
  <2> QED BY <1>1, <2>2, <2>3 DEF m
<1>3. PICK f : Path(f, "resolve", c, start, seq, len) /\ res = Resolved(f[len])
  BY <1>2, ResolveWalked
<1>4. IsRes(start) /\ start.n = n /\ start.stop = "no"
  BY <1>1, SmallSequences DEF ResolveStart, IsRes
<1> HIDE DEF seq, len, start, res
<1> DEFINE G(k, s) == IsRes(s) /\ s.n \in n .. n + k /\ s.stop \in {"no", "end"} \cup Refusals
           Sat == {k \in 0 .. len : G(k, f[k])}
<1>5. 0 \in Sat
  BY <1>1, <1>2, <1>3, <1>4 DEF Path
<1>6. ASSUME NEW k \in 0 .. len - 1, k \in Sat PROVE k + 1 \in Sat
  <2>1. k + 1 \in 1 .. len /\ k + 1 \in 0 .. len /\ (k + 1) - 1 = k /\ k \in Nat
    BY <1>2
  <2>2. f[k + 1] = IF f[k].stop = "no" THEN ResolveToken(f[k], seq[k + 1], st, fileid) ELSE f[k]
    BY <1>3, <2>1 DEF Path, Stepped
  <2>3. G(k, f[k])
    BY <1>6
  <2>4. f[k].stop = "no" => Moves(f[k], f[k + 1])
    BY <2>2, <2>3, TokenMoves
  <2>5. G(k + 1, f[k + 1])
    BY <1>1, <2>1, <2>2, <2>3, <2>4 DEF Moves
  <2> QED BY <2>1, <2>5
<1>7. G(len, f[len])
  <2> HIDE DEF G
  <2>1. 0 .. len \subseteq Sat
    <3> HIDE DEF Sat
    <3> QED BY <1>2, <1>5, <1>6, StepInduction
  <2> QED BY <1>2, <2>1
<1> DEFINE last == f[len]
<1> HIDE DEF last
<1>8. CASE last.stop = "end"
  <2> DEFINE r == [last EXCEPT !.stop = "no"]
             e == EvalUntil(r, "no operator")
  <2>1. len # 0
    BY <1>2, <1>3, <1>4, <1>8 DEF Path, last
  <2>2. IsRes(r) /\ r.stop = "no" /\ r.n = last.n
    BY <1>7 DEF IsRes, last
  <2> HIDE DEF r
  <2>3. Stays(r, e)
    BY <2>2, UntilStays
  <2>4. res = Finished(e)
    BY <1>3, <1>8 DEF Resolved, r, last
  <2> HIDE DEF e
  <2>5. CASE e.stop # "no"
    BY <2>3, <2>4, <2>5 DEF Finished, Stays, Refusals, res
  <2>6. CASE e.stop = "no"
    <3> DEFINE vals == IF e.inside_offset THEN Front(e.vals) ELSE e.vals
               q == [Stopped(e, "end") EXCEPT !.n = @ + 1, !.vals = vals]
    <3>1. res = q \/ res = Stopped(e, "exit")
      BY <2>4, <2>6 DEF Finished
    <3> HIDE DEF vals
    <3>2. q.stop = "end" /\ q.n = last.n + 1 /\ Stopped(e, "exit").stop = "exit"
      BY <2>2, <2>3 DEF Stays, IsRes, Stopped
    <3> HIDE DEF q
    <3>3. last.n + 1 \in n + 1 .. Len(toks) + 1
      BY <1>1, <1>2, <1>7, <2>1 DEF last
    <3> QED BY <3>1, <3>2, <3>3 DEF Refusals, res
  <2> QED BY <2>5, <2>6
<1>9. CASE last.stop = "no"
  <2>1. res = Stopped(last, "exception")
    BY <1>3, <1>9 DEF Resolved, last
  <2>2. res.stop = "exception"
    BY <1>7, <2>1 DEF Stopped, IsRes, last
  <2> QED BY <2>2 DEF res
<1>10. CASE last.stop \in Refusals
  <2>1. res = last
    BY <1>3, <1>10 DEF Resolved, last, Refusals
  <2> QED BY <1>10, <2>1 DEF res, Refusals
<1> QED BY <1>7, <1>8, <1>9, <1>10 DEF last

\* Where the operands of an instruction end.
LEMMA OperandsEnd ==
  ASSUME AsmsInv, NEW n \in 1 .. Len(main.toks), NEW count \in Nat
  PROVE  LET s == ResolveOperands(n, count)
         IN  /\ s.stop \in {"no", "exception"} \cup Refusals
             /\ s.stop = "no" => /\ s.n \in n .. Len(main.toks) + 1
                                 /\ count = 0 => s.n = n
                                 /\ count # 0 => s.n # n
<1> DEFINE toks == main.toks
           start == [n |-> n, stop |-> "no", vals |-> <<>>]
           seq == [k \in 1 .. count |-> k]
           last == ResolveOperands(n, count)
<1>1. IsSequence(toks) /\ Len(toks) \in Nat /\ n \in Nat
  <2>1. main.path \in Readable /\ toks = Source(main.path)
    BY AsmIsOne DEF IsAsm
  <2>2. IsSequence(toks)
    BY <2>1, SourceIsSequence
  <2> QED BY <2>2 DEF IsSequence
<1>2. PICK f : Path(f, "next", count, start, seq, count) /\ last = f[count]
  BY NextWalked
<1>3. start.n = n /\ start.stop = "no" /\ start.vals = <<>> /\ DOMAIN start = {"n", "stop", "vals"}
  OBVIOUS
<1> HIDE DEF start, seq, last, toks
<1> DEFINE G(k, s) == /\ DOMAIN s = {"n", "stop", "vals"}
                      /\ s.stop \in {"no", "exception"} \cup Refusals
                      /\ s.stop = "no" => /\ s.n \in n .. Len(toks) + 1
                                          /\ k = 0 => s.n = n /\ s.vals = <<>>
                                          /\ k # 0 => s.n # n
           Sat == {k \in 0 .. count : G(k, f[k])}
<1>4. 0 \in Sat
  BY <1>1, <1>2, <1>3 DEF Path, toks
<1>5. ASSUME NEW k \in 0 .. count - 1, k \in Sat PROVE k + 1 \in Sat
  <2>1. k + 1 \in 1 .. count /\ k + 1 \in 0 .. count /\ (k + 1) - 1 = k /\ k + 1 # 0
    OBVIOUS
  <2>2. f[k + 1] = IF f[k].stop = "no" THEN ResolveNext(f[k], count) ELSE f[k]
    BY <1>2, <2>1 DEF Path, Stepped
  <2>3. G(k, f[k])
    BY <1>5
  <2> DEFINE s == f[k]
             r == f[k + 1]
  <2> HIDE DEF s, r
  <2>4. CASE s.stop # "no"
    BY <2>1, <2>2, <2>3, <2>4 DEF s
  <2>5. CASE s.stop = "no"
    <3> DEFINE m == IF s.vals # <<>> /\ count = 3 THEN s.n - 1 ELSE s.n
               q == resolve_uint_operand(toks, m, main.symtab, FileId(main.path))
    <3>1. r = TakeOperand(s, q)
      BY <2>2, <2>5 DEF ResolveNext, toks, r, s
    <3>2. m \in 1 .. Len(toks) + 1 /\ m >= n
      <4>1. s.vals # <<>> => k # 0
        BY <2>3, <2>5 DEF s
      <4>2. s.n \in n .. Len(toks) + 1 /\ (k # 0 => s.n # n)
        BY <2>3, <2>5 DEF s
      <4> QED BY <1>1, <4>1, <4>2
    <3> HIDE DEF m
    <3>3. /\ q.stop \in {"end", "exception"} \cup Refusals
          /\ q.stop = "end" => q.n \in m + 1 .. Len(toks) + 1
      BY <1>1, <3>2, OperandEnds
    <3> HIDE DEF q
    <3>4. DOMAIN s = {"n", "stop", "vals"}
      BY <2>3 DEF s
    <3>5. CASE q.stop = "end"
      <4> DEFINE vals == Append(s.vals, q.vals[1].val)
      <4>1. r = [s EXCEPT !.n = q.n, !.vals = vals]
        BY <3>1, <3>5 DEF TakeOperand
      <4> HIDE DEF vals
      <4>2. DOMAIN r = {"n", "stop", "vals"} /\ r.n = q.n /\ r.stop = "no"
        BY <2>5, <3>4, <4>1
      <4>3. q.n \in n .. Len(toks) + 1 /\ q.n # n
        BY <1>1, <3>2, <3>3, <3>5
      <4>4. G(k + 1, r)
        BY <2>1, <4>2, <4>3
      <4> QED BY <2>1, <4>4 DEF r
    <3>6. CASE q.stop # "end"
      <4>1. r = [s EXCEPT !.stop = q.stop]
        BY <3>1, <3>6 DEF TakeOperand
      <4>2. DOMAIN r = {"n", "stop", "vals"} /\ r.stop = q.stop /\ q.stop # "no"
        BY <3>3, <3>4, <4>1 DEF Refusals
      <4>3. G(k + 1, r)
        BY <3>3, <3>6, <4>2
      <4> QED BY <2>1, <4>3 DEF r
    <3> QED BY <3>5, <3>6
  <2> QED BY <2>4, <2>5
<1>6. G(count, last)
  <2> HIDE DEF G
  <2>1. 0 .. count \subseteq Sat
    <3> HIDE DEF Sat
    <3> QED BY <1>4, <1>5, StepInduction
  <2> QED BY <1>2, <2>1
<1> QED BY <1>6 DEF last, toks

-----------------------------------------------------------------------------
(* What has been read, in the first pass.                                  *)

\* The first n tokens of a file have been read: its labels among them are in the
\* table, and no import statement was the last token.
ReadTo(path, vec, n) ==
    \A m \in 1 .. n :
        /\ m \in Labels(path) => Has(vec, NameFrom(path, Source(path)[m].v))
        /\ Source(path)[m].type = "IMPORT_DEF_TOK" => m < Len(Source(path))

\* An Assembler in its first pass.
Reading(a) == ReadTo(a.path, a.symtab.vec, a.toknum - 1) /\ a.symtab.bytestream_size = 0

LEMMA HasInLarger ==
  ASSUME NEW v, NEW w, Len(v) \in Nat, Len(w) \in Nat, NEW id, Has(v, id),
         Extends(v, w) \/ Within(v, w)
  PROVE  Has(w, id)
<1>1. PICK i \in 1 .. Len(v) : v[i].id = id /\ v[i].type = "LABEL_SYMBOL"
  BY DEF Has
<1>2. CASE Extends(v, w)
  <2>1. i \in 1 .. Len(w) /\ w[i] = v[i]
    BY <1>2 DEF Extends
  <2> QED BY <1>1, <2>1 DEF Has
<1>3. CASE Within(v, w)
  <2>1. v[i].type # "ATOM_SYMBOL"
    BY <1>1
  <2>2. \E k \in 1 .. Len(w) : w[k].id = v[i].id /\ w[k].type = v[i].type
    BY <1>3, <2>1 DEF Within
  <2> QED BY <1>1, <2>2 DEF Has
<1> QED BY <1>2, <1>3

LEMMA NumbersOfAsm ==
  ASSUME NEW a, IsAsm(a)
  PROVE  /\ a.toknum \in Nat /\ a.toknum >= 1 /\ Len(a.toks) \in Nat /\ a.toks = Source(a.path)
         /\ a.path \in Readable /\ IsTable(a.symtab) /\ Len(a.symtab.vec) \in Nat
         /\ Len(a.imports) \in Nat /\ \A i \in 1 .. Len(a.imports) : IsCard(a.imports[i])
<1>1. a.path \in Readable /\ a.toks = Source(a.path) /\ a.toknum \in 1 .. Len(a.toks) + 1
  BY DEF IsAsm
<1>2. Len(a.toks) \in Nat
  BY <1>1, SourceIsSequence DEF IsSequence
<1> QED BY <1>1, <1>2 DEF IsAsm, IsTable, IsSequence

LEMMA ReadingOn ==
  ASSUME NEW a, IsAsm(a), Reading(a), NEW b, ReadOn(a, b)
  PROVE  Reading(b)
<1>1. a.toknum \in Nat /\ b.toknum \in Nat /\ a.toks = Source(a.path) /\ Len(a.symtab.vec) \in Nat
      /\ Len(b.symtab.vec) \in Nat /\ b.path = a.path /\ b.toknum > a.toknum
  BY NumbersOfAsm DEF ReadOn
<1>2. Extends(a.symtab.vec, b.symtab.vec) /\ b.symtab.bytestream_size = 0
  BY DEF ReadOn, Enlarged, Reading
<1>3. ASSUME NEW m \in 1 .. b.toknum - 1
      PROVE  /\ m \in Labels(a.path) => Has(b.symtab.vec, NameFrom(a.path, Source(a.path)[m].v))
             /\ Source(a.path)[m].type = "IMPORT_DEF_TOK" => m < Len(Source(a.path))
  <2>1. CASE m \in 1 .. a.toknum - 1
    <3>1. /\ m \in Labels(a.path) => Has(a.symtab.vec, NameFrom(a.path, Source(a.path)[m].v))
          /\ Source(a.path)[m].type = "IMPORT_DEF_TOK" => m < Len(Source(a.path))
      BY <2>1 DEF Reading, ReadTo
    <3> QED BY <1>1, <1>2, <3>1, HasInLarger
  <2>2. CASE m \in a.toknum .. b.toknum - 1
    BY <1>1, <2>2 DEF ReadOn
  <2> QED BY <1>1, <2>1, <2>2
<1> QED BY <1>1, <1>2, <1>3 DEF Reading, ReadTo

LEMMA ReadingOpened ==
  ASSUME NEW a, IsAsm(a), Reading(a), NEW b, Opened(a, b)
  PROVE  Reading(b)
<1>1. /\ a.toknum \in Nat /\ a.toks = Source(a.path) /\ b.path = a.path /\ b.symtab = a.symtab
      /\ b.toknum = a.toknum + 2 /\ a.toknum + 1 <= Len(Source(a.path)) /\ Len(Source(a.path)) \in Nat
      /\ Source(a.path)[a.toknum].type = "IMPORT_DEF_TOK"
      /\ Source(a.path)[a.toknum + 1].type = "PATH_TOK"
  BY NumbersOfAsm DEF Opened
<1>2. ASSUME NEW m \in 1 .. b.toknum - 1
      PROVE  /\ m \in Labels(a.path) => Has(a.symtab.vec, NameFrom(a.path, Source(a.path)[m].v))
             /\ Source(a.path)[m].type = "IMPORT_DEF_TOK" => m < Len(Source(a.path))
  <2>1. CASE m \in 1 .. a.toknum - 1
    BY <2>1 DEF Reading, ReadTo
  <2>2. CASE m = a.toknum
    <3>1. m \notin Labels(a.path)
      BY <1>1, <2>2 DEF Labels
    <3> QED BY <1>1, <2>2, <3>1
  <2>3. CASE m = a.toknum + 1
    <3>1. m \notin Labels(a.path)
      BY <1>1, <2>3 DEF Labels
    <3> QED BY <1>1, <2>3, <3>1
  <2> QED BY <1>1, <2>1, <2>2, <2>3
<1> QED BY <1>1, <1>2 DEF Reading, ReadTo

LEMMA ReadingNew ==
  ASSUME NEW path \in Readable, NEW keep \in BOOLEAN
  PROVE  /\ Reading(NewAssembler(path, keep)) /\ NewAssembler(path, keep).path = path
         /\ NewAssembler(path, keep).symtab.keep_symbols = keep
BY NewTable DEF Reading, ReadTo, NewAssembler

\* The labels of a file.
HasAll(vec, path) == \A n \in Labels(path) : Has(vec, NameFrom(path, Source(path)[n].v))

LEMMA HasAllInLarger ==
  ASSUME NEW v, NEW w, Len(v) \in Nat, Len(w) \in Nat, NEW path, HasAll(v, path),
         Extends(v, w) \/ Within(v, w)
  PROVE  HasAll(w, path)
BY HasInLarger DEF HasAll

LEMMA AllRead ==
  ASSUME NEW a, IsAsm(a), Reading(a), a.toknum > Len(a.toks)
  PROVE  /\ HasAll(a.symtab.vec, a.path)
         /\ \A n \in 1 .. Len(a.toks) : a.toks[n].type = "IMPORT_DEF_TOK" => n < Len(a.toks)
<1>1. /\ a.toknum \in Nat /\ Len(a.toks) \in Nat /\ a.toks = Source(a.path) /\ a.path \in Readable
  BY NumbersOfAsm
<1>2. \A n \in 1 .. Len(a.toks) : n \in 1 .. a.toknum - 1
  BY <1>1
<1>3. Labels(a.path) \subseteq 1 .. Len(a.toks)
  BY <1>1, SourceIsSequence DEF Labels
<1> QED BY <1>1, <1>2, <1>3 DEF Reading, ReadTo, HasAll

\* In the first pass every Assembler's table has what its file was read to.
ReadInv == at = "first_stage_pass" => \A i \in 1 .. Len(asms) : Reading(asms[i])

\* Each module that was read has a card, and it is no card that waits for its
\* module: its labels are in that card's table.
CardFor(i, path) ==
    \E k \in 1 .. Len(asms[i].imports) :
        /\ i < Len(asms) => k < Len(asms[i].imports)
        /\ HasAll(asms[i].imports[k].symtab.vec, path)

CardsInv ==
    at = "first_stage_pass" => \A path \in done_modules : \E i \in 1 .. Len(asms) : CardFor(i, path)

LEMMA ReadsKeep ==
  ASSUME AsmsInv, ReadInv, CardsInv, Reads
  PROVE  AsmsInv' /\ ReadInv' /\ CardsInv'
<1>1. at = "first_stage_pass"
  BY DEF Reads
<1>2. PICK a : Becomes(a) /\ ReadOn(asm, a)
  BY DEF Reads
<1>3. AsmsInv'
  BY <1>1, <1>2, BecomesKeeps DEF ReadOn
<1>4. IsSequence(asms) /\ Len(asms) \in Nat /\ Len(asms) >= 1
  BY DEF AsmsInv, IsSequence
<1>5. /\ Len(asms') = Len(asms) /\ \A i \in 1 .. Len(asms) - 1 : asms'[i] = asms[i]
      /\ asms'[Len(asms)] = a /\ at' = "first_stage_pass" /\ done_modules' = done_modules
  BY <1>1, <1>2, <1>4, ReplaceLast DEF Becomes
<1>6. asm = asms[Len(asms)] /\ a.imports = asm.imports
  BY <1>2 DEF asm, Last, ReadOn
<1>7. ASSUME NEW i \in 1 .. Len(asms) PROVE Reading(asms'[i]) /\ asms'[i].imports = asms[i].imports
  <2>1. i = Len(asms) \/ i \in 1 .. Len(asms) - 1
    BY <1>4
  <2>2. Reading(asms[i]) /\ IsAsm(asms[i])
    BY <1>1 DEF ReadInv, AsmsInv
  <2> QED BY <1>2, <1>5, <1>6, <2>1, <2>2, ReadingOn
<1>8. ReadInv'
  BY <1>5, <1>7 DEF ReadInv
<1>9. CardsInv'
  BY <1>1, <1>5, <1>7 DEF CardsInv, CardFor
<1> QED BY <1>3, <1>8, <1>9

LEMMA OpensKeep ==
  ASSUME AsmsInv, ReadInv, CardsInv, Opens
  PROVE  AsmsInv' /\ ReadInv' /\ CardsInv'
<1>1. at = "first_stage_pass" /\ at' = at /\ done_modules' = done_modules /\ Len(asms) # MaxNesting
  BY DEF Opens
<1>2. PICK a : \E path \in Readable :
          Opened(asm, a) /\ asms' = Append(Front(asms), a) \o <<NewAssembler(path, FALSE)>>
  BY DEF Opens
<1>3. PICK path \in Readable :
          Opened(asm, a) /\ asms' = Append(Front(asms), a) \o <<NewAssembler(path, FALSE)>>
  BY <1>2
<1>4. /\ AsmsInv' /\ Len(asms') = Len(asms) + 1
      /\ \A i \in 1 .. Len(asms) - 1 : asms'[i] = asms[i]
      /\ asms'[Len(asms)] = a /\ asms'[Len(asms) + 1] = NewAssembler(path, FALSE)
  BY <1>1, <1>3, OpensKeeps
<1>5. Len(asms) \in Nat /\ Len(asms) >= 1
  BY DEF AsmsInv, IsSequence
<1>6. asm = asms[Len(asms)]
  BY DEF asm, Last
<1> DEFINE n == Len(asms)
<1> HIDE DEF n
<1>7. ASSUME NEW i \in 1 .. n + 1 PROVE Reading(asms'[i])
  <2>1. i = n + 1 \/ i = n \/ i \in 1 .. n - 1
    BY <1>5 DEF n
  <2>2. CASE i = n + 1
    BY <1>4, <2>2, ReadingNew DEF n
  <2>3. CASE i = n
    <3>1. Reading(asm) /\ IsAsm(asm)
      BY <1>1, <1>5, <1>6, AsmIsOne DEF ReadInv
    <3> QED BY <1>3, <1>4, <2>3, <3>1, ReadingOpened DEF n
  <2>4. CASE i \in 1 .. n - 1
    <3>1. i \in 1 .. n
      BY <1>5, <2>4 DEF n
    <3> QED BY <1>1, <1>4, <2>4, <3>1 DEF ReadInv, n
  <2> QED BY <2>1, <2>2, <2>3, <2>4
<1>8. ReadInv'
  BY <1>1, <1>4, <1>7 DEF ReadInv, n
<1>9. ASSUME NEW p \in done_modules PROVE \E i \in 1 .. n + 1 : CardFor(i, p)'
  <2>1. PICK i \in 1 .. n : CardFor(i, p)
    BY <1>1 DEF CardsInv, n
  <2>2. PICK k \in 1 .. Len(asms[i].imports) :
            /\ i < n => k < Len(asms[i].imports)
            /\ HasAll(asms[i].imports[k].symtab.vec, p)
    BY <2>1 DEF CardFor, n
  <2>3. i \in 1 .. n + 1 /\ n \in Nat /\ i < n + 1
    BY <1>5 DEF n
  <2>4. CASE i = n
    <3>1. /\ Len(a.imports) = Len(asm.imports) + 1 /\ a.imports[k] = asm.imports[k]
          /\ Len(asm.imports) \in Nat
      <4>1. IsAsm(asm) /\ k \in 1 .. Len(asm.imports)
        BY <1>6, <2>4, AsmIsOne DEF n
      <4> QED BY <1>3, <4>1, NumbersOfAsm DEF Opened
    <3>2. k \in 1 .. Len(asms'[i].imports) /\ k < Len(asms'[i].imports)
          /\ HasAll(asms'[i].imports[k].symtab.vec, p)
      BY <1>4, <1>6, <2>2, <2>4, <3>1 DEF n
    <3> QED BY <2>3, <3>2 DEF CardFor
  <2>5. CASE i # n
    <3>1. i \in 1 .. n - 1 /\ i < n
      BY <2>3, <2>5
    <3>2. asms'[i] = asms[i]
      BY <1>4, <3>1 DEF n
    <3> QED BY <2>2, <2>3, <3>1, <3>2 DEF CardFor
  <2> QED BY <2>4, <2>5
<1>10. CardsInv'
  BY <1>1, <1>4, <1>9 DEF CardsInv, n
<1> QED BY <1>4, <1>8, <1>10

LEMMA MergedOfAsm ==
  ASSUME NEW a, IsAsm(a)
  PROVE  LET r == WithImports(a)
         IN  /\ Enlarged(a.symtab, r) /\ IsTable(r) /\ Len(r.vec) \in Nat
             /\ \A path : HasAll(a.symtab.vec, path) => HasAll(r.vec, path)
             /\ \A k \in 1 .. Len(a.imports) : \A path :
                    HasAll(a.imports[k].symtab.vec, path) => HasAll(r.vec, path)
<1> DEFINE r == WithImports(a)
<1>1. IsTable(a.symtab) /\ Len(a.imports) \in Nat /\ Len(a.symtab.vec) \in Nat
      /\ \A k \in 1 .. Len(a.imports) : IsCard(a.imports[k])
  BY NumbersOfAsm
<1>2. /\ Enlarged(a.symtab, r)
      /\ \A k \in 1 .. Len(a.imports) : Within(a.imports[k].symtab.vec, r.vec)
  BY <1>1, WithImportsEnlarges
<1> HIDE DEF r
<1>3. IsTable(r) /\ Len(r.vec) \in Nat /\ Extends(a.symtab.vec, r.vec)
  BY <1>2 DEF Enlarged, IsTable, IsSequence
<1>4. \A path : HasAll(a.symtab.vec, path) => HasAll(r.vec, path)
  BY <1>1, <1>3, HasAllInLarger
<1>5. ASSUME NEW k \in 1 .. Len(a.imports), NEW path, HasAll(a.imports[k].symtab.vec, path)
      PROVE  HasAll(r.vec, path)
  <2>1. Len(a.imports[k].symtab.vec) \in Nat
    BY <1>1 DEF IsCard, IsTable, IsSequence
  <2> QED BY <1>2, <1>3, <1>5, <2>1, HasAllInLarger
<1> QED BY <1>2, <1>3, <1>4, <1>5 DEF r

LEMMA ReturnKeepsCards ==
  ASSUME AsmsInv, ReadInv, CardsInv, ImportReturns
  PROVE  AsmsInv' /\ ReadInv' /\ CardsInv'
<1> DEFINE n == Len(asms)
           merged == WithImports(asm)
           b == asms'[n - 1]
<1>1. /\ AsmsInv' /\ at = "first_stage_pass" /\ at' = at /\ n > 1 /\ asm.toknum > Len(asm.toks)
      /\ Len(asms') = n - 1 /\ \A i \in 1 .. n - 2 : asms'[i] = asms[i]
      /\ Returned(asms[n - 1], asm, b)
      /\ done_modules' = done_modules \cup {asm.path}
  BY ReturnsKeep DEF Returns
<1>2. n \in Nat /\ n \in 1 .. n /\ n - 1 \in 1 .. n /\ asm = asms[n]
  BY <1>1 DEF AsmsInv, IsSequence, asm, Last
<1>3. IsAsm(asm) /\ Reading(asm) /\ IsAsm(asms[n - 1]) /\ Reading(asms[n - 1])
  BY <1>1, <1>2 DEF AsmsInv, ReadInv
<1> HIDE DEF n, merged, b
<1>4. /\ b.path = asms[n - 1].path /\ b.toknum = asms[n - 1].toknum /\ b.symtab = asms[n - 1].symtab
      /\ Len(b.imports) = Len(asms[n - 1].imports) /\ Len(b.imports) >= 1 /\ Len(b.imports) \in Nat
      /\ \A k \in 1 .. Len(b.imports) - 1 : b.imports[k] = asms[n - 1].imports[k]
      /\ b.imports[Len(b.imports)].symtab = merged
  BY <1>1, <1>3, NumbersOfAsm DEF Returned, merged
<1>5. ASSUME NEW i \in 1 .. n - 1 PROVE Reading(asms'[i])
  <2>1. CASE i = n - 1
    BY <1>3, <1>4, <2>1 DEF Reading, b
  <2>2. CASE i # n - 1
    <3>1. i \in 1 .. n - 2 /\ i \in 1 .. n
      BY <1>2, <2>2
    <3> QED BY <1>1, <3>1 DEF ReadInv, n
  <2> QED BY <2>1, <2>2
<1>6. ReadInv'
  BY <1>1, <1>5 DEF ReadInv, n
<1>7. /\ HasAll(merged.vec, asm.path)
      /\ \A k \in 1 .. Len(asm.imports) : \A path :
             HasAll(asm.imports[k].symtab.vec, path) => HasAll(merged.vec, path)
  BY <1>1, <1>3, MergedOfAsm, AllRead DEF merged
<1>8. ASSUME NEW path, HasAll(merged.vec, path) PROVE \E i \in 1 .. n - 1 : CardFor(i, path)'
  <2>1. n - 1 \in 1 .. n - 1 /\ ~(n - 1 < n - 1) /\ Len(b.imports) \in 1 .. Len(b.imports)
    BY <1>1, <1>2, <1>4
  <2>2. PICK m \in 1 .. n - 1 : m = n - 1
    BY <2>1
  <2>3. CardFor(m, path)'
    BY <1>1, <1>4, <1>8, <2>1, <2>2 DEF CardFor, b, n
  <2> QED BY <2>3
<1>9. ASSUME NEW path \in done_modules PROVE \E i \in 1 .. n - 1 : CardFor(i, path)'
  <2>1. PICK i \in 1 .. n : CardFor(i, path)
    BY <1>1 DEF CardsInv, n
  <2>2. PICK k \in 1 .. Len(asms[i].imports) :
            /\ i < n => k < Len(asms[i].imports)
            /\ HasAll(asms[i].imports[k].symtab.vec, path)
    BY <2>1 DEF CardFor, n
  <2>3. CASE i = n
    BY <1>2, <1>7, <1>8, <2>2, <2>3
  <2>4. CASE i = n - 1
    <3>1. i < n /\ i \in 1 .. n - 1 /\ ~(i < n - 1)
      BY <1>1, <1>2, <2>4
    <3>2. k \in 1 .. Len(b.imports) /\ k \in 1 .. Len(b.imports) - 1
      BY <1>4, <2>2, <2>4, <3>1
    <3>3. HasAll(b.imports[k].symtab.vec, path)
      BY <1>4, <2>2, <2>4, <3>2
    <3>4. CardFor(i, path)'
      BY <1>1, <2>4, <3>1, <3>2, <3>3 DEF CardFor, b, n
    <3> QED BY <3>1, <3>4
  <2>5. CASE i \in 1 .. n - 2
    <3>1. i < n /\ i < n - 1 /\ i \in 1 .. n - 1
      BY <1>2, <2>5
    <3>2. asms'[i] = asms[i]
      BY <1>1, <2>5
    <3>3. CardFor(i, path)'
      BY <2>2, <3>1, <3>2 DEF CardFor
    <3> QED BY <3>1, <3>3
  <2>6. i = n \/ i = n - 1 \/ i \in 1 .. n - 2
    BY <1>2
  <2> QED BY <2>3, <2>4, <2>5, <2>6
<1>10. CardsInv'
  BY <1>1, <1>7, <1>8, <1>9 DEF CardsInv, n
<1> QED BY <1>1, <1>6, <1>10

LEMMA FirstPassKeeps ==
  ASSUME AsmsInv, ReadInv, CardsInv, FirstPass
  PROVE  AsmsInv' /\ ReadInv' /\ CardsInv'
<1>1. CASE Stops
  <2>1. PICK how \in Errors : Ends(how)
    BY <1>1 DEF Stops
  <2>2. AsmsInv' /\ at' = how /\ how # "first_stage_pass"
    BY <2>1, EndsKeeps DEF Ends, Errors
  <2> QED BY <2>2 DEF ReadInv, CardsInv
<1> QED BY <1>1, FirstPassSteps, ReadsKeep, OpensKeep, ReturnKeepsCards

-----------------------------------------------------------------------------
(* The steps after the first pass.                                         *)

\* The first pass is over, and nothing has failed.
Assembling == at \notin {"first_stage_pass"} \cup Errors

\* b is the main module's Assembler after a step.
MainBecomes(b) == IsAsm(b) /\ b.path = main.path /\ asms' = <<b>>

LEMMA OneMain ==
  ASSUME AsmsInv, NEW b, MainBecomes(b)
  PROVE  AsmsInv' /\ main' = b
<1>1. IsSequence(<<b>>) /\ Len(<<b>>) = 1 /\ <<b>>[1] = b
  BY SmallSequences
<1>2. IsAsm(b) /\ asms' = <<b>> /\ b.path \in MainPaths
  BY DEF MainBecomes, AsmsInv, main
<1> DEFINE one == <<b>>
<1> HIDE DEF one
<1>3. asms' = one /\ IsSequence(one) /\ Len(one) = 1 /\ one[1] = b
  BY <1>1, <1>2 DEF one
<1>4. MaxNesting >= 1 /\ \A i \in 1 .. 1 : i = 1
  BY AssemblerAssumption
<1>5. \A i \in 1 .. 1 - 1 : FALSE
  OBVIOUS
<1> QED BY <1>2, <1>3, <1>4, <1>5 DEF AsmsInv, main

LEMMA TheMain ==
  ASSUME AsmsInv, Assembling \/ Len(asms) = 1
  PROVE  /\ Len(asms) = 1 /\ asm = main /\ IsAsm(main) /\ DOMAIN main = AsmFields
         /\ Len(main.toks) \in Nat /\ main.toknum \in Nat /\ main.toknum \in 1 .. Len(main.toks) + 1
         /\ main.toks = Source(main.path)
         /\ main.path \in Readable /\ IsTable(main.symtab) /\ Len(main.symtab.vec) \in Nat
<1>1. Len(asms) = 1
  BY DEF AsmsInv, Assembling
<1>2. asm = main
  BY <1>1 DEF asm, main, Last
<1> QED BY <1>1, <1>2, AsmIsOne, NumbersOfAsm DEF IsAsm

\* The main module's Assembler with another table, or another token.
LEMMA MainChanged ==
  ASSUME AsmsInv, Assembling \/ Len(asms) = 1, NEW st, IsTable(st), NEW t \in 1 .. Len(main.toks) + 1
  PROVE  /\ LET b == [main EXCEPT !.symtab = st]
            IN  IsAsm(b) /\ b.path = main.path /\ b.symtab = st /\ b.toknum = main.toknum
         /\ LET b == [main EXCEPT !.toknum = t]
            IN  IsAsm(b) /\ b.path = main.path /\ b.symtab = main.symtab /\ b.toknum = t
BY TheMain DEF IsAsm, AsmFields

MergesSymbols(b) ==
    /\ FirstPassOver /\ Len(asms) = 1 /\ MainBecomes(b)
    /\ b.symtab.vec = WithImports(main).vec
    /\ b.symtab.keep_symbols = main.symtab.keep_symbols
    /\ b.symtab.bytestream_size = Sized(WithImports(main))
    /\ at' = "alloc_bytestream" /\ UNCHANGED <<output, done_modules>>

LEMMA MergeSymbolsStep ==
  ASSUME AsmsInv, MergeImportSymbols
  PROVE  Stops \/ \E b : MergesSymbols(b)
<1> DEFINE merged == WithImports(main)
           sized == main_module_serial_size(merged, FileId(main.path))
           b == [main EXCEPT !.symtab = sized]
<1>1. FirstPassOver /\ Len(asms) = 1
  BY DEF MergeImportSymbols
<1>2. \/ Ends("exception") \/ Ends("crashed")
      \/ asms' = <<b>> /\ at' = "alloc_bytestream" /\ UNCHANGED <<output, done_modules>>
  BY DEF MergeImportSymbols
<1>3. Ends("exception") \/ Ends("crashed") => Stops
  BY DEF Stops, Errors
<1>4. IsAsm(main)
  BY AsmIsOne
<1>5. IsTable(merged) /\ merged.keep_symbols = main.symtab.keep_symbols
  BY <1>4, MergedOfAsm DEF Enlarged
<1> HIDE DEF merged
<1>6. /\ IsTable(sized) /\ sized.vec = merged.vec /\ sized.keep_symbols = merged.keep_symbols
      /\ sized.bytestream_size = Sized(merged)
  BY <1>5, SizedByMain
<1> HIDE DEF sized
<1>7. main.toknum \in 1 .. Len(main.toks) + 1
  BY <1>1, TheMain
<1>8. IsAsm(b) /\ b.path = main.path /\ b.symtab = sized
  BY <1>1, <1>6, <1>7, MainChanged
<1> HIDE DEF b
<1>9. asms' = <<b>> /\ at' = "alloc_bytestream" /\ UNCHANGED <<output, done_modules>> => MergesSymbols(b)
  BY <1>1, <1>5, <1>6, <1>8 DEF MergesSymbols, MainBecomes, merged
<1> QED BY <1>2, <1>3, <1>9

Finalises(b) ==
    /\ at = "finalise" /\ MainBecomes(b)
    /\ SameNames(main.symtab.vec, b.symtab.vec)
    /\ b.symtab.keep_symbols = main.symtab.keep_symbols
    /\ b.symtab.bytestream_size = Sized(main.symtab)
    /\ at' = "build_im_form" /\ UNCHANGED <<output, done_modules>>

LEMMA FinaliseStep ==
  ASSUME AsmsInv, Finalise
  PROVE  \E b : Finalises(b)
<1> DEFINE final == finalise(main.symtab, metadata)
           b == [main EXCEPT !.symtab = final, !.toknum = 1]
<1>1. at = "finalise" /\ asms' = <<b>> /\ at' = "build_im_form" /\ UNCHANGED <<output, done_modules>>
  BY DEF Finalise
<1>2. Assembling
  BY <1>1 DEF Assembling, Errors
<1>3. IsTable(main.symtab) /\ 1 \in 1 .. Len(main.toks) + 1
  BY <1>2, TheMain
<1>4. /\ IsTable(final) /\ SameNames(main.symtab.vec, final.vec)
      /\ final.keep_symbols = main.symtab.keep_symbols
      /\ final.bytestream_size = Sized(main.symtab)
  BY <1>3, Finalised
<1> HIDE DEF final
<1>5. IsAsm(b) /\ b.path = main.path /\ b.symtab = final
  BY <1>2, <1>3, <1>4, TheMain DEF IsAsm, AsmFields
<1> HIDE DEF b
<1> QED BY <1>1, <1>4, <1>5 DEF Finalises, MainBecomes

\* One instruction is made from the token that is looked at.
Builds(b) ==
    /\ at = "build_im_form" /\ MainBecomes(b) /\ b.symtab = main.symtab
    /\ main.toknum \in 1 .. Len(main.toks) /\ main.toks[main.toknum].type = "OPCODE_TOK"
    /\ \E vals : instr_vec' = Append(instr_vec, [opcode |-> main.toks[main.toknum].v, vals |-> vals])
    /\ UNCHANGED <<at, bytestream_size, metadata, bytes, done_modules>>

LEMMA BuildStep ==
  ASSUME AsmsInv, BuildInstr
  PROVE  Stops \/ \E b : Builds(b)
<1> DEFINE count == OperandCount[tok.v]
           s == ResolveOperands(main.toknum, count)
           t == IF count = 0 THEN s.n + 1 ELSE s.n
           b == [main EXCEPT !.toknum = t]
           instr == [opcode |-> tok.v, vals |-> s.vals]
<1>1. at = "build_im_form" /\ main.toknum <= Len(main.toks) /\ tok.type = "OPCODE_TOK"
      /\ tok.v \in DOMAIN OperandCount
  BY DEF BuildInstr, Building
<1>2. IF s.stop # "no" THEN Ends(s.stop)
      ELSE /\ instr_vec' = Append(instr_vec, instr)
           /\ asms' = <<b>>
           /\ UNCHANGED <<at, bytestream_size, metadata, bytes, done_modules>>
  BY DEF BuildInstr
<1>3. Assembling
  BY <1>1 DEF Assembling, Errors
<1>4. /\ asm = main /\ Len(main.toks) \in Nat /\ main.toknum \in Nat /\ main.toknum \in 1 .. Len(main.toks)
      /\ IsTable(main.symtab)
  BY <1>1, <1>3, TheMain
<1>5. count \in Nat
  BY <1>1, Counts
<1>6. tok = main.toks[main.toknum]
  BY <1>4 DEF tok
<1> HIDE DEF count
<1>7. /\ s.stop \in {"no", "exception"} \cup Refusals
      /\ s.stop = "no" => /\ s.n \in main.toknum .. Len(main.toks) + 1
                          /\ count = 0 => s.n = main.toknum
  BY <1>4, <1>5, OperandsEnd
<1> HIDE DEF s
<1>8. CASE s.stop # "no"
  BY <1>2, <1>7, <1>8 DEF Stops, Errors, Refusals
<1>9. CASE s.stop = "no"
  <2>1. t \in 1 .. Len(main.toks) + 1
    BY <1>4, <1>7, <1>9
  <2> HIDE DEF t
  <2>2. IsAsm(b) /\ b.path = main.path /\ b.symtab = main.symtab
    BY <1>3, <1>4, <2>1, MainChanged
  <2> HIDE DEF b
  <2>3. Builds(b)
    BY <1>1, <1>2, <1>4, <1>6, <1>9, <2>2 DEF Builds, MainBecomes
  <2> QED BY <2>3
<1> QED BY <1>8, <1>9

BuildsUnlisted ==
    /\ at = "build_im_form" /\ asms' = asms
    /\ main.toknum \in 1 .. Len(main.toks) /\ main.toks[main.toknum].type = "OPCODE_TOK"
    /\ instr_vec' = Append(instr_vec, [opcode |-> main.toks[main.toknum].v, vals |-> <<>>])
    /\ UNCHANGED <<at, bytestream_size, metadata, bytes, done_modules>>

LEMMA BuildUnlistedStep ==
  ASSUME AsmsInv, BuildUnlistedInstr
  PROVE  Stops \/ BuildsUnlisted
<1>1. at = "build_im_form" /\ main.toknum <= Len(main.toks) /\ tok.type = "OPCODE_TOK"
  BY DEF BuildUnlistedInstr, Building
<1>2. /\ asm = main /\ main.toknum \in 1 .. Len(main.toks)
  BY <1>1, TheMain DEF Assembling, Errors
<1>3. tok = main.toks[main.toknum]
  BY <1>2 DEF tok
<1>4. Ends("caught") => Stops
  BY DEF Stops, Errors
<1> QED BY <1>1, <1>2, <1>3, <1>4 DEF BuildUnlistedInstr, BuildsUnlisted

\* The main module's last token is no import statement: its path would be
\* missing, and the first pass does not get past that.
PathsInv ==
    Assembling => \A n \in 1 .. Len(main.toks) :
                      main.toks[n].type = "IMPORT_DEF_TOK" => n < Len(main.toks)

Skips(b) ==
    /\ at = "build_im_form" /\ MainBecomes(b) /\ b.symtab = main.symtab
    /\ UNCHANGED <<at, output, done_modules>>

LEMMA SkipStep ==
  ASSUME AsmsInv, PathsInv, SkipOther
  PROVE  \E b : Skips(b)
<1> DEFINE t == main.toknum + (IF tok.type = "IMPORT_DEF_TOK" THEN 2 ELSE 1)
           b == [main EXCEPT !.toknum = t]
<1>1. at = "build_im_form" /\ main.toknum <= Len(main.toks) /\ asms' = <<b>>
      /\ UNCHANGED <<at, output, done_modules>>
  BY DEF SkipOther
<1>2. Assembling
  BY <1>1 DEF Assembling, Errors
<1>3. /\ asm = main /\ Len(main.toks) \in Nat /\ main.toknum \in Nat /\ main.toknum \in 1 .. Len(main.toks)
      /\ IsTable(main.symtab)
  BY <1>1, <1>2, TheMain
<1>4. tok.type = "IMPORT_DEF_TOK" => main.toknum < Len(main.toks)
  BY <1>2, <1>3 DEF PathsInv, tok
<1>5. t \in 1 .. Len(main.toks) + 1
  BY <1>3, <1>4
<1> HIDE DEF t
<1>6. IsAsm(b) /\ b.path = main.path /\ b.symtab = main.symtab
  BY <1>2, <1>3, <1>5, MainChanged
<1> HIDE DEF b
<1> QED BY <1>1, <1>6 DEF Skips, MainBecomes

MergesList(b) ==
    /\ at = "merge_import_list" /\ MainBecomes(b) /\ b.symtab = WithImports(main)
    /\ at' = "write_prog_to_bytes" /\ UNCHANGED <<output, done_modules>>

LEMMA MergeListStep ==
  ASSUME AsmsInv, MergeImportList
  PROVE  \E b : MergesList(b)
<1> DEFINE merged == WithImports(main)
           b == [main EXCEPT !.symtab = merged]
<1>1. at = "merge_import_list" /\ asms' = <<b>> /\ at' = "write_prog_to_bytes"
      /\ UNCHANGED <<output, done_modules>>
  BY DEF MergeImportList
<1>2. Assembling
  BY <1>1 DEF Assembling, Errors
<1>3. IsAsm(main) /\ main.toknum \in 1 .. Len(main.toks) + 1
  BY <1>2, TheMain
<1>4. IsTable(merged)
  BY <1>3, MergedOfAsm
<1> HIDE DEF merged
<1>5. IsAsm(b) /\ b.path = main.path /\ b.symtab = merged
  BY <1>2, <1>3, <1>4, MainChanged
<1> HIDE DEF b
<1> QED BY <1>1, <1>5 DEF MergesList, MainBecomes, merged

\* Steps that leave the Assembler as it is.
Rests ==
    /\ AllocBytestream \/ BuildMetadata \/ ImFormBuilt \/ WriteProgToBytes
    /\ at' \notin Errors /\ asms' = asms /\ done_modules' = done_modules

\* What a step after the first pass does.
LEMMA SecondPassSteps ==
  ASSUME AsmsInv, PathsInv, AssembleMain
  PROVE  \/ Stops \/ BuildsUnlisted \/ Rests
         \/ \E b : MergesSymbols(b) \/ Finalises(b) \/ Builds(b) \/ Skips(b) \/ MergesList(b)
<1>1. CASE MergeImportSymbols
  BY <1>1, MergeSymbolsStep
<1>2. CASE AllocBytestream \/ BuildMetadata \/ ImFormBuilt
  BY <1>2 DEF Rests, AllocBytestream, BuildMetadata, ImFormBuilt, Errors
<1>8. CASE WriteProgToBytes
  <2>1. Ends("crashed") => Stops
    BY DEF Stops, Errors
  <2>2. \/ Ends("crashed")
        \/ at' = "done" /\ asms' = asms /\ done_modules' = done_modules
    BY <1>8 DEF WriteProgToBytes
  <2> QED BY <1>8, <2>1, <2>2 DEF Rests, Errors
<1>3. CASE Finalise
  BY <1>3, FinaliseStep
<1>4. CASE BuildInstr
  BY <1>4, BuildStep
<1>5. CASE BuildUnlistedInstr
  BY <1>5, BuildUnlistedStep
<1>6. CASE SkipOther
  BY <1>6, SkipStep
<1>7. CASE MergeImportList
  BY <1>7, MergeListStep
<1> QED BY <1>1, <1>2, <1>3, <1>4, <1>5, <1>6, <1>7, <1>8 DEF AssembleMain

\* The modules that were read are in the main module's table, once the imports
\* are merged.
VisibleInv == Assembling => \A path \in done_modules : HasAll(main.symtab.vec, path)

\* The inductive invariant.
AsmInv == AsmsInv /\ ReadInv /\ CardsInv /\ PathsInv /\ VisibleInv

\* Where a step after the first pass leads.
LEMMA StepNames ==
  ASSUME \/ BuildsUnlisted \/ Rests
         \/ \E b : Finalises(b) \/ Builds(b) \/ Skips(b) \/ MergesList(b)
  PROVE  Assembling /\ Assembling' /\ at' # "first_stage_pass" /\ done_modules' = done_modules
BY DEF BuildsUnlisted, Rests, Finalises, Builds, Skips, MergesList, Assembling, Errors,
       AllocBytestream, BuildMetadata, ImFormBuilt, WriteProgToBytes, Ends

LEMMA SameNamesHave ==
  ASSUME NEW v, NEW w, SameNames(v, w), NEW path, HasAll(v, path)
  PROVE  HasAll(w, path)
BY DEF SameNames, HasAll, Has

LEMMA SecondPassKeeps ==
  ASSUME AsmInv, AssembleMain
  PROVE  AsmInv'
<1>1. AsmsInv /\ ReadInv /\ CardsInv /\ PathsInv /\ VisibleInv
  BY DEF AsmInv
<1>2. CASE Stops
  <2>1. PICK how \in Errors : Ends(how)
    BY <1>2 DEF Stops
  <2>2. AsmsInv' /\ at' = how /\ at' # "first_stage_pass"
    BY <1>1, <2>1, EndsKeeps DEF Ends, Errors
  <2>3. ~Assembling'
    BY <2>1, <2>2 DEF Assembling
  <2> QED BY <2>2, <2>3 DEF AsmInv, ReadInv, CardsInv, PathsInv, VisibleInv
<1>3. CASE BuildsUnlisted \/ Rests
  <2>1. Assembling /\ Assembling' /\ at' # "first_stage_pass" /\ done_modules' = done_modules
    BY <1>3, StepNames
  <2>2. asms' = asms
    BY <1>3 DEF BuildsUnlisted, Rests
  <2>3. AsmsInv'
    BY <1>1, <2>1, <2>2 DEF AsmsInv, Assembling
  <2> QED BY <1>1, <2>1, <2>2, <2>3 DEF AsmInv, ReadInv, CardsInv, PathsInv, VisibleInv, main
<1>4. ASSUME NEW b, Finalises(b) \/ Builds(b) \/ Skips(b) \/ MergesList(b) PROVE AsmInv'
  <2>1. Assembling /\ Assembling' /\ at' # "first_stage_pass" /\ done_modules' = done_modules
    BY <1>4, StepNames
  <2>2. MainBecomes(b)
    BY <1>4 DEF Finalises, Builds, Skips, MergesList
  <2>3. AsmsInv' /\ main' = b
    BY <1>1, <2>2, OneMain
  <2>4. b.toks = main.toks
    BY <1>1, <2>1, <2>2, TheMain DEF MainBecomes, IsAsm
  <2>5. ASSUME NEW path, HasAll(main.symtab.vec, path) PROVE HasAll(b.symtab.vec, path)
    <3>1. CASE Finalises(b)
      BY <2>5, <3>1, SameNamesHave DEF Finalises
    <3>2. CASE MergesList(b)
      <4>1. IsAsm(main) /\ b.symtab = WithImports(main)
        BY <1>1, <3>2, AsmIsOne DEF MergesList
      <4> QED BY <2>5, <4>1, MergedOfAsm
    <3>3. CASE Builds(b) \/ Skips(b)
      BY <2>5, <3>3 DEF Builds, Skips
    <3> QED BY <1>4, <3>1, <3>2, <3>3
  <2>6. VisibleInv'
    BY <1>1, <2>1, <2>3, <2>5 DEF VisibleInv
  <2>7. PathsInv'
    BY <1>1, <2>1, <2>3, <2>4 DEF PathsInv
  <2> QED BY <2>1, <2>3, <2>6, <2>7 DEF AsmInv, ReadInv, CardsInv
<1>5. ASSUME NEW b, MergesSymbols(b) PROVE AsmInv'
  <2>1. /\ at = "first_stage_pass" /\ Len(asms) = 1 /\ MainBecomes(b) /\ main.toknum > Len(main.toks)
        /\ b.symtab.vec = WithImports(main).vec
        /\ at' = "alloc_bytestream" /\ done_modules' = done_modules
    BY <1>1, <1>5, TheMain DEF MergesSymbols, FirstPassOver
  <2>2. AsmsInv' /\ main' = b
    BY <1>1, <2>1, OneMain
  <2>3. IsAsm(main) /\ Reading(main)
    BY <1>1, <2>1, AsmIsOne DEF ReadInv, main
  <2>4. ASSUME NEW path \in done_modules PROVE HasAll(b.symtab.vec, path)
    <3>1. PICK i \in 1 .. 1 : CardFor(i, path)
      BY <1>1, <2>1 DEF CardsInv
    <3>2. i = 1
      OBVIOUS
    <3>3. PICK k \in 1 .. Len(main.imports) : HasAll(main.imports[k].symtab.vec, path)
      BY <3>1, <3>2 DEF CardFor, main
    <3> QED BY <2>1, <2>3, <3>3, MergedOfAsm
  <2>5. VisibleInv'
    BY <2>1, <2>2, <2>4 DEF VisibleInv
  <2>6. b.toks = main.toks
    BY <2>1, <2>3 DEF MainBecomes, IsAsm
  <2>7. PathsInv'
    BY <2>1, <2>2, <2>3, <2>6, AllRead DEF PathsInv
  <2> QED BY <2>1, <2>2, <2>5, <2>7 DEF AsmInv, ReadInv, CardsInv
<1> QED BY <1>1, <1>2, <1>3, <1>4, <1>5, SecondPassSteps

LEMMA AsmInvInit ==
  ASSUME Init
  PROVE  AsmInv
<1>1. PICK path \in MainPaths, keep \in BOOLEAN : asms = <<NewAssembler(path, keep)>>
  BY DEF Init
<1>2. path \in Readable /\ at = "first_stage_pass" /\ done_modules = {}
  BY DEF Init, Readable
<1> DEFINE new == NewAssembler(path, keep)
<1>3. IsAsm(new) /\ Reading(new) /\ new.path \in MainPaths
  BY <1>2, NewAsm, ReadingNew
<1> HIDE DEF new
<1>4. IsSequence(asms) /\ Len(asms) = 1 /\ asms[1] = new /\ main = new
  BY <1>1, SmallSequences DEF new, main
<1>5. \A i \in 1 .. Len(asms) : asms[i] = new
  BY <1>4
<1>6. 1 <= MaxNesting /\ \A i \in 1 .. Len(asms) - 1 : FALSE
  BY <1>4, AssemblerAssumption
<1>7. AsmsInv
  BY <1>2, <1>3, <1>4, <1>5, <1>6 DEF AsmsInv
<1>8. ReadInv /\ CardsInv
  BY <1>2, <1>3, <1>5 DEF ReadInv, CardsInv
<1>9. ~Assembling
  BY <1>2 DEF Assembling
<1> QED BY <1>7, <1>8, <1>9 DEF AsmInv, PathsInv, VisibleInv

\* The first pass writes nothing.
LEMMA FirstPassStays ==
  ASSUME AsmsInv, FirstPass
  PROVE  /\ at = "first_stage_pass" /\ at' \in {"first_stage_pass"} \cup Errors /\ output' = output
         /\ done_modules' \in {done_modules, done_modules \cup {asm.path}}
<1>1. at = "first_stage_pass"
  BY DEF FirstPass, OpcodeTok, UnlistedOpcodeTok, MacroDefTok, LabelDefTok, SkippedTok, ValueTok,
         StrayTok, ImportDefTok, ImportReturns, InFirstPass, FirstPassOver
<1>2. Stops \/ Reads \/ Opens \/ ImportReturns
  BY FirstPassSteps
<1> QED BY <1>1, <1>2 DEF Stops, Ends, Reads, Becomes, Opens, ImportReturns, output

LEMMA AsmInvNext ==
  ASSUME AsmInv, [Next]_vars
  PROVE  AsmInv'
<1>1. CASE FirstPass
  <2>1. AsmsInv' /\ ReadInv' /\ CardsInv'
    BY <1>1, FirstPassKeeps DEF AsmInv
  <2>2. ~Assembling'
    BY <1>1, FirstPassStays DEF Assembling, AsmInv
  <2> QED BY <2>1, <2>2 DEF AsmInv, PathsInv, VisibleInv
<1>2. CASE AssembleMain
  BY <1>2, SecondPassKeeps
<1>3. CASE UNCHANGED vars
  BY <1>3 DEF vars, AsmInv, AsmsInv, ReadInv, CardsInv, PathsInv, VisibleInv, Assembling, CardFor, main
<1> QED BY <1>1, <1>2, <1>3 DEF Next

\* The Assemblers on the stack, their cards and what was read belong together at
\* each step of assemble_main_module.
THEOREM AsmInvHolds == Spec => []AsmInv
<1>1. Init => AsmInv
  BY AsmInvInit
<1>2. AsmInv /\ [Next]_vars => AsmInv'
  BY AsmInvNext
<1> QED BY <1>1, <1>2, PTL DEF Spec

-----------------------------------------------------------------------------
(* What the imports do to names.                                           *)

\* Whatever imports what, and however often: when the imports are merged, each
\* label of each module that was read is in the main module's table, under the
\* prefix of its own module.
THEOREM ImportsVisibleHolds == Spec => []ImportsVisible
<1>1. ASSUME AsmInv PROVE ImportsVisible
  <2> SUFFICES ASSUME Assembling, NEW path \in done_modules, NEW n \in Labels(path)
               PROVE  id_inuse(main.symtab, NameFrom(path, Source(path)[n].v))
    BY DEF ImportsVisible, Assembling
  <2>1. HasAll(main.symtab.vec, path)
    BY <1>1 DEF AsmInv, VisibleInv
  <2>2. DOMAIN main.symtab.vec = 1 .. Len(main.symtab.vec)
    BY <1>1, TheMain, AppendKeeps DEF AsmInv, IsTable
  <2> QED BY <2>1, <2>2 DEF HasAll, Has, id_inuse
<1> QED BY <1>1, AsmInvHolds, PTL

\* After the addresses are final no name comes to mean something else, although
\* the imports are merged a second time.
THEOREM LookupsStayHolds == Spec => LookupsStay
<1> DEFINE Stay == SymbolsAreFinal =>
                       \A i \in DOMAIN main.symtab.vec :
                           LET id == main.symtab.vec[i].id
                           IN  lookup_symbol(main'.symtab, id) = lookup_symbol(main.symtab, id)
<1>1. ASSUME AsmInv, [Next]_vars, SymbolsAreFinal PROVE Stay
  <2>1. Assembling
    BY <1>1 DEF SymbolsAreFinal, Assembling, Errors
  <2>2. CASE main'.symtab = main.symtab
    BY <2>2
  <2>3. CASE \E b : MergesList(b)
    <3>1. PICK b : MergesList(b)
      BY <2>3
    <3>2. main' = b /\ b.symtab = WithImports(main) /\ IsAsm(main)
      BY <1>1, <3>1, OneMain, AsmIsOne DEF MergesList, AsmInv
    <3>3. Enlarged(main.symtab, b.symtab)
      BY <3>2, MergedOfAsm
    <3>4. IsTable(main.symtab) /\ DOMAIN main.symtab.vec = 1 .. Len(main.symtab.vec)
      BY <1>1, <2>1, TheMain, AppendKeeps DEF AsmInv, IsTable
    <3>5. \A i \in 1 .. Len(main.symtab.vec) :
              lookup_symbol(b.symtab, main.symtab.vec[i].id)
                  = lookup_symbol(main.symtab, main.symtab.vec[i].id)
      BY <3>3, <3>4, LookupKept
    <3> QED BY <3>2, <3>4, <3>5
  <2>4. CASE UNCHANGED vars \/ Stops \/ BuildsUnlisted \/ Rests
    <3>1. main' = main
      BY <2>4 DEF vars, Stops, Ends, BuildsUnlisted, Rests, main
    <3> QED BY <2>2, <3>1
  <2>5. CASE \E b : Builds(b) \/ Skips(b)
    <3>1. PICK b : Builds(b) \/ Skips(b)
      BY <2>5
    <3>2. main' = b /\ b.symtab = main.symtab
      BY <1>1, <3>1, OneMain DEF Builds, Skips, AsmInv
    <3> QED BY <2>2, <3>2
  <2>6. ~FirstPass /\ \A b : ~MergesSymbols(b) /\ ~Finalises(b)
    BY <1>1 DEF SymbolsAreFinal, FirstPass, OpcodeTok, UnlistedOpcodeTok, MacroDefTok, LabelDefTok, SkippedTok,
                ValueTok, StrayTok, ImportDefTok, ImportReturns, InFirstPass, FirstPassOver,
                MergesSymbols, Finalises
  <2> HIDE DEF Stay
  <2> QED BY <1>1, <2>3, <2>4, <2>5, <2>6, SecondPassSteps DEF Next, AsmInv
<1>2. AsmInv /\ [Next]_vars => [Stay]_vars
  BY <1>1
<1> QED BY <1>2, AsmInvHolds, PTL DEF Spec, LookupsStay

-----------------------------------------------------------------------------
(* Sizes and addresses.                                                    *)

\* A table of whose symbols none are kept has no size.
Measured(st) ==
    /\ st.bytestream_size \in Nat
    /\ ~st.keep_symbols => st.bytestream_size = 0

\* The size of the main module's table is what its names make up, until names are
\* added without a new size.
SizeInv ==
    /\ bytestream_size \in Nat
    /\ Assembling => Measured(main.symtab)
    /\ at \in {"alloc_bytestream", "build_imform_metadata", "finalise"} =>
           main.symtab.bytestream_size = Sized(main.symtab)

LEMMA SizedIsMeasured ==
  ASSUME Lengths, NEW st, IsTable(st), Measured(st)
  PROVE  Sized(st) \in Nat /\ (~st.keep_symbols => Sized(st) = 0)
<1>1. Len(st.vec) \in Nat
  BY DEF IsTable, IsSequence
<1>2. TextSize(st.vec) \in Nat
  BY <1>1, TextSizeIsNumber
<1> QED BY <1>2 DEF Sized, Measured, SizeofSizeT

LEMMA SizeInvNext ==
  ASSUME Lengths, AsmInv, SizeInv, [Next]_vars
  PROVE  SizeInv'
<1> DEFINE Sizing == {"alloc_bytestream", "build_imform_metadata", "finalise"}
<1>1. AsmsInv /\ bytestream_size \in Nat
  BY DEF AsmInv, SizeInv
<1>2. Assembling => /\ IsTable(main.symtab) /\ Measured(main.symtab) /\ IsAsm(main)
                    /\ main.prog_size \in Nat
  BY <1>1, TheMain DEF SizeInv, IsAsm
<1>3. CASE FirstPass
  <2>1. ~Assembling' /\ at' \notin Sizing /\ bytestream_size' = bytestream_size
    BY <1>1, <1>3, FirstPassStays DEF Assembling, Errors, output
  <2> QED BY <1>1, <2>1 DEF SizeInv
<1>4. CASE Stops
  <2>1. ~Assembling' /\ at' \notin Sizing /\ bytestream_size' = bytestream_size
    BY <1>4 DEF Stops, Ends, Assembling, Errors, output
  <2> QED BY <1>1, <2>1 DEF SizeInv
<1>5. CASE BuildsUnlisted \/ UNCHANGED vars
  <2>1. main' = main /\ at' = at /\ bytestream_size' = bytestream_size
    BY <1>5 DEF BuildsUnlisted, vars, main
  <2> QED BY <2>1 DEF SizeInv, Assembling
<1>6. CASE Rests
  <2>1. Assembling /\ main' = main
    BY <1>6, StepNames DEF Rests, main
  <2>2. serial_size(main.symtab).bytestream_size = Sized(main.symtab)
    BY <1>2, <2>1 DEF serial_size, Sized, IsTable, TableFields
  <2>3. bytestream_size' \in Nat
    <3>1. CASE AllocBytestream
      <4>1. Sized(main.symtab) \in Nat
        BY <1>2, <2>1, SizedIsMeasured
      <4> QED BY <1>2, <2>1, <2>2, <3>1, <4>1 DEF AllocBytestream, METADATA_SIZE
    <3>2. CASE BuildMetadata \/ ImFormBuilt \/ WriteProgToBytes
      BY <1>1, <3>2 DEF BuildMetadata, ImFormBuilt, WriteProgToBytes, Ends, output
    <3> QED BY <1>6, <3>1, <3>2 DEF Rests
  <2>4. at' \in Sizing => at \in Sizing
    BY <1>6 DEF Rests, AllocBytestream, BuildMetadata, ImFormBuilt, WriteProgToBytes, Ends, Errors
  <2> QED BY <1>2, <2>1, <2>3, <2>4 DEF SizeInv
<1>7. ASSUME NEW b, Finalises(b) \/ Builds(b) \/ Skips(b) \/ MergesList(b) PROVE SizeInv'
  <2>1. Assembling /\ main' = b /\ bytestream_size' = bytestream_size /\ at' \notin Sizing
    BY <1>1, <1>7, StepNames, OneMain DEF Finalises, Builds, Skips, MergesList, output
  <2>2. /\ b.symtab.keep_symbols = main.symtab.keep_symbols
        /\ b.symtab.bytestream_size \in {main.symtab.bytestream_size, Sized(main.symtab)}
    <3>1. Enlarged(main.symtab, WithImports(main))
      BY <1>2, <2>1, MergedOfAsm
    <3> QED BY <1>7, <3>1 DEF Finalises, Builds, Skips, MergesList, Enlarged
  <2>3. Measured(b.symtab)
    BY <1>2, <2>1, <2>2, SizedIsMeasured DEF Measured
  <2> QED BY <1>1, <2>1, <2>3 DEF SizeInv
<1>8. ASSUME NEW b, MergesSymbols(b) PROVE SizeInv'
  <2> DEFINE merged == WithImports(main)
  <2>1. /\ at = "first_stage_pass" /\ Len(asms) = 1 /\ main' = b /\ bytestream_size' = bytestream_size
        /\ b.symtab.vec = merged.vec
        /\ b.symtab.keep_symbols = main.symtab.keep_symbols
        /\ b.symtab.bytestream_size = Sized(merged)
    BY <1>1, <1>8, OneMain DEF MergesSymbols, FirstPassOver, output
  <2>2. IsAsm(main) /\ main.symtab.bytestream_size = 0
    BY <1>1, <2>1, AsmIsOne DEF AsmInv, ReadInv, Reading, main
  <2>3. IsTable(merged) /\ merged.bytestream_size = 0 /\ merged.keep_symbols = main.symtab.keep_symbols
    BY <2>2, MergedOfAsm DEF Enlarged
  <2> HIDE DEF merged
  <2>4. Measured(merged)
    BY <2>3 DEF Measured
  <2>5. Measured(b.symtab)
    BY <2>1, <2>3, <2>4, SizedIsMeasured DEF Measured
  <2>6. b.symtab.bytestream_size = Sized(b.symtab)
    BY <2>1, <2>3 DEF Sized
  <2> QED BY <1>1, <2>1, <2>5, <2>6 DEF SizeInv
<1>9. FirstPass \/ AssembleMain \/ UNCHANGED vars
  BY DEF Next
<1> QED BY <1>3, <1>4, <1>5, <1>6, <1>7, <1>8, <1>9, SecondPassSteps DEF AsmInv

\* The steps are the named ones, and files were read that there are.
StepsInv == at \in Steps \cup Errors /\ done_modules \subseteq Readable

LEMMA StepsInvNext ==
  ASSUME AsmInv, StepsInv, [Next]_vars
  PROVE  StepsInv'
<1>1. AsmsInv
  BY DEF AsmInv
<1>2. CASE FirstPass
  BY <1>1, <1>2, FirstPassStays, AsmIsOne DEF StepsInv, Steps, IsAsm
<1>3. CASE Stops \/ BuildsUnlisted \/ UNCHANGED vars
  BY <1>3 DEF Stops, Ends, BuildsUnlisted, vars, StepsInv
<1>4. CASE Rests
  BY <1>4 DEF Rests, StepsInv, Steps, Errors, AllocBytestream, BuildMetadata, ImFormBuilt, WriteProgToBytes, Ends
<1>5. CASE \E b : MergesSymbols(b) \/ Finalises(b) \/ Builds(b) \/ Skips(b) \/ MergesList(b)
  BY <1>5 DEF MergesSymbols, Finalises, Builds, Skips, MergesList, StepsInv, Steps
<1>6. FirstPass \/ AssembleMain \/ UNCHANGED vars
  BY DEF Next
<1> QED BY <1>2, <1>3, <1>4, <1>5, <1>6, SecondPassSteps DEF AsmInv

\* The types of the variables, when lengths are numbers.
THEOREM TypeCorrect ==
  ASSUME Lengths
  PROVE  Spec => []TypeOK
<1>1. Init => SizeInv /\ StepsInv
  BY DEF Init, SizeInv, StepsInv, Assembling, Steps
<1>2. AsmInv /\ SizeInv /\ StepsInv /\ [Next]_vars => SizeInv' /\ StepsInv'
  BY SizeInvNext, StepsInvNext
<1>3. AsmInv /\ SizeInv /\ StepsInv => TypeOK
  <2> SUFFICES ASSUME AsmInv, SizeInv, StepsInv PROVE TypeOK
    OBVIOUS
  <2>1. IsSequence(asms) /\ Len(asms) \in Nat /\ Len(asms) >= 1 /\ Len(asms) <= MaxNesting
    BY DEF AsmInv, AsmsInv, IsSequence
  <2>2. DOMAIN asms = 1 .. Len(asms) /\ Len(asms) \in 1 .. MaxNesting
    BY <2>1, AppendKeeps, AssemblerAssumption
  <2>3. \A i \in DOMAIN asms : IsAsm(asms[i])
    BY <2>2 DEF AsmInv, AsmsInv
  <2> QED BY <2>2, <2>3 DEF TypeOK, IsAsm, SizeInv, StepsInv
<1> QED BY <1>1, <1>2, <1>3, AsmInvHolds, PTL DEF Spec

-----------------------------------------------------------------------------
(* Where the instructions are written.                                     *)

\* The opcodes of the main module's file have a size.
OpcodesSized ==
    \A path \in MainPaths : \A n \in DOMAIN Source(path) :
        Source(path)[n].type = "OPCODE_TOK" => Source(path)[n].v \in DOMAIN opsize_tbl

\* The first n instructions, from the address first on.
WrittenTo(f, instrs, first, n) ==
    f = [k \in 0 .. n |->
            IF k = 0 THEN [bf |-> first, block |-> <<>>]
            ELSE [bf |-> f[k - 1].bf + opsize_tbl[instrs[k].opcode],
                  block |-> Serialised(f[k - 1].block, instrs[k], f[k - 1].bf)]]

LEMMA WrittenExists ==
  ASSUME NEW instrs, NEW first, NEW n \in Nat
  PROVE  \E f : WrittenTo(f, instrs, first, n)
<1> DEFINE Begin == [bf |-> first, block |-> <<>>]
           Step(w, k) == [bf |-> w.bf + opsize_tbl[instrs[k].opcode],
                          block |-> Serialised(w.block, instrs[k], w.bf)]
           P(f, k) == f = [i \in 0 .. k |-> IF i = 0 THEN Begin ELSE Step(f[i - 1], i)]
           Sat == {k \in Nat : \E f : WrittenTo(f, instrs, first, k)}
<1>1. ASSUME NEW f, NEW k PROVE P(f, k) <=> WrittenTo(f, instrs, first, k)
  BY DEF WrittenTo
<1> HIDE DEF Begin, Step
<1>2. 0 \in Sat
  <2>1. P([i \in 0 .. 0 |-> Begin], 0)
    OBVIOUS
  <2> QED BY <1>1, <2>1
<1>3. ASSUME NEW k \in Nat, k \in Sat PROVE k + 1 \in Sat
  <2>1. PICK f : WrittenTo(f, instrs, first, k)
    BY <1>3
  <2>2. f = [i \in 0 .. k |-> IF i = 0 THEN Begin ELSE Step(f[i - 1], i)]
    BY <1>1, <2>1
  <2> DEFINE g == [i \in 0 .. k + 1 |-> IF i <= k THEN f[i] ELSE Step(f[k], k + 1)]
             h == [i \in 0 .. k + 1 |-> IF i = 0 THEN Begin ELSE Step(g[i - 1], i)]
  <2>3. ASSUME NEW i \in 0 .. k + 1 PROVE g[i] = h[i]
    <3>1. CASE i <= k
      <4>1. i \in 0 .. k /\ (i # 0 => i - 1 \in 0 .. k /\ i - 1 \in 0 .. k + 1 /\ i - 1 <= k)
        BY <3>1
      <4>2. g[i] = f[i] /\ (i # 0 => g[i - 1] = f[i - 1])
        BY <3>1, <4>1
      <4>3. f[i] = IF i = 0 THEN Begin ELSE Step(f[i - 1], i)
        BY <2>2, <4>1
      <4> QED BY <4>1, <4>2, <4>3
    <3>2. CASE i = k + 1
      BY <3>2
    <3> QED BY <3>1, <3>2
  <2>4. g = h
    BY <2>3
  <2> HIDE DEF g
  <2>5. P(g, k + 1)
    BY <2>4
  <2>6. WrittenTo(g, instrs, first, k + 1)
    BY <1>1, <2>5
  <2> QED BY <2>6
<1>4. n \in Sat
  <2> HIDE DEF Sat
  <2> QED BY <1>2, <1>3, SetInduction
<1> QED BY <1>4

LEMMA SizesAreNumbers == \A op \in DOMAIN opsize_tbl : opsize_tbl[op] \in Nat /\ opsize_tbl[op] >= 4
<1>1. Sizes \in Seq({4, 8, 12, 16})
  BY DEF Sizes
<1> DEFINE len == Len(Sizes)
<1>2. len \in Nat /\ \A i \in 1 .. len : Sizes[i] \in {4, 8, 12, 16}
  BY <1>1, ElementOfSeq, LenProperties
<1>3. ASSUME NEW op \in 0 .. 124 PROVE opsize_tbl[op] \in {4, 8, 12, 16}
  <2>1. opsize_tbl[op] = IF op < len THEN Sizes[op + 1] ELSE 4
    BY DEF opsize_tbl
  <2> HIDE DEF len
  <2>2. op < len => op + 1 \in 1 .. len
    BY <1>2
  <2> QED BY <1>2, <2>1, <2>2
<1>4. DOMAIN opsize_tbl = 0 .. 124
  BY DEF opsize_tbl
<1> QED BY <1>3, <1>4

\* The writing of the instructions, one by one.
LEMMA WrittenWalked ==
  ASSUME NEW instrs, Len(instrs) \in Nat, NEW first
  PROVE  \E f : /\ Written(instrs, first) = f[Len(instrs)]
               /\ f[0] = [bf |-> first, block |-> <<>>]
               /\ \A k \in 1 .. Len(instrs) :
                     /\ f[k].bf = f[k - 1].bf + opsize_tbl[instrs[k].opcode]
                     /\ f[k].block = Serialised(f[k - 1].block, instrs[k], f[k - 1].bf)
<1> DEFINE n == Len(instrs)
           f == CHOOSE g : WrittenTo(g, instrs, first, n)
<1>1. Written(instrs, first) = f[n]
  BY DEF Written, WrittenTo
<1>2. WrittenTo(f, instrs, first, n)
  BY WrittenExists
<1> HIDE DEF f, n
<1> DEFINE Step(w, k) == [bf |-> w.bf + opsize_tbl[instrs[k].opcode],
                          block |-> Serialised(w.block, instrs[k], w.bf)]
<1>3. n \in Nat
  BY DEF n
<1>4. f[0] = [bf |-> first, block |-> <<>>]
  BY <1>2, <1>3 DEF WrittenTo
<1>5. \A k \in 1 .. n : f[k] = Step(f[k - 1], k)
  <2> DEFINE W(k) == IF k = 0 THEN [bf |-> first, block |-> <<>>] ELSE Step(f[k - 1], k)
  <2>1. f = [k \in 0 .. n |-> W(k)]
    BY <1>2 DEF WrittenTo
  <2> HIDE DEF W
  <2>2. \A k \in 0 .. n : f[k] = W(k)
    BY <2>1
  <2>3. \A k \in 1 .. n : k \in 0 .. n /\ k # 0
    BY <1>3
  <2> HIDE DEF Step
  <2> QED BY <2>2, <2>3 DEF W
<1>6. ASSUME NEW k \in 1 .. n
      PROVE  /\ f[k].bf = f[k - 1].bf + opsize_tbl[instrs[k].opcode]
             /\ f[k].block = Serialised(f[k - 1].block, instrs[k], f[k - 1].bf)
  <2>1. f[k] = Step(f[k - 1], k)
    BY <1>5
  <2> DEFINE w == f[k - 1]
  <2> HIDE DEF w
  <2>2. /\ Step(w, k).bf = w.bf + opsize_tbl[instrs[k].opcode]
        /\ Step(w, k).block = Serialised(w.block, instrs[k], w.bf)
    OBVIOUS
  <2> QED BY <2>1, <2>2 DEF w
<1> HIDE DEF Step
<1> QED BY <1>1, <1>4, <1>6 DEF n

\* The first instruction stands where the writing began: no later one is written
\* over it.
LEMMA FirstIsWritten ==
  ASSUME NEW instrs, Len(instrs) \in Nat, Len(instrs) >= 1, NEW first \in Nat,
         \A i \in 1 .. Len(instrs) : instrs[i].opcode \in DOMAIN opsize_tbl
  PROVE  LET block == Written(instrs, first).block
         IN  first \in DOMAIN block /\ block[first] = Byte(instrs[1].opcode, 0)
<1> DEFINE n == Len(instrs)
<1>1. PICK f : /\ Written(instrs, first) = f[n]
               /\ f[0] = [bf |-> first, block |-> <<>>]
               /\ \A k \in 1 .. n :
                     /\ f[k].bf = f[k - 1].bf + opsize_tbl[instrs[k].opcode]
                     /\ f[k].block = Serialised(f[k - 1].block, instrs[k], f[k - 1].bf)
  BY WrittenWalked
<1> HIDE DEF n
<1>2. n \in Nat /\ n >= 1
  BY DEF n
<1>3. f[0] = [bf |-> first, block |-> <<>>]
  BY <1>1
<1>4. ASSUME NEW k \in 1 .. n
      PROVE  /\ f[k].bf = f[k - 1].bf + opsize_tbl[instrs[k].opcode]
             /\ f[k].block = Serialised(f[k - 1].block, instrs[k], f[k - 1].bf)
             /\ opsize_tbl[instrs[k].opcode] \in Nat /\ opsize_tbl[instrs[k].opcode] >= 4
  <2>1. instrs[k].opcode \in DOMAIN opsize_tbl
    BY DEF n
  <2> QED BY <1>1, <2>1, SizesAreNumbers
<1>5. ASSUME NEW block, NEW instr, NEW addr
      PROVE  LET r == Serialised(block, instr, addr)
             IN  /\ addr \in DOMAIN r /\ r[addr] = Byte(instr.opcode, 0)
                 /\ \A w \in DOMAIN block : w # addr /\ w \notin OperandBytes(addr) =>
                        w \in DOMAIN r /\ r[w] = block[w]
  BY DEF Serialised
<1> DEFINE Good(k) == /\ f[k].bf \in Nat
                      /\ k = 0 => f[k].bf = first
                      /\ k # 0 => /\ f[k].bf > first
                                  /\ first \in DOMAIN f[k].block
                                  /\ f[k].block[first] = Byte(instrs[1].opcode, 0)
           Sat == {k \in 0 .. n : Good(k)}
<1>6. 0 \in Sat
  BY <1>2, <1>3
<1>7. ASSUME NEW k \in 0 .. n - 1, k \in Sat PROVE k + 1 \in Sat
  <2> DEFINE q == f[k]
             r == f[k + 1]
             size == opsize_tbl[instrs[k + 1].opcode]
  <2>1. k + 1 \in 1 .. n /\ k + 1 \in 0 .. n /\ (k + 1) - 1 = k /\ k + 1 # 0
    BY <1>2
  <2>2. Good(k)
    BY <1>7
  <2>3. /\ r.bf = q.bf + size /\ size \in Nat /\ size >= 4
        /\ r.block = Serialised(q.block, instrs[k + 1], q.bf)
    BY <1>4, <2>1
  <2>4. q.bf \in DOMAIN r.block /\ r.block[q.bf] = Byte(instrs[k + 1].opcode, 0)
    BY <1>5, <2>3
  <2>5. CASE k = 0
    <3>1. q.bf = first /\ instrs[k + 1] = instrs[1]
      BY <2>2, <2>5
    <3> HIDE DEF q, r, size
    <3>2. r.bf \in Nat /\ r.bf > first
      BY <2>3, <3>1
    <3>3. Good(k + 1)
      BY <2>1, <2>4, <3>1, <3>2 DEF r
    <3> QED BY <2>1, <3>3
  <2>6. CASE k # 0
    <3>1. q.bf \in Nat /\ q.bf > first /\ first \in DOMAIN q.block /\ q.block[first] = Byte(instrs[1].opcode, 0)
      BY <2>2, <2>6
    <3> HIDE DEF q, r, size
    <3>2. r.bf \in Nat /\ r.bf > first /\ first # q.bf /\ first \notin OperandBytes(q.bf)
      BY <2>3, <3>1 DEF OperandBytes, OPCODE_SIZE
    <3>3. first \in DOMAIN r.block /\ r.block[first] = q.block[first]
      BY <1>5, <2>3, <3>1, <3>2
    <3>4. Good(k + 1)
      BY <2>1, <3>1, <3>2, <3>3 DEF r
    <3> QED BY <2>1, <3>4
  <2> QED BY <2>5, <2>6
<1>8. Good(n)
  <2> HIDE DEF Good
  <2>1. 0 .. n \subseteq Sat
    <3> HIDE DEF Sat
    <3> QED BY <1>2, <1>6, <1>7, StepInduction
  <2> QED BY <1>2, <2>1
<1> QED BY <1>1, <1>2, <1>8

\* What the second pass leaves as it is: what the first has counted.
Kept(b) ==
    /\ b.path = main.path /\ b.toks = main.toks /\ b.imports = main.imports
    /\ b.instr_count = main.instr_count /\ b.prog_size = main.prog_size

LEMMA CountsStay ==
  ASSUME AsmsInv, AssembleMain
  PROVE  Kept(main')
<1>1. DOMAIN main = AsmFields
  BY AsmIsOne DEF IsAsm
<1>2. ASSUME NEW st, NEW t,
             \/ asms' = <<[main EXCEPT !.symtab = st]>>
             \/ asms' = <<[main EXCEPT !.toknum = t]>>
             \/ asms' = <<[main EXCEPT !.symtab = st, !.toknum = t]>>
      PROVE  Kept(main')
  <2>1. PICK b : asms' = <<b>> /\ Kept(b)
    <3> DEFINE b1 == [main EXCEPT !.symtab = st]
               b2 == [main EXCEPT !.toknum = t]
               b3 == [main EXCEPT !.symtab = st, !.toknum = t]
    <3>1. Kept(b1) /\ Kept(b2) /\ Kept(b3)
      BY <1>1 DEF AsmFields, Kept
    <3>2. asms' = <<b1>> \/ asms' = <<b2>> \/ asms' = <<b3>>
      BY <1>2
    <3> HIDE DEF b1, b2, b3
    <3> QED BY <3>1, <3>2
  <2>2. main' = b
    BY <2>1 DEF main
  <2> QED BY <2>1, <2>2
<1>3. ASSUME asms' = asms
      PROVE  Kept(main')
  BY <1>3 DEF main, Kept
<1>4. CASE MergeImportSymbols
  <2> DEFINE st == main_module_serial_size(WithImports(main), FileId(main.path))
  <2>1. asms' = asms \/ asms' = <<[main EXCEPT !.symtab = st]>>
    BY <1>4 DEF MergeImportSymbols, Ends
  <2> HIDE DEF st
  <2> QED BY <1>2, <1>3, <2>1
<1>5. CASE Finalise
  <2> DEFINE st == finalise(main.symtab, metadata)
  <2>1. asms' = <<[main EXCEPT !.symtab = st, !.toknum = 1]>>
    BY <1>5 DEF Finalise
  <2> HIDE DEF st
  <2> QED BY <1>2, <2>1
<1>6. CASE BuildInstr
  <2> DEFINE s == ResolveOperands(main.toknum, OperandCount[tok.v])
             t == IF OperandCount[tok.v] = 0 THEN s.n + 1 ELSE s.n
  <2>1. asms' = asms \/ asms' = <<[main EXCEPT !.toknum = t]>>
    BY <1>6 DEF BuildInstr, Ends
  <2> HIDE DEF t
  <2> QED BY <1>2, <1>3, <2>1
<1>7. CASE SkipOther
  <2> DEFINE t == main.toknum + (IF tok.type = "IMPORT_DEF_TOK" THEN 2 ELSE 1)
  <2>1. asms' = <<[main EXCEPT !.toknum = t]>>
    BY <1>7 DEF SkipOther
  <2> HIDE DEF t
  <2> QED BY <1>2, <2>1
<1>8. CASE MergeImportList
  <2> DEFINE st == WithImports(main)
  <2>1. asms' = <<[main EXCEPT !.symtab = st]>>
    BY <1>8 DEF MergeImportList
  <2> HIDE DEF st
  <2> QED BY <1>2, <2>1
<1>9. CASE AllocBytestream \/ BuildMetadata \/ ImFormBuilt \/ WriteProgToBytes \/ BuildUnlistedInstr
  BY <1>3, <1>9 DEF AllocBytestream, BuildMetadata, ImFormBuilt, WriteProgToBytes, BuildUnlistedInstr, Ends
<1> QED BY <1>4, <1>5, <1>6, <1>7, <1>8, <1>9 DEF AssembleMain

MetadataFields == {"mem_size", "prog_size", "instr_count", "start_instr_addr", "first_instr_addr",
                   "last_instr_addr", "first_user_byte_addr", "flags", "symtab_size"}

HeaderSteps == {"finalise", "build_im_form", "merge_import_list", "write_prog_to_bytes", "done"}

\* What the metadata say of the first instruction and of the size of the file is
\* true of the table, to the end, although the table is sized a second time.
HeaderInv ==
    LET end == METADATA_SIZE + main.symtab.bytestream_size
    IN  /\ at = "build_imform_metadata" => bytestream_size = end + main.prog_size
        /\ at \in HeaderSteps =>
              /\ DOMAIN metadata = MetadataFields
              /\ metadata.first_instr_addr = Aligned(end)
              /\ metadata.mem_size = end + main.prog_size
              /\ metadata.flags = main.symtab.keep_symbols

LEMMA HeaderInvNext ==
  ASSUME AsmInv, SizeInv, HeaderInv, [Next]_vars
  PROVE  HeaderInv'
<1>1. AsmsInv
  BY DEF AsmInv
<1>2. CASE FirstPass
  BY <1>1, <1>2, FirstPassStays DEF HeaderInv, HeaderSteps, Errors
<1>3. CASE Stops
  BY <1>3 DEF Stops, Ends, HeaderInv, HeaderSteps, Errors
<1>4. CASE BuildsUnlisted \/ UNCHANGED vars
  BY <1>4 DEF BuildsUnlisted, vars, HeaderInv, main
<1>5. CASE Rests
  <2>1. main' = main
    BY <1>5 DEF Rests, main
  <2>2. CASE AllocBytestream
    <3>1. at = "alloc_bytestream" /\ Assembling
      BY <2>2 DEF AllocBytestream, Assembling, Errors
    <3>2. IsTable(main.symtab)
      BY <1>1, <3>1, TheMain
    <3>3. serial_size(main.symtab).bytestream_size = main.symtab.bytestream_size
      BY <3>1, <3>2 DEF SizeInv, serial_size, Sized, IsTable, TableFields
    <3> QED BY <2>1, <2>2, <3>3 DEF AllocBytestream, HeaderInv, HeaderSteps
  <2>3. CASE BuildMetadata
    <3> DEFINE end == METADATA_SIZE + main.symtab.bytestream_size
    <3>1. /\ at = "build_imform_metadata" /\ at' = "finalise"
          /\ DOMAIN metadata' = MetadataFields
          /\ metadata'.first_instr_addr = Aligned(end)
          /\ metadata'.mem_size = bytestream_size
          /\ metadata'.flags = main.symtab.keep_symbols
      BY <2>3 DEF BuildMetadata, MetadataFields
    <3>2. bytestream_size = end + main.prog_size
      BY <3>1 DEF HeaderInv
    <3> QED BY <2>1, <3>1, <3>2 DEF HeaderInv
  <2>4. CASE ImFormBuilt
    <3>1. /\ at \in HeaderSteps /\ at' # "build_imform_metadata"
          /\ metadata' = [metadata EXCEPT !.instr_count = Len(instr_vec)]
      BY <2>4 DEF ImFormBuilt, HeaderSteps
    <3> QED BY <2>1, <3>1 DEF HeaderInv, MetadataFields
  <2>5. CASE WriteProgToBytes
    BY <2>1, <2>5 DEF WriteProgToBytes, Ends, HeaderInv, HeaderSteps
  <2> QED BY <1>5, <2>2, <2>3, <2>4, <2>5 DEF Rests
<1>6. ASSUME NEW b, Finalises(b) \/ Builds(b) \/ Skips(b) \/ MergesList(b) PROVE HeaderInv'
  <2>1. Assembling /\ main' = b /\ metadata' = metadata /\ at \in HeaderSteps /\ at' # "build_imform_metadata"
    BY <1>1, <1>6, StepNames, OneMain DEF Finalises, Builds, Skips, MergesList, output, HeaderSteps
  <2>2. b.symtab.keep_symbols = main.symtab.keep_symbols
        /\ b.symtab.bytestream_size = main.symtab.bytestream_size
    <3>1. Enlarged(main.symtab, WithImports(main))
      BY <1>1, AsmIsOne, MergedOfAsm
    <3>2. at = "finalise" => main.symtab.bytestream_size = Sized(main.symtab)
      BY DEF SizeInv
    <3> QED BY <1>6, <3>1, <3>2 DEF Finalises, Builds, Skips, MergesList, Enlarged
  <2>3. b.prog_size = main.prog_size
    <3>1. ~FirstPass
      BY <1>1, <2>1, FirstPassStays DEF HeaderSteps
    <3>2. CASE AssembleMain
      BY <1>1, <2>1, <3>2, CountsStay DEF Kept
    <3>3. CASE UNCHANGED vars
      BY <2>1, <3>3 DEF vars, main
    <3> QED BY <3>1, <3>2, <3>3 DEF Next
  <2> QED BY <2>1, <2>2, <2>3 DEF HeaderInv
<1>7. ASSUME NEW b, MergesSymbols(b) PROVE HeaderInv'
  BY <1>7 DEF MergesSymbols, HeaderInv, HeaderSteps
<1>8. FirstPass \/ AssembleMain \/ UNCHANGED vars
  BY DEF Next
<1> QED BY <1>2, <1>3, <1>4, <1>5, <1>6, <1>7, <1>8, SecondPassSteps DEF AsmInv

\* The loader starts where the first instruction is, and the file ends with the
\* sizes, less than a word before the program does.
LEMMA FileEnds ==
  ASSUME AsmInv, SizeInv, HeaderInv, at \in HeaderSteps
  PROVE  /\ metadata.first_instr_addr = LoaderStart /\ LoaderStart \in Nat
         /\ SymbolsEnd \in Nat /\ SymbolsEnd <= LoaderStart /\ LoaderStart <= SymbolsEnd + 3
         /\ metadata.mem_size = SymbolsEnd + main.prog_size
         /\ main.prog_size \in Nat /\ main.prog_size % UINT_SIZE = 0
<1> DEFINE size == main.symtab.bytestream_size
<1>1. Assembling
  BY DEF Assembling, Errors, HeaderSteps
<1>2. /\ metadata.first_instr_addr = Aligned(METADATA_SIZE + size) /\ metadata.flags = main.symtab.keep_symbols
      /\ metadata.mem_size = METADATA_SIZE + size + main.prog_size
      /\ size \in Nat /\ (~main.symtab.keep_symbols => size = 0)
  BY <1>1 DEF HeaderInv, SizeInv, Measured
<1>3. SymbolsEnd = METADATA_SIZE + size
  BY <1>2 DEF SymbolsEnd
<1>4. main.prog_size \in Nat /\ main.prog_size % UINT_SIZE = 0
  BY <1>1, TheMain DEF AsmInv, IsAsm
<1> HIDE DEF size
<1>5. METADATA_SIZE + size \in Nat
  BY <1>2 DEF METADATA_SIZE
<1>6. \A e \in Nat : Aligned(e) \in Nat /\ e <= Aligned(e) /\ Aligned(e) <= e + 3
  BY DEF Aligned
<1> QED BY <1>2, <1>3, <1>4, <1>5, <1>6 DEF LoaderStart

\* The instructions have a size, and in the end they are what was written.
InstrsInv ==
    /\ IsSequence(instr_vec)
    /\ \A i \in 1 .. Len(instr_vec) : instr_vec[i].opcode \in DOMAIN opsize_tbl
    /\ at = "done" => bytes = WithinFile(Written(instr_vec, metadata.first_instr_addr).block)

LEMMA InstrsInvNext ==
  ASSUME OpcodesSized, AsmInv, InstrsInv, [Next]_vars
  PROVE  InstrsInv'
<1>1. AsmsInv
  BY DEF AsmInv
<1>2. CASE \/ FirstPass \/ Stops \/ UNCHANGED vars
           \/ \E b : MergesSymbols(b) \/ Finalises(b) \/ Skips(b) \/ MergesList(b)
  <2>1. instr_vec' = instr_vec /\ metadata' = metadata /\ bytes' = bytes /\ (at' = "done" => at = "done")
    BY <1>1, <1>2, FirstPassStays
       DEF Stops, Ends, vars, MergesSymbols, Finalises, Skips, MergesList, output, Errors
  <2> QED BY <2>1 DEF InstrsInv, WithinFile
<1>3. CASE Rests
  <2>1. /\ instr_vec' = instr_vec
        /\ at' = "done" => /\ metadata' = metadata
                           /\ bytes' = WithinFile(Written(instr_vec, metadata.first_instr_addr).block)
    BY <1>3 DEF Rests, AllocBytestream, BuildMetadata, ImFormBuilt, WriteProgToBytes, Ends, output
  <2> QED BY <2>1 DEF InstrsInv, WithinFile
<1>4. ASSUME NEW vals, at' # "done", Assembling,
             main.toknum \in 1 .. Len(main.toks), main.toks[main.toknum].type = "OPCODE_TOK",
             instr_vec' = Append(instr_vec, [opcode |-> main.toks[main.toknum].v, vals |-> vals])
      PROVE  InstrsInv'
  <2> DEFINE instr == [opcode |-> main.toks[main.toknum].v, vals |-> vals]
  <2>1. main.path \in MainPaths /\ main.toks = Source(main.path)
        /\ DOMAIN Source(main.path) = 1 .. Len(main.toks)
    BY <1>1, <1>4, TheMain, SourceIsSequence DEF AsmsInv, main
  <2>2. instr.opcode \in DOMAIN opsize_tbl
    BY <1>4, <2>1 DEF OpcodesSized
  <2> HIDE DEF instr
  <2>3. IsSequence(instr_vec) /\ Len(instr_vec) \in Nat
        /\ \A i \in 1 .. Len(instr_vec) : instr_vec[i].opcode \in DOMAIN opsize_tbl
    BY DEF InstrsInv, IsSequence
  <2>4. /\ IsSequence(instr_vec') /\ Len(instr_vec') = Len(instr_vec) + 1
        /\ \A i \in 1 .. Len(instr_vec) : instr_vec'[i] = instr_vec[i]
        /\ instr_vec'[Len(instr_vec) + 1] = instr
    BY <1>4, <2>3, AppendKeeps DEF instr
  <2>5. ASSUME NEW i \in 1 .. Len(instr_vec) + 1 PROVE instr_vec'[i].opcode \in DOMAIN opsize_tbl
    <3>1. i \in 1 .. Len(instr_vec) \/ i = Len(instr_vec) + 1
      BY <2>3
    <3> QED BY <2>2, <2>3, <2>4, <3>1
  <2> QED BY <1>4, <2>4, <2>5 DEF InstrsInv
<1>5. CASE BuildsUnlisted \/ \E b : Builds(b)
  <2>1. /\ at' # "done" /\ Assembling
        /\ main.toknum \in 1 .. Len(main.toks) /\ main.toks[main.toknum].type = "OPCODE_TOK"
        /\ \E vals : instr_vec' = Append(instr_vec, [opcode |-> main.toks[main.toknum].v, vals |-> vals])
    BY <1>5 DEF BuildsUnlisted, Builds, Assembling, Errors
  <2> QED BY <1>4, <2>1
<1>6. FirstPass \/ AssembleMain \/ UNCHANGED vars
  BY DEF Next
<1> QED BY <1>2, <1>3, <1>5, <1>6, SecondPassSteps DEF AsmInv

\* The first instruction stands where both readers of the file look for it, when
\* all opcodes of the program have a size, and there is room for an instruction.
THEOREM LoaderFindsProgramHolds ==
  ASSUME Lengths, OpcodesSized
  PROVE  Spec => []LoaderFindsProgram
<1>1. Init => SizeInv /\ HeaderInv /\ InstrsInv
  BY SmallSequences DEF Init, SizeInv, HeaderInv, HeaderSteps, InstrsInv, Assembling
<1>2. AsmInv /\ SizeInv /\ HeaderInv /\ InstrsInv /\ [Next]_vars => SizeInv' /\ HeaderInv' /\ InstrsInv'
  BY SizeInvNext, HeaderInvNext, InstrsInvNext
<1>3. AsmInv /\ SizeInv /\ HeaderInv /\ InstrsInv => LoaderFindsProgram
  <2> SUFFICES ASSUME AsmInv, SizeInv, HeaderInv, InstrsInv, at = "done", instr_vec # <<>>
               PROVE  /\ metadata.first_instr_addr = LoaderStart
                      /\ main.prog_size > 0 => Holds(LoaderStart, Byte(instr_vec[1].opcode, 0))
    BY DEF LoaderFindsProgram
  <2> DEFINE first == metadata.first_instr_addr
  <2>1. at \in HeaderSteps
    BY DEF HeaderSteps
  <2>2. /\ first = LoaderStart /\ first \in Nat /\ SymbolsEnd \in Nat /\ first <= SymbolsEnd + 3
        /\ metadata.mem_size = SymbolsEnd + main.prog_size
        /\ main.prog_size \in Nat /\ main.prog_size % UINT_SIZE = 0
    BY <2>1, FileEnds
  <2>5. /\ Len(instr_vec) \in Nat /\ Len(instr_vec) >= 1
        /\ \A i \in 1 .. Len(instr_vec) : instr_vec[i].opcode \in DOMAIN opsize_tbl
        /\ bytes = WithinFile(Written(instr_vec, first).block)
    BY DEF InstrsInv, IsSequence
  <2>6. ASSUME main.prog_size > 0 PROVE first < metadata.mem_size
    <3> HIDE DEF first
    <3> QED BY <2>2, <2>6 DEF UINT_SIZE
  <2> HIDE DEF first
  <2> DEFINE block == Written(instr_vec, first).block
  <2>7. first \in DOMAIN block /\ block[first] = Byte(instr_vec[1].opcode, 0)
    BY <2>2, <2>5, FirstIsWritten
  <2>8. ASSUME main.prog_size > 0 PROVE Holds(first, Byte(instr_vec[1].opcode, 0))
    <3> HIDE DEF block
    <3> QED BY <2>5, <2>6, <2>7, <2>8 DEF Holds, WithinFile, Restrict, block
  <2> QED BY <2>2, <2>8 DEF first
<1> QED BY <1>1, <1>2, <1>3, AsmInvHolds, PTL DEF Spec

-----------------------------------------------------------------------------
(* The two passes over a program of one file.                             *)

\* What one more token does to the evaluation, and to the search for the end of
\* the same operand: what the two know of the operand so far.
ResolvedOn(s, tk, r) ==
    /\ r.stop = "no" =>
          /\ r.n = s.n + 1 /\ tk.type \notin Starts \cup {"EXPREND_TOK", "RBRKTOP_TOK"}
          /\ tk.type \in Values => r.last_is_value /\ ~s.last_is_value
          /\ tk.type \notin Values \cup Operators \cup {"LPRN_TOK", "RPRN_TOK", "LBRKTOP_TOK"} =>
                r.last_is_value = s.last_is_value
    /\ r.stop = "end" =>
          \/ r.n = s.n /\ tk.type \in Starts \cup Values
          \/ r.n = s.n + 1 /\ tk.type \in {"EXPREND_TOK", "RBRKTOP_TOK"}

LEMMA ResolvesOn ==
  ASSUME NEW s, IsRes(s), s.stop = "no", NEW tk, NEW st, NEW fileid
  PROVE  ResolvedOn(s, tk, ResolveToken(s, tk, st, fileid))
<1> DEFINE r == [s EXCEPT !.n = @ + 1, !.parsed = @ + 1]
           e == ResolveToken(s, tk, st, fileid)
           Brackets == {"LPRN_TOK", "RPRN_TOK", "LBRKTOP_TOK"}
<1>1. IsRes(r) /\ r.n = s.n + 1 /\ r.stop = "no" /\ r.last_is_value = s.last_is_value
  BY DEF IsRes
<1>2. \A how : Stopped(r, how).stop = how /\ Stopped(r, how).n = s.n + 1
               /\ Stopped(s, how).stop = how /\ Stopped(s, how).n = s.n
  BY <1>1 DEF Stopped, IsRes
<1>3. /\ \A type : ~ (type \in Operators /\ type \in Values \cup Starts \cup Brackets \cup {"EXPREND_TOK", "RBRKTOP_TOK"})
      /\ \A type : ~ (type \in Values /\ type \in Starts \cup Brackets \cup {"EXPREND_TOK", "RBRKTOP_TOK"})
      /\ \A type : ~ (type \in Starts /\ type \in Brackets \cup {"EXPREND_TOK", "RBRKTOP_TOK"})
  BY DEF Starts, Operators, Values, Counted
<1> DEFINE Never(q) == q.stop \notin {"end"} /\ (q.stop = "no" => q.n = s.n + 1)
<1>4. ASSUME NEW q, Stays(r, q)
      PROVE  /\ Never(q) /\ Never([q EXCEPT !.last_is_value = FALSE])
             /\ Never([q EXCEPT !.inside_offset = TRUE]) /\ Never([q EXCEPT !.inside_paren = TRUE])
  BY <1>1, <1>4 DEF Stays, IsRes, Refusals
<1>5. CASE tk.type \in Starts
  <2>1. e = Stopped(s, "end")
    BY <1>5 DEF ResolveToken, Starts, Operators, Values, Counted
  <2> QED BY <1>2, <1>5, <2>1 DEF ResolvedOn
<1>6. CASE tk.type = "EXPREND_TOK"
  <2>1. e = Stopped(r, "exit") \/ e = Stopped(r, "end")
    BY <1>6 DEF ResolveToken, Starts, Operators, Values, Counted
  <2> QED BY <1>2, <1>6, <2>1 DEF ResolvedOn
<1>7. CASE tk.type = "RBRKTOP_TOK"
  <2> DEFINE u == EvalUntil(r, "LBRKTOP_TOK")
  <2>1. e = BracketClosed(u) \/ e = Stopped(r, "exit")
    BY <1>7 DEF ResolveToken, Starts, Operators, Values, Counted
  <2>2. Stays(r, u)
    BY <1>1, UntilStays
  <2> HIDE DEF u, r
  <2>3. BracketClosed(u).stop # "no" /\ BracketClosed(u).n = s.n + 1
    BY <1>1, <2>2 DEF BracketClosed, Stays, Stopped, IsRes
  <2> QED BY <1>2, <1>7, <2>1, <2>3 DEF ResolvedOn, r
<1>8. CASE tk.type \in Operators
  <2>1. e = ResolveOperator(r, tk.type)
    BY <1>8 DEF ResolveToken, Starts, Operators, Values, Counted
  <2>2. Stays(r, r) /\ (r.ops # <<>> => Stays(r, eval_opstack_top(r)))
    BY <1>1, TopStays DEF Stays
  <2> HIDE DEF r
  <2>3. PICK q : Stays(r, q) /\ e = OnceEvaluated(q, tk.type)
    BY <2>1, <2>2 DEF ResolveOperator
  <2>4. q.stop = "no" => Stays(r, push_operator(q, tk.type))
    BY <2>3, PushStays DEF Stays
  <2>5. Never(e)
    BY <1>4, <2>3, <2>4 DEF OnceEvaluated
  <2> QED BY <1>3, <1>8, <2>5 DEF ResolvedOn
<1>9. CASE tk.type \in Brackets
  <2>1. \/ e = [push_operator(r, tk.type) EXCEPT !.inside_offset = TRUE]
        \/ e = [push_operator(r, tk.type) EXCEPT !.inside_paren = TRUE]
        \/ e = [EvalUntil(r, "LPRN_TOK") EXCEPT !.last_is_value = FALSE]
        \/ e = Stopped(r, "exit")
    BY <1>9 DEF ResolveToken, Starts, Operators, Values, Counted
  <2>2. Stays(r, push_operator(r, tk.type)) /\ Stays(r, EvalUntil(r, "LPRN_TOK"))
    BY <1>1, PushStays, UntilStays
  <2> DEFINE o == push_operator(r, tk.type)
             u == EvalUntil(r, "LPRN_TOK")
  <2> HIDE DEF r, o, u, Never
  <2>3. /\ Never([o EXCEPT !.inside_offset = TRUE]) /\ Never([o EXCEPT !.inside_paren = TRUE])
        /\ Never([u EXCEPT !.last_is_value = FALSE])
    BY <1>4, <2>2 DEF o, u
  <2>4. Never(Stopped(r, "exit"))
    BY <1>2 DEF Never, r
  <2>5. Never(e)
    BY <2>1, <2>3, <2>4 DEF o, u
  <2> QED BY <1>3, <1>9, <2>5 DEF ResolvedOn, Never
<1>10. CASE tk.type \in Values
  <2>1. e = ResolveValue(r, tk, st, fileid)
    BY <1>10 DEF ResolveToken, Starts, Operators, Values, Counted
  <2> DEFINE q == [Stopped(r, "end") EXCEPT !.n = @ - 1]
             vals == Append(r.vals, ValueOf(tk, st, fileid))
             p == [r EXCEPT !.vals = vals, !.last_is_value = TRUE]
  <2>2. \/ e = Stopped(r, "exit") \/ e = q
        \/ ~s.last_is_value /\ e = p
    BY <1>1, <2>1 DEF ResolveValue, push_value
  <2>3. q.stop = "end" /\ q.n = s.n
    BY <1>1 DEF Stopped, IsRes
  <2> HIDE DEF vals
  <2>4. p.stop = "no" /\ p.n = s.n + 1 /\ p.last_is_value
    BY <1>1 DEF IsRes
  <2> HIDE DEF p, q
  <2> QED BY <1>2, <1>3, <1>10, <2>2, <2>3, <2>4 DEF ResolvedOn
<1>11. CASE tk.type \notin Starts \cup Values \cup Operators \cup Brackets \cup {"EXPREND_TOK", "RBRKTOP_TOK"}
  <2>1. e = r
    BY <1>11 DEF ResolveToken
  <2> QED BY <1>1, <1>11, <2>1 DEF ResolvedOn
<1> QED BY <1>5, <1>6, <1>7, <1>8, <1>9, <1>10, <1>11

\* What the two know of an operand without operators and brackets.
InStep(c, r) == ~c.inside_expr /\ c.value_hit => r.last_is_value

LEMMA CountsOn ==
  ASSUME NEW c, IsCount(c), c.stop = "no", NEW tk
  PROVE  LET d == CountToken(c, tk)
         IN  /\ d.stop \in {"no", "end", "exit"}
             /\ tk.type \in Starts => d.stop = "exit" \/ (d.stop = "end" /\ d.n = c.n)
             /\ tk.type \in Starts /\ ~c.value_hit => d.stop = "exit"
             /\ tk.type = "EXPREND_TOK" => d.stop = "exit" \/ (d.stop = "end" /\ d.n = c.n + 1)
             /\ tk.type = "RBRKTOP_TOK" => d.stop = "exit" \/ (d.stop = "no" /\ d.n = c.n + 1)
             /\ d.stop = "end" => \/ tk.type \in Starts \cup {"EXPREND_TOK"}
                                  \/ tk.type \in Counted /\ ~c.inside_expr /\ c.value_hit
             /\ d.stop = "no" =>
                   \/ d.inside_expr
                   \/ tk.type \in Counted
                   \/ /\ d.inside_expr = c.inside_expr /\ d.value_hit = c.value_hit
                      /\ tk.type \notin Counted \cup Operators
                                        \cup {"LPRN_TOK", "RPRN_TOK", "LBRKTOP_TOK", "RBRKTOP_TOK"}
<1> DEFINE d == CountToken(c, tk)
<1>1. PICK n, line, hit, expr, parens, brackets :
          /\ c = [n |-> n, line |-> line, stop |-> "no", value_hit |-> hit, inside_expr |-> expr,
                  inside_parens |-> parens, inside_brackets |-> brackets]
          /\ n \in Nat
  BY DEF IsCount
<1>2. /\ Pass(c) = [n |-> n + 1, line |-> line, stop |-> "no", value_hit |-> hit, inside_expr |-> expr,
                    inside_parens |-> parens, inside_brackets |-> brackets]
      /\ \A how : /\ Halt(c, tk, how) = [n |-> n, line |-> tk.line, stop |-> how, value_hit |-> hit,
                        inside_expr |-> expr, inside_parens |-> parens, inside_brackets |-> brackets]
                  /\ Halt(Pass(c), tk, how) = [n |-> n + 1, line |-> tk.line, stop |-> how, value_hit |-> hit,
                        inside_expr |-> expr, inside_parens |-> parens, inside_brackets |-> brackets]
  <2>1. Pass(c) = [n |-> n + 1, line |-> line, stop |-> "no", value_hit |-> hit, inside_expr |-> expr,
                   inside_parens |-> parens, inside_brackets |-> brackets]
    BY <1>1 DEF Pass
  <2>2. ASSUME NEW q, NEW m, NEW how,
               q = [n |-> m, line |-> line, stop |-> "no", value_hit |-> hit, inside_expr |-> expr,
                    inside_parens |-> parens, inside_brackets |-> brackets]
        PROVE  Halt(q, tk, how) = [n |-> m, line |-> tk.line, stop |-> how, value_hit |-> hit,
                    inside_expr |-> expr, inside_parens |-> parens, inside_brackets |-> brackets]
    <3> DEFINE h == [q EXCEPT !.stop = how]
    <3>1. h = [n |-> m, line |-> line, stop |-> how, value_hit |-> hit, inside_expr |-> expr,
               inside_parens |-> parens, inside_brackets |-> brackets]
      BY <2>2
    <3>2. Halt(q, tk, how) = [h EXCEPT !.line = tk.line]
      BY DEF Halt
    <3> HIDE DEF h
    <3> QED BY <3>1, <3>2
  <2> QED BY <1>1, <2>1, <2>2
<1>3. /\ \A how : /\ Halt(c, tk, how).stop = how /\ Halt(c, tk, how).n = n
                  /\ Halt(Pass(c), tk, how).stop = how /\ Halt(Pass(c), tk, how).n = n + 1
      /\ Pass(c).stop = "no" /\ Pass(c).n = n + 1
      /\ Pass(c).inside_expr = c.inside_expr /\ Pass(c).value_hit = c.value_hit
      /\ c.n = n
  <2>1. \A how : /\ Halt(c, tk, how).stop = how /\ Halt(c, tk, how).n = n
                 /\ Halt(Pass(c), tk, how).stop = how /\ Halt(Pass(c), tk, how).n = n + 1
    <3> TAKE how
    <3>1. Halt(c, tk, how) = [n |-> n, line |-> tk.line, stop |-> how, value_hit |-> hit,
              inside_expr |-> expr, inside_parens |-> parens, inside_brackets |-> brackets]
      BY <1>2
    <3>2. Halt(Pass(c), tk, how) = [n |-> n + 1, line |-> tk.line, stop |-> how, value_hit |-> hit,
              inside_expr |-> expr, inside_parens |-> parens, inside_brackets |-> brackets]
      BY <1>2
    <3> DEFINE h1 == Halt(c, tk, how)
               h2 == Halt(Pass(c), tk, how)
    <3> HIDE DEF h1, h2
    <3>3. h1.stop = how /\ h1.n = n
      BY <3>1 DEF h1
    <3>4. h2.stop = how /\ h2.n = n + 1
      BY <3>2 DEF h2
    <3> QED BY <3>3, <3>4 DEF h1, h2
  <2>2. /\ Pass(c).stop = "no" /\ Pass(c).n = n + 1
        /\ Pass(c).inside_expr = expr /\ Pass(c).value_hit = hit
    BY <1>2
  <2>3. c.inside_expr = expr /\ c.value_hit = hit /\ c.n = n
    BY <1>1
  <2> QED BY <2>1, <2>2, <2>3
<1> DEFINE v == [Pass(c) EXCEPT !.value_hit = TRUE]
           e == [Pass(c) EXCEPT !.inside_expr = TRUE]
           ep == [Pass(c) EXCEPT !.inside_expr = TRUE, !.inside_parens = TRUE]
           eb == [Pass(c) EXCEPT !.inside_expr = TRUE, !.inside_brackets = TRUE]
           b == [Pass(c) EXCEPT !.inside_brackets = FALSE]
<1>4. /\ v.stop = "no" /\ e.stop = "no" /\ ep.stop = "no" /\ eb.stop = "no" /\ b.stop = "no"
      /\ e.inside_expr /\ ep.inside_expr /\ eb.inside_expr
      /\ b.n = n + 1 /\ b.inside_expr = c.inside_expr
  <2> DEFINE p == [n |-> n + 1, line |-> line, stop |-> "no", value_hit |-> hit, inside_expr |-> expr,
                   inside_parens |-> parens, inside_brackets |-> brackets]
  <2>1. /\ [p EXCEPT !.value_hit = TRUE].stop = "no"
        /\ [p EXCEPT !.inside_expr = TRUE].stop = "no" /\ [p EXCEPT !.inside_expr = TRUE].inside_expr
        /\ [p EXCEPT !.inside_brackets = FALSE].stop = "no" /\ [p EXCEPT !.inside_brackets = FALSE].n = n + 1
        /\ [p EXCEPT !.inside_brackets = FALSE].inside_expr = expr
    OBVIOUS
  <2>2. /\ [p EXCEPT !.inside_expr = TRUE, !.inside_parens = TRUE].stop = "no"
        /\ [p EXCEPT !.inside_expr = TRUE, !.inside_parens = TRUE].inside_expr
    OBVIOUS
  <2>3. /\ [p EXCEPT !.inside_expr = TRUE, !.inside_brackets = TRUE].stop = "no"
        /\ [p EXCEPT !.inside_expr = TRUE, !.inside_brackets = TRUE].inside_expr
    OBVIOUS
  <2>4. Pass(c) = p /\ c.inside_expr = expr
    BY <1>1, <1>2
  <2> HIDE DEF p
  <2> QED BY <2>1, <2>2, <2>3, <2>4
<1> HIDE DEF v, e, ep, eb, b
<1>5. CASE tk.type \in Starts
  <2>1. d = CountStart(c, tk)
    BY <1>5 DEF CountToken, Starts, Counted, Operators
  <2>2. d = Halt(c, tk, IF tk.line = c.line \/ ~c.value_hit THEN "exit" ELSE "end")
    BY <2>1 DEF CountStart
  <2> QED BY <1>3, <1>5, <2>2 DEF Starts
<1>6. CASE tk.type \in Counted
  <2>1. d = CountValue(c, tk)
    BY <1>6 DEF CountToken, Starts, Counted, Operators
  <2>2. d = IF c.inside_expr THEN Pass(c) ELSE IF c.value_hit THEN Halt(c, tk, "end") ELSE v
    BY <2>1 DEF CountValue, v
  <2> QED BY <1>3, <1>4, <1>6, <2>2 DEF Starts, Counted
<1>7. CASE tk.type = "EXPREND_TOK"
  <2>1. d = CountExprEnd(c, tk)
    BY <1>7 DEF CountToken, Starts, Counted, Operators
  <2>2. d = Halt(Pass(c), tk, "end") \/ d = Halt(c, tk, "exit")
    BY <2>1 DEF CountExprEnd
  <2> QED BY <1>3, <1>7, <2>2 DEF Starts, Counted
<1>8. CASE tk.type \in Operators
  <2>1. d = e
    BY <1>8 DEF CountToken, Starts, Counted, Operators, e
  <2> QED BY <1>4, <1>8, <2>1 DEF Starts, Operators
<1>9. CASE tk.type = "RPRN_TOK"
  <2>1. d = CountParen(c, tk)
    BY <1>9 DEF CountToken, Starts, Counted, Operators
  <2>2. (d = Pass(c) /\ c.inside_expr) \/ d = Halt(c, tk, "exit")
    BY <2>1 DEF CountParen
  <2> QED BY <1>3, <1>9, <2>2 DEF Starts
<1>10. CASE tk.type = "RBRKTOP_TOK"
  <2>1. d = CountBracket(c, tk)
    BY <1>10 DEF CountToken, Starts, Counted, Operators
  <2>2. (d = b /\ c.inside_expr) \/ d = Halt(c, tk, "exit")
    BY <2>1 DEF CountBracket, b
  <2> QED BY <1>3, <1>4, <1>10, <2>2 DEF Starts
<1>11. CASE tk.type = "LPRN_TOK" \/ tk.type = "LBRKTOP_TOK"
  <2>1. d = ep \/ d = eb
    BY <1>11 DEF CountToken, Starts, Counted, Operators, ep, eb
  <2> QED BY <1>4, <1>11, <2>1 DEF Starts
<1>12. CASE tk.type \notin Starts \cup Counted \cup Operators
                 \cup {"EXPREND_TOK", "LPRN_TOK", "RPRN_TOK", "LBRKTOP_TOK", "RBRKTOP_TOK"}
  <2>1. d = Pass(c)
    BY <1>12 DEF CountToken
  <2> QED BY <1>3, <1>12, <2>1
<1> HIDE DEF d
<1> QED BY <1>5, <1>6, <1>7, <1>8, <1>9, <1>10, <1>11, <1>12 DEF d

\* As long as the evaluation goes on, so does the search, unless it refuses.
LEMMA StaysInStep ==
  ASSUME NEW c, IsCount(c), c.stop = "no", NEW r, IsRes(r), r.stop = "no", InStep(c, r),
         NEW tk, NEW st, NEW fileid, ResolveToken(r, tk, st, fileid).stop = "no"
  PROVE  LET d == CountToken(c, tk)
         IN  d.stop = "exit" \/ (d.stop = "no" /\ InStep(d, ResolveToken(r, tk, st, fileid)))
<1> DEFINE d == CountToken(c, tk)
           e == ResolveToken(r, tk, st, fileid)
<1>1. ResolvedOn(r, tk, e)
  BY ResolvesOn
<1>2. /\ d.stop \in {"no", "end", "exit"}
      /\ d.stop = "end" => \/ tk.type \in Starts \cup {"EXPREND_TOK"}
                           \/ tk.type \in Counted /\ ~c.inside_expr /\ c.value_hit
      /\ d.stop = "no" =>
            \/ d.inside_expr
            \/ tk.type \in Counted
            \/ /\ d.inside_expr = c.inside_expr /\ d.value_hit = c.value_hit
               /\ tk.type \notin Counted \cup Operators
                                 \cup {"LPRN_TOK", "RPRN_TOK", "LBRKTOP_TOK", "RBRKTOP_TOK"}
  BY CountsOn
<1> HIDE DEF d, e
<1>3. /\ tk.type \notin Starts \cup {"EXPREND_TOK", "RBRKTOP_TOK"}
      /\ tk.type \in Values => e.last_is_value /\ ~r.last_is_value
      /\ tk.type \notin Values \cup Operators \cup {"LPRN_TOK", "RPRN_TOK", "LBRKTOP_TOK"} =>
            e.last_is_value = r.last_is_value
  BY <1>1 DEF ResolvedOn, e
<1>4. tk.type \in Counted => tk.type \in Values
  BY DEF Values
<1>5. d.stop # "end"
  BY <1>2, <1>3, <1>4 DEF InStep
<1>6. d.stop = "no" => InStep(d, e)
  BY <1>2, <1>3, <1>4 DEF InStep
<1> QED BY <1>2, <1>5, <1>6 DEF d, e


\* A walk that has stopped stays where it is.
LEMMA PathStops ==
  ASSUME NEW kind, NEW c, NEW start, NEW seq, NEW n \in Nat, NEW f, Path(f, kind, c, start, seq, n),
         NEW k \in 0 .. n, f[k].stop # "no"
  PROVE  f[n] = f[k]
<1> DEFINE Sat == {j \in 0 .. n : j >= k => f[j] = f[k]}
<1>1. 0 \in Sat
  OBVIOUS
<1>2. ASSUME NEW j \in 0 .. n - 1, j \in Sat PROVE j + 1 \in Sat
  <2>1. j + 1 \in 1 .. n /\ j + 1 \in 0 .. n /\ (j + 1) - 1 = j
    OBVIOUS
  <2>2. CASE j >= k
    <3>1. f[j] = f[k]
      BY <1>2, <2>2
    <3>2. f[j + 1] = f[j]
      BY <2>1, <3>1 DEF Path
    <3> QED BY <2>1, <3>1, <3>2
  <2>3. CASE j + 1 = k
    BY <2>1, <2>3
  <2>4. CASE j + 1 < k
    BY <2>1, <2>4
  <2> QED BY <2>2, <2>3, <2>4
<1>3. 0 .. n \subseteq Sat
  <2> HIDE DEF Sat
  <2> QED BY <1>1, <1>2, StepInduction
<1> QED BY <1>3

\* The search that counts an operand, as a walk over the tokens from n + 1 on.
LEMMA OperandSearched ==
  ASSUME NEW toks, IsSequence(toks), NEW n \in 1 .. Len(toks), NEW line
  PROVE  \E f, start :
            /\ Path(f, "token", 0, start, SubSeq(toks, n + 1, Len(toks)), Len(toks) - n)
            /\ IsCount(start) /\ start.n = n + 1 /\ start.stop = "no" /\ ~start.value_hit
            /\ LET c == count_uint_operand(toks, n + 1, line)
                   last == f[Len(toks) - n]
               IN  /\ last.stop = "no" => c.stop # "end"
                   /\ last.stop # "no" => c = last
<1> DEFINE start == [n |-> n + 1, line |-> line, stop |-> "no", value_hit |-> FALSE,
                     inside_expr |-> FALSE, inside_parens |-> FALSE, inside_brackets |-> FALSE]
           seq == SubSeq(toks, n + 1, Len(toks))
           len == Len(toks) - n
           last == After(CountToken, start, seq)
           c == count_uint_operand(toks, n + 1, line)
<1>1. Len(toks) \in Nat /\ n \in Nat /\ len \in Nat /\ n + 1 \in 1 .. Len(toks) + 1
  BY DEF IsSequence
<1>2. Len(seq) = len
  <2>1. Len(seq) = Len(toks) - (n + 1) + 1
    BY <1>1, RestOf
  <2> HIDE DEF seq
  <2> QED BY <1>1, <2>1
<1>3. IsCount(start) /\ start.n = n + 1 /\ start.stop = "no" /\ ~start.value_hit
  BY <1>1 DEF IsCount
<1>4. c = IF last.stop = "no" THEN [last EXCEPT !.stop = "exception"] ELSE last
  BY DEF count_uint_operand
<1> HIDE DEF start, seq, last, len, c
<1>5. PICK f : Path(f, "token", 0, start, seq, len) /\ last = f[len]
  BY <1>1, <1>2, TokensWalked DEF last
<1>6. last.stop = "no" => c.stop # "end"
  <2>1. [last EXCEPT !.stop = "exception"].stop \in {"exception", "no"}
                \/ [last EXCEPT !.stop = "exception"] = last
    OBVIOUS
  <2> QED BY <1>4, <2>1
<1> QED BY <1>3, <1>4, <1>5, <1>6 DEF seq, len, c

\* An operand that was evaluated: the token after it is looked at next.
LEMMA FinishedBehind ==
  ASSUME NEW last, IsRes(last), last.stop \in {"no", "end"} \cup Refusals, Resolved(last).stop = "end"
  PROVE  last.stop = "end" /\ Resolved(last).n = last.n + 1
<1> DEFINE res == Resolved(last)
<1>1. CASE last.stop = "end"
  <2> DEFINE r == [last EXCEPT !.stop = "no"]
             e == EvalUntil(r, "no operator")
  <2>2. IsRes(r) /\ r.stop = "no" /\ r.n = last.n
    BY DEF IsRes
  <2> HIDE DEF r
  <2>3. Stays(r, e)
    BY <2>2, UntilStays
  <2>4. res = Finished(e)
    BY <1>1 DEF Resolved, r
  <2> HIDE DEF e
  <2>5. CASE e.stop # "no"
    BY <2>3, <2>4, <2>5 DEF Finished, Stays, Refusals
  <2>6. CASE e.stop = "no"
    <3> DEFINE vals == IF e.inside_offset THEN Front(e.vals) ELSE e.vals
               q == [Stopped(e, "end") EXCEPT !.n = @ + 1, !.vals = vals]
    <3>1. res = q \/ res = Stopped(e, "exit")
      BY <2>4, <2>6 DEF Finished
    <3> HIDE DEF vals
    <3>2. q.n = last.n + 1 /\ Stopped(e, "exit").stop = "exit"
      BY <2>2, <2>3 DEF Stays, IsRes, Stopped
    <3> HIDE DEF q
    <3> QED BY <1>1, <3>1, <3>2
  <2> QED BY <2>5, <2>6
<1>2. CASE last.stop = "no"
  <2>1. res = Stopped(last, "exception")
    BY <1>2 DEF Resolved
  <2>2. res.stop = "exception"
    BY <2>1 DEF Stopped, IsRes
  <2> QED BY <2>2
<1>3. CASE last.stop \in Refusals
  <2>1. res = last
    BY <1>3 DEF Resolved, Refusals
  <2> QED BY <1>3, <2>1 DEF Refusals
<1> QED BY <1>1, <1>2, <1>3

\* The first token of an operand begins no statement.
LEMMA CountAtStart ==
  ASSUME NEW toks, IsSequence(toks), NEW m \in 2 .. Len(toks), toks[m].type \in Starts, NEW line
  PROVE  count_uint_operand(toks, m, line).stop = "exit"
<1> DEFINE n == m - 1
           seq == SubSeq(toks, n + 1, Len(toks))
           len == Len(toks) - n
           c == count_uint_operand(toks, n + 1, line)
<1>1. Len(toks) \in Nat /\ n \in 1 .. Len(toks) /\ len \in Nat /\ len >= 1 /\ n + 1 = m
  BY DEF IsSequence
<1> HIDE DEF n
<1>2. PICK f, start :
         /\ Path(f, "token", 0, start, seq, len)
         /\ IsCount(start) /\ start.stop = "no" /\ ~start.value_hit
         /\ f[len].stop # "no" => c = f[len]
  BY <1>1, OperandSearched
<1>3. seq[1] = toks[m]
  <2>1. n + 1 \in 1 .. Len(toks) + 1
    BY <1>1
  <2>2. Len(seq) = Len(toks) - (n + 1) + 1 /\ \A k \in 1 .. Len(seq) : seq[k] = toks[(n + 1) + k - 1]
    BY <2>1, RestOf
  <2> HIDE DEF seq
  <2>3. 1 \in 1 .. Len(seq) /\ (n + 1) + 1 - 1 = m
    BY <1>1, <2>2
  <2> QED BY <2>2, <2>3
<1> HIDE DEF seq, c
<1>4. f[1] = CountToken(start, toks[m])
  <2>1. 1 \in 1 .. len /\ 1 - 1 = 0
    BY <1>1
  <2> QED BY <1>2, <1>3, <2>1 DEF Path, Stepped
<1>5. f[1].stop = "exit"
  BY <1>2, <1>4, CountsOn
<1>6. f[len] = f[1]
  <2>1. 1 \in 0 .. len
    BY <1>1
  <2> QED BY <1>1, <1>2, <1>5, <2>1, PathStops
<1> QED BY <1>1, <1>2, <1>5, <1>6 DEF c

\* Both readers at the operand that follows token p: f evaluates it, g looks for
\* its end.
Together(toks, p, f, g, k) ==
    /\ IsRes(f[k]) /\ IsCount(g[k]) /\ f[k].stop \in {"no", "end"} \cup Refusals
    /\ f[k].n \in p .. p + k
    /\ f[k].stop \notin Refusals => \A m \in p + 1 .. f[k].n : toks[m].type \notin Starts
    /\ f[k].stop = "no" =>
          /\ f[k].n = p + k
          /\ g[k].stop = "exit" \/ (g[k].stop = "no" /\ g[k].n = p + 1 + k /\ InStep(g[k], f[k]))
    /\ f[k].stop = "end" =>
          \A m \in 1 .. Len(toks) :
             m = f[k].n + 1 /\ toks[m].type \in Starts =>
                LET last == g[Len(toks) - p]
                IN  last.stop = "exit" \/ (last.stop = "end" /\ last.n = m)

LEMMA StaysTogether ==
  ASSUME NEW toks, IsSequence(toks), NEW p \in 1 .. Len(toks), NEW st, NEW fileid,
         NEW f, NEW g, NEW c, NEW c0,
         c = [st |-> st, fileid |-> fileid],
         Path(f, "resolve", c, ResolveStart(p), SubSeq(toks, p + 1, Len(toks)), Len(toks) - p),
         Path(g, "token", 0, c0, SubSeq(toks, p + 1, Len(toks)), Len(toks) - p),
         NEW k \in 0 .. Len(toks) - p - 1, Together(toks, p, f, g, k)
  PROVE  Together(toks, p, f, g, k + 1)
<1> DEFINE seq == SubSeq(toks, p + 1, Len(toks))
           len == Len(toks) - p
           tk == toks[p + k + 1]
<1>1. /\ Len(toks) \in Nat /\ p \in Nat /\ len \in Nat /\ k \in Nat
      /\ k + 1 \in 1 .. len /\ k + 1 \in 0 .. len /\ (k + 1) - 1 = k
      /\ p + k + 1 \in 1 .. Len(toks) /\ p + 1 \in 1 .. Len(toks) + 1
  BY DEF IsSequence
<1>2. \A j \in 1 .. len : seq[j] = toks[p + j]
  <2>1. Len(seq) = Len(toks) - (p + 1) + 1 /\ \A j \in 1 .. Len(seq) : seq[j] = toks[(p + 1) + j - 1]
    BY <1>1, RestOf
  <2> HIDE DEF seq
  <2>2. Len(seq) = len /\ \A j \in 1 .. Len(seq) : (p + 1) + j - 1 = p + j
    BY <1>1, <2>1
  <2> QED BY <2>1, <2>2
<1>8. \A j \in 0 .. len : g[j].stop # "no" => g[len] = g[j]
  <2> HIDE DEF seq
  <2>1. Path(g, "token", 0, c0, seq, len) /\ len \in Nat
    BY <1>1 DEF seq
  <2> HIDE DEF len
  <2> QED BY <2>1, PathStops
<1> HIDE DEF seq
<1>3. seq[k + 1] = tk
  BY <1>1, <1>2
<1>4. /\ f[k + 1] = IF f[k].stop = "no" THEN ResolveToken(f[k], tk, st, fileid) ELSE f[k]
      /\ g[k + 1] = IF g[k].stop = "no" THEN CountToken(g[k], tk) ELSE g[k]
  BY <1>1, <1>3 DEF Path, Stepped, seq
<1>5. IsCount(g[k + 1])
  <2>1. g[k].stop = "no" => Searched(g[k], tk, CountToken(g[k], tk))
    BY CountTokenSearches DEF Together
  <2> QED BY <1>4, <2>1 DEF Together, Searched
<1> HIDE DEF tk
<1>6. CASE f[k].stop # "no"
  <2>1. f[k + 1] = f[k]
    BY <1>4, <1>6
  <2>2. f[k].n \in p .. p + (k + 1)
    BY <1>1 DEF Together
  <2> QED BY <1>5, <1>6, <2>1, <2>2 DEF Together
<1>7. CASE f[k].stop = "no"
  <2> DEFINE s == f[k]
             r == f[k + 1]
             a == g[k]
             d == g[k + 1]
             last == g[len]
  <2>1. /\ IsRes(s) /\ IsCount(a) /\ s.n = p + k /\ r = ResolveToken(s, tk, st, fileid)
        /\ \A m \in p + 1 .. s.n : toks[m].type \notin Starts
        /\ a.stop = "exit" \/ (a.stop = "no" /\ a.n = p + 1 + k /\ InStep(a, s))
    BY <1>4, <1>7 DEF Together, Refusals
  <2>2. ResolvedOn(s, tk, r) /\ Moves(s, r)
    BY <1>7, <2>1, ResolvesOn, TokenMoves
  <2>3. IsRes(r) /\ r.stop \in {"no", "end"} \cup Refusals /\ r.n \in {p + k, p + k + 1}
    BY <2>1, <2>2 DEF Moves
  <2>4. d.stop = "exit" \/ (a.stop = "no" /\ d = CountToken(a, tk))
    BY <1>4, <2>1
  <2>5. d.stop # "no" => last = d
    BY <1>1, <1>8
  <2> HIDE DEF s, r, a, d, last
  <2>7. CASE r.stop = "no"
    <3>1. r.n = p + k + 1 /\ tk.type \notin Starts
      BY <2>1, <2>2, <2>7 DEF ResolvedOn
    <3>2. \A m \in p + 1 .. r.n : toks[m].type \notin Starts
      <4> TAKE m \in p + 1 .. r.n
      <4>1. m \in p + 1 .. s.n \/ m = p + k + 1
        BY <1>1, <2>1, <3>1
      <4> QED BY <2>1, <3>1, <4>1 DEF tk
    <3>3. d.stop = "exit" \/ (d.stop = "no" /\ d.n = p + 1 + (k + 1) /\ InStep(d, r))
      <4>1. CASE a.stop = "no" /\ d = CountToken(a, tk)
        <5>1. d.stop = "exit" \/ (d.stop = "no" /\ InStep(d, r))
          BY <1>7, <2>1, <2>7, <4>1, StaysInStep DEF s
        <5>2. Searched(a, tk, d)
          BY <2>1, <4>1, CountTokenSearches
        <5>3. d.stop = "no" => d.n = a.n + 1
          BY <5>2 DEF Searched
        <5> QED BY <1>1, <2>1, <4>1, <5>1, <5>3
      <4> QED BY <2>4, <4>1
    <3> QED BY <1>1, <1>5, <2>3, <2>7, <3>1, <3>2, <3>3 DEF Together, r, d
  <2>8. CASE r.stop = "end"
    <3>1. \/ r.n = p + k /\ tk.type \in Starts \cup Values
          \/ r.n = p + k + 1 /\ tk.type \in {"EXPREND_TOK", "RBRKTOP_TOK"}
      BY <2>1, <2>2, <2>8 DEF ResolvedOn
    <3>2. \A m \in p + 1 .. r.n : toks[m].type \notin Starts
      <4> TAKE m \in p + 1 .. r.n
      <4>1. m \in p + 1 .. s.n \/ (m = p + k + 1 /\ r.n = p + k + 1)
        BY <1>1, <2>1, <3>1
      <4>2. r.n = p + k + 1 => tk.type \notin Starts
        <5>1. p + k # p + k + 1
          BY <1>1
        <5>2. r.n = p + k + 1 => tk.type \in {"EXPREND_TOK", "RBRKTOP_TOK"}
          BY <3>1, <5>1
        <5> QED BY <5>2 DEF Starts
      <4> QED BY <2>1, <4>1, <4>2 DEF tk
    <3>3. ASSUME NEW m \in 1 .. Len(toks), m = r.n + 1, toks[m].type \in Starts
          PROVE  last.stop = "exit" \/ (last.stop = "end" /\ last.n = m)
      <4>1. CASE d.stop = "exit"
        BY <2>5, <4>1
      <4>2. CASE a.stop = "no" /\ d = CountToken(a, tk)
        <5>1. /\ a.n = p + 1 + k
              /\ tk.type \in Starts => d.stop = "exit" \/ (d.stop = "end" /\ d.n = a.n)
              /\ tk.type = "EXPREND_TOK" => d.stop = "exit" \/ (d.stop = "end" /\ d.n = a.n + 1)
              /\ tk.type = "RBRKTOP_TOK" => d.stop = "exit" \/ (d.stop = "no" /\ d.n = a.n + 1)
          BY <2>1, <4>2, CountsOn
        <5>2. CASE tk.type \in Starts
          <6>1. m = p + k + 1
            BY <3>1, <3>3, <5>2 DEF Starts
          <6>2. a.n = m
            BY <1>1, <5>1, <6>1
          <6> QED BY <2>5, <5>1, <5>2, <6>2
        <5>3. CASE tk.type = "EXPREND_TOK"
          <6>1. m = p + k + 1 + 1
            BY <3>1, <3>3, <5>3 DEF Starts, Values, Counted
          <6>2. a.n + 1 = m
            BY <1>1, <5>1, <6>1
          <6> QED BY <2>5, <5>1, <5>3, <6>2
        <5>4. CASE tk.type = "RBRKTOP_TOK"
          <6>1. m = p + k + 1 + 1
            BY <3>1, <3>3, <5>4 DEF Starts, Values, Counted
          <6>2. CASE d.stop = "exit"
            BY <2>5, <6>2
          <6>3. CASE d.stop = "no" /\ d.n = a.n + 1
            <7> DEFINE b == g[k + 2]
            <7>1. k \in Nat /\ p \in Nat /\ m \in Nat /\ Len(toks) \in Nat /\ m <= Len(toks)
              BY <1>1
            <7>2. m = p + (k + 2)
              BY <6>1, <7>1
            <7>3. k + 2 \in 1 .. len /\ k + 2 \in 0 .. len /\ (k + 2) - 1 = k + 1 /\ p + (k + 2) = m
              BY <7>1, <7>2
            <7>4. seq[k + 2] = toks[m]
              BY <1>2, <7>3
            <7>5. b = CountToken(d, toks[m])
              BY <6>3, <7>3, <7>4 DEF Path, Stepped, seq, d
            <7>6. b.stop = "exit" \/ (b.stop = "end" /\ b.n = d.n)
              <8>1. IsCount(d) /\ d.stop = "no"
                BY <1>5, <6>3 DEF d
              <8>2. toks[m].type \in Starts
                BY <3>3
              <8> QED BY <7>5, <8>1, <8>2, CountsOn
            <7>7. last = b
              BY <1>8, <7>3, <7>6 DEF last
            <7> QED BY <1>1, <5>1, <6>1, <6>3, <7>6, <7>7
          <6> QED BY <5>1, <5>4, <6>2, <6>3
        <5>5. CASE tk.type \in Values
          <6>1. m = p + k + 1
            BY <3>1, <3>3, <5>5 DEF Starts, Values, Counted
          <6>2. toks[m] = tk
            BY <6>1 DEF tk
          <6> QED BY <3>3, <5>5, <6>2 DEF Starts, Values, Counted
        <5> QED BY <3>1, <5>2, <5>3, <5>4, <5>5
      <4> QED BY <2>4, <4>1, <4>2
    <3>4. r.n \in p .. p + (k + 1)
      BY <1>1, <2>3
    <3> QED BY <1>1, <1>5, <2>3, <2>8, <3>2, <3>3, <3>4 DEF Together, r, d, last
  <2>9. CASE r.stop \in Refusals
    <3>1. r.stop # "no" /\ r.stop # "end"
      BY <2>9 DEF Refusals
    <3>2. r.n \in p .. p + (k + 1)
      BY <1>1, <2>3
    <3> QED BY <1>1, <1>5, <2>3, <2>9, <3>1, <3>2 DEF Together, r, d
  <2> QED BY <2>3, <2>7, <2>8, <2>9
<1> QED BY <1>6, <1>7

\* An operand that was evaluated after p: no statement begins before its end, and
\* when one does there, no second operand was counted.
LEMMA OperandEvaluated ==
  ASSUME NEW toks, IsSequence(toks), NEW p \in 1 .. Len(toks), NEW st, NEW fileid,
         resolve_uint_operand(toks, p, st, fileid).stop = "end"
  PROVE  LET r == resolve_uint_operand(toks, p, st, fileid)
         IN  /\ \A m \in p + 1 .. r.n - 1 : toks[m].type \notin Starts
             /\ r.n \in 1 .. Len(toks) /\ toks[r.n].type \in Starts => CountOperands(toks, p, 2).stop # "no"
<1> DEFINE seq == SubSeq(toks, p + 1, Len(toks))
           len == Len(toks) - p
           c == [st |-> st, fileid |-> fileid]
           r == resolve_uint_operand(toks, p, st, fileid)
           line == toks[p].line
           d == count_uint_operand(toks, p + 1, line)
<1>1. Len(toks) \in Nat /\ p \in Nat /\ len \in Nat
  BY DEF IsSequence
<1>2. Len(seq) = len
  <2>1. p + 1 \in 1 .. Len(toks) + 1
    BY <1>1
  <2>2. Len(seq) = Len(toks) - (p + 1) + 1
    BY <2>1, RestOf
  <2> HIDE DEF seq
  <2> QED BY <1>1, <2>2
<1>3. PICK f : Path(f, "resolve", c, ResolveStart(p), seq, len) /\ r = Resolved(f[len])
  BY <1>1, <1>2, ResolveWalked
<1>4. PICK g, start :
         /\ Path(g, "token", 0, start, seq, len)
         /\ IsCount(start) /\ start.n = p + 1 /\ start.stop = "no" /\ ~start.value_hit
         /\ g[len].stop = "no" => d.stop # "end"
         /\ g[len].stop # "no" => d = g[len]
  BY OperandSearched
<1> HIDE DEF r, d, line
<1> DEFINE Sat == {k \in 0 .. len : Together(toks, p, f, g, k)}
<1>5. 0 \in Sat
  <2>1. f[0] = ResolveStart(p) /\ g[0] = start
    BY <1>3, <1>4 DEF Path
  <2> DEFINE s == f[0]
  <2>2. IsRes(s) /\ s.n = p /\ s.stop = "no"
    BY <1>1, <2>1, SmallSequences DEF ResolveStart, IsRes
  <2> HIDE DEF s
  <2>3. InStep(g[0], s)
    BY <1>4, <2>1 DEF InStep
  <2>4. s.n \in p .. p + 0 /\ p + 0 = p /\ p + 1 + 0 = p + 1 /\ 0 \in 0 .. len
        /\ \A m \in p + 1 .. s.n : FALSE
    BY <1>1, <2>2
  <2>5. Together(toks, p, f, g, 0)
    BY <1>4, <2>1, <2>2, <2>3, <2>4 DEF Together, s
  <2> QED BY <2>4, <2>5
<1>6. ASSUME NEW k \in 0 .. len - 1, k \in Sat PROVE k + 1 \in Sat
  <2>1. k + 1 \in 0 .. len
    BY <1>1
  <2>2. Together(toks, p, f, g, k + 1)
    BY <1>3, <1>4, <1>6, StaysTogether
  <2> QED BY <2>1, <2>2
<1>7. Together(toks, p, f, g, len)
  <2>1. 0 .. len \subseteq Sat
    <3> HIDE DEF Sat
    <3> QED BY <1>1, <1>5, <1>6, StepInduction
  <2> QED BY <1>1, <2>1
<1> DEFINE last == f[len]
           end == g[len]
<1>8. /\ last.stop = "end" /\ r.n = last.n + 1
      /\ \A m \in p + 1 .. last.n : toks[m].type \notin Starts
      /\ last.n \in p .. p + len
      /\ \A m \in 1 .. Len(toks) :
            m = last.n + 1 /\ toks[m].type \in Starts => end.stop = "exit" \/ (end.stop = "end" /\ end.n = m)
  <2>1. last.stop = "end" /\ r.n = last.n + 1
    BY <1>3, <1>7, FinishedBehind DEF Together, r
  <2> QED BY <1>7, <2>1 DEF Together, Refusals
<1> HIDE DEF last, end
<1>9. \A m \in p + 1 .. r.n - 1 : toks[m].type \notin Starts
  BY <1>1, <1>8
<1>10. ASSUME r.n \in 1 .. Len(toks), toks[r.n].type \in Starts PROVE CountOperands(toks, p, 2).stop # "no"
  <2> DEFINE m == r.n
  <2>1. m \in 2 .. Len(toks)
    BY <1>1, <1>8, <1>10
  <2>2. end.stop = "exit" \/ (end.stop = "end" /\ end.n = m)
    BY <1>8, <1>10
  <2>3. d.stop = "exit" \/ (d.stop = "end" /\ d.n = m)
    BY <1>4, <2>2 DEF end
  <2>4. PICK h : /\ Path(h, "operand", toks, [n |-> p + 1, line |-> line, stop |-> "no"],
                         [k \in 1 .. 2 |-> k], 2)
                 /\ CountOperands(toks, p, 2) = h[2]
    <3>1. 2 \in Nat
      OBVIOUS
    <3> QED BY ONLY <3>1, OperandsWalked DEF line
  <2>5. h[1] = [n |-> d.n, line |-> d.line, stop |-> IF d.stop = "end" THEN "no" ELSE d.stop]
    <3>1. h[0] = [n |-> p + 1, line |-> line, stop |-> "no"]
      BY <2>4 DEF Path
    <3>2. h[0].stop = "no" /\ h[0].n = p + 1 /\ h[0].line = line
      BY <3>1
    <3>3. 1 \in 1 .. 2 /\ 1 - 1 = 0
      OBVIOUS
    <3>4. h[1] = CountNext(toks, h[0])
      BY <2>4, <3>2, <3>3 DEF Path, Stepped
    <3> QED BY <3>2, <3>4 DEF CountNext, d
  <2>6. h[2] = IF h[1].stop = "no" THEN CountNext(toks, h[1]) ELSE h[1]
    <3>1. 2 \in 1 .. 2 /\ 2 - 1 = 1
      OBVIOUS
    <3> QED BY <2>4, <3>1 DEF Path, Stepped
  <2>7. CASE d.stop = "exit"
    <3>1. h[1].stop = "exit"
      BY <2>5, <2>7
    <3> QED BY <2>4, <2>6, <3>1
  <2>8. CASE d.stop = "end" /\ d.n = m
    <3>1. h[1].stop = "no" /\ h[1].n = m
      BY <2>5, <2>8
    <3> DEFINE e == count_uint_operand(toks, m, h[1].line)
    <3>2. e.stop = "exit"
      BY <1>10, <2>1, CountAtStart
    <3>3. h[2] = [n |-> e.n, line |-> e.line, stop |-> IF e.stop = "end" THEN "no" ELSE e.stop]
      BY <2>6, <3>1 DEF CountNext
    <3> HIDE DEF e
    <3> QED BY <2>4, <3>2, <3>3
  <2> QED BY <2>3, <2>7, <2>8
<1> QED BY <1>9, <1>10 DEF r

\* The operands of an instruction that the first pass has counted: as many are
\* built, and no statement begins among their tokens.
LEMMA OperandsBuilt ==
  ASSUME AsmsInv, NEW n \in 1 .. Len(main.toks), NEW count \in 0 .. 3,
         CountOperands(main.toks, n, count).stop = "no", ResolveOperands(n, count).stop = "no"
  PROVE  LET s == ResolveOperands(n, count)
         IN  /\ IsSequence(s.vals) /\ Len(s.vals) = count
             /\ \A m \in n + 1 .. s.n - 1 : main.toks[m].type \notin Starts
<1> DEFINE toks == main.toks
           start == [n |-> n, stop |-> "no", vals |-> <<>>]
           seq == [k \in 1 .. count |-> k]
           last == ResolveOperands(n, count)
           st == main.symtab
           fileid == FileId(main.path)
<1>1. IsSequence(toks) /\ Len(toks) \in Nat /\ n \in Nat /\ count \in Nat
  <2>1. main.path \in Readable /\ toks = Source(main.path)
    BY AsmIsOne DEF IsAsm
  <2>2. IsSequence(toks)
    BY <2>1, SourceIsSequence
  <2> QED BY <2>2 DEF IsSequence
<1>2. PICK f : Path(f, "next", count, start, seq, count) /\ last = f[count]
  BY <1>1, NextWalked
<1>3. start.n = n /\ start.stop = "no" /\ start.vals = <<>> /\ DOMAIN start = {"n", "stop", "vals"}
  OBVIOUS
<1>10. CountOperands(toks, n, count).stop = "no" /\ last.stop = "no" /\ n \in 1 .. Len(toks)
  OBVIOUS
<1> HIDE DEF start, seq, last, toks, st, fileid
<1> DEFINE G(k, s) == /\ DOMAIN s = {"n", "stop", "vals"}
                      /\ s.stop = "no" =>
                            /\ IsSequence(s.vals) /\ Len(s.vals) = k
                            /\ s.n \in n .. Len(toks) + 1
                            /\ k = 0 => s.n = n
                            /\ k # 0 => s.n >= n + 1
                            /\ \A m \in n + 1 .. s.n - 1 : toks[m].type \notin Starts
                            /\ k = 1 /\ count = 2 /\ s.n <= Len(toks) => toks[s.n].type \notin Starts
           Sat == {k \in 0 .. count : G(k, f[k])}
<1>4. 0 \in Sat
  <2>1. f[0] = start /\ 0 \in 0 .. count
    BY <1>1, <1>2 DEF Path
  <2>2. n \in n .. Len(toks) + 1 /\ \A m \in n + 1 .. n - 1 : FALSE
    BY <1>1, <1>10
  <2>3. IsSequence(<<>>) /\ Len(<<>>) = 0
    BY SmallSequences
  <2> DEFINE x == f[0]
  <2>5. DOMAIN x = {"n", "stop", "vals"} /\ x.n = n /\ x.vals = <<>>
    BY <1>3, <2>1
  <2> HIDE DEF x
  <2>4. G(0, x)
    BY <2>2, <2>3, <2>5
  <2> QED BY <2>1, <2>4 DEF x
<1>5. ASSUME NEW k \in 0 .. count - 1, k \in Sat PROVE k + 1 \in Sat
  <2>1. k + 1 \in 1 .. count /\ k + 1 \in 0 .. count /\ (k + 1) - 1 = k /\ k + 1 # 0 /\ k \in Nat
    BY <1>1
  <2>2. f[k + 1] = IF f[k].stop = "no" THEN ResolveNext(f[k], count) ELSE f[k]
    BY <1>2, <2>1 DEF Path, Stepped
  <2>3. G(k, f[k])
    BY <1>5
  <2> DEFINE s == f[k]
             r == f[k + 1]
  <2>4. CASE s.stop # "no"
    <3>1. r = s
      BY <2>2, <2>4
    <3>2. G(k + 1, r)
      BY <2>3, <2>4, <3>1
    <3> QED BY <2>1, <3>2
  <2> HIDE DEF r
  <2>5. CASE s.stop = "no"
    <3> DEFINE m == IF s.vals # <<>> /\ count = 3 THEN s.n - 1 ELSE s.n
               q == resolve_uint_operand(toks, m, st, fileid)
    <3>1. r = TakeOperand(s, q)
      BY <2>2, <2>5 DEF ResolveNext, toks, r, st, fileid
    <3>2. /\ DOMAIN s = {"n", "stop", "vals"} /\ IsSequence(s.vals) /\ Len(s.vals) = k
          /\ s.n \in n .. Len(toks) + 1
          /\ k = 0 => s.n = n
          /\ k # 0 => s.n >= n + 1
          /\ \A i \in n + 1 .. s.n - 1 : toks[i].type \notin Starts
          /\ k = 1 /\ count = 2 /\ s.n <= Len(toks) => toks[s.n].type \notin Starts
      BY <2>3, <2>5
    <3>3. s.vals # <<>> <=> k # 0
      <4>1. s.vals = <<>> => Len(s.vals) = 0
        OBVIOUS
      <4>2. Len(s.vals) = 0 => s.vals = <<>>
        BY <3>2 DEF IsSequence
      <4> QED BY <3>2, <4>1, <4>2
    <3>4. m \in 1 .. Len(toks) + 1 /\ m >= n
      BY <1>1, <1>10, <2>1, <3>2, <3>3
    <3>5. \/ k = 0 /\ m = n
          \/ k # 0 /\ count = 3 /\ m = s.n - 1
          \/ k = 1 /\ count = 2 /\ m = s.n
      <4>1. count \in {0, 1, 2, 3}
        OBVIOUS
      <4> QED BY <2>1, <3>2, <3>3, <4>1
    <3> HIDE DEF m, s
    <3>6. CASE q.stop = "end"
      <4>1. q.n \in m + 1 .. Len(toks) + 1
        BY <1>1, <3>4, <3>6, OperandEnds
      <4>2. m \in 1 .. Len(toks)
        BY <1>1, <3>4, <4>1
      <4>3. /\ \A i \in m + 1 .. q.n - 1 : toks[i].type \notin Starts
            /\ q.n \in 1 .. Len(toks) /\ toks[q.n].type \in Starts => CountOperands(toks, m, 2).stop # "no"
        BY <1>1, <3>6, <4>2, OperandEvaluated
      <4> DEFINE vals == Append(s.vals, q.vals[1].val)
      <4> HIDE DEF q
      <4>4. r = [s EXCEPT !.n = q.n, !.vals = vals]
        BY <3>1, <3>6 DEF TakeOperand
      <4>5. IsSequence(vals) /\ Len(vals) = k + 1
        BY <3>2, AppendKeeps
      <4> HIDE DEF vals
      <4>6. DOMAIN r = {"n", "stop", "vals"} /\ r.n = q.n /\ r.vals = vals
        BY <3>2, <4>4
      <4>7. q.n \in n .. Len(toks) + 1 /\ q.n >= n + 1
        BY <1>1, <3>4, <4>1
      <4>8. ASSUME NEW i \in n + 1 .. q.n - 1 PROVE toks[i].type \notin Starts
        <5>1. i \in n + 1 .. s.n - 1 \/ i \in m + 1 .. q.n - 1 \/ (k = 1 /\ count = 2 /\ i = s.n /\ s.n <= Len(toks))
          BY <1>1, <3>2, <3>4, <3>5, <4>1, <4>2
        <5> QED BY <3>2, <4>3, <5>1
      <4>9. ASSUME k + 1 = 1, count = 2, q.n <= Len(toks) PROVE toks[q.n].type \notin Starts
        <5>1. m = n /\ q.n \in 1 .. Len(toks)
          BY <1>1, <1>10, <2>1, <3>5, <4>7, <4>9
        <5> QED BY <1>10, <4>3, <4>9, <5>1
      <4>10. G(k + 1, r)
        BY <2>1, <4>5, <4>6, <4>7, <4>8, <4>9
      <4> QED BY <2>1, <4>10 DEF r
    <3>7. CASE q.stop # "end"
      <4>1. r = [s EXCEPT !.stop = q.stop]
        BY <3>1, <3>7 DEF TakeOperand
      <4>2. q.stop # "no"
        BY <1>1, <3>4, OperandEnds DEF Refusals
      <4> HIDE DEF q
      <4>3. DOMAIN r = {"n", "stop", "vals"} /\ r.stop # "no"
        BY <3>2, <4>1, <4>2
      <4>4. G(k + 1, r)
        BY <4>3
      <4> QED BY <2>1, <4>4 DEF r
    <3> QED BY <3>6, <3>7
  <2> QED BY <2>4, <2>5
<1>6. G(count, last)
  <2> HIDE DEF G
  <2>1. 0 .. count \subseteq Sat
    <3> HIDE DEF Sat
    <3> QED BY <1>1, <1>4, <1>5, StepInduction
  <2> QED BY <1>1, <1>2, <2>1
<1> QED BY <1>6, <1>10 DEF last, toks

\* The sums of the terms of w that S picks.
Sums(f, w, S, n) ==
    f = [k \in 0 .. n |-> IF k = 0 THEN 0 ELSE IF k \in S THEN f[k - 1] + w[k] ELSE f[k - 1]]

LEMMA SumsExist ==
  ASSUME NEW w, NEW S, NEW n \in Nat
  PROVE  \E f : Sums(f, w, S, n)
<1> DEFINE Sat == {m \in Nat : \E f : Sums(f, w, S, m)}
<1>1. 0 \in Sat
  <2>1. Sums([k \in 0 .. 0 |-> 0], w, S, 0)
    BY DEF Sums
  <2> QED BY <2>1
<1>2. ASSUME NEW m \in Nat, m \in Sat PROVE m + 1 \in Sat
  <2>1. PICK f : Sums(f, w, S, m)
    BY <1>2
  <2> DEFINE Add(s, k) == IF k \in S THEN s + w[k] ELSE s
             g == [i \in 0 .. m + 1 |-> IF i <= m THEN f[i] ELSE Add(f[m], m + 1)]
             h == [i \in 0 .. m + 1 |-> IF i = 0 THEN 0 ELSE Add(g[i - 1], i)]
  <2>2. f = [i \in 0 .. m |-> IF i = 0 THEN 0 ELSE Add(f[i - 1], i)]
    BY <2>1 DEF Sums
  <2>3. ASSUME NEW i \in 0 .. m + 1 PROVE g[i] = h[i]
    <3> HIDE DEF Add
    <3>1. CASE i <= m
      <4>1. i \in 0 .. m /\ (i # 0 => i - 1 \in 0 .. m /\ i - 1 \in 0 .. m + 1 /\ i - 1 <= m)
        BY <3>1
      <4>2. g[i] = f[i] /\ (i # 0 => g[i - 1] = f[i - 1])
        BY <3>1, <4>1
      <4>3. f[i] = IF i = 0 THEN 0 ELSE Add(f[i - 1], i)
        BY <2>2, <4>1
      <4> QED BY <4>1, <4>2, <4>3
    <3>2. CASE i = m + 1
      BY <3>2
    <3> QED BY <3>1, <3>2
  <2>4. g = h
    <3> HIDE DEF Add
    <3> QED BY <2>3
  <2> HIDE DEF g
  <2>5. Sums(g, w, S, m + 1)
    BY <2>4 DEF Sums
  <2> QED BY <2>5
<1>3. n \in Sat
  <2> HIDE DEF Sat
  <2> QED BY <1>1, <1>2, SetInduction
<1> QED BY <1>3

\* What the opcodes of a file and their operands come to: f counts the opcodes
\* among the first tokens, h adds up their sizes.
Size(count) == OPCODE_SIZE + UINT_SIZE * count

Tallies(f, h, toks) ==
    /\ f[0] = 0 /\ h[0] = 0
    /\ \A k \in 1 .. Len(toks) :
          IF toks[k].type = "OPCODE_TOK"
          THEN f[k] = f[k - 1] + 1 /\ h[k] = h[k - 1] + Size(OperandCount[toks[k].v])
          ELSE f[k] = f[k - 1] /\ h[k] = h[k - 1]

LEMMA TallyFlat ==
  ASSUME NEW toks, Len(toks) \in Nat, NEW f, NEW h, Tallies(f, h, toks),
         NEW a \in 0 .. Len(toks), NEW b \in a .. Len(toks),
         \A m \in a + 1 .. b : toks[m].type # "OPCODE_TOK"
  PROVE  f[b] = f[a] /\ h[b] = h[a]
<1> DEFINE n == b - a
           Sat == {k \in 0 .. n : f[a + k] = f[a] /\ h[a + k] = h[a]}
<1>1. a \in Nat /\ n \in Nat /\ a + n = b /\ a + 0 = a
  OBVIOUS
<1>2. 0 \in Sat
  BY <1>1
<1>3. ASSUME NEW k \in 0 .. n - 1, k \in Sat PROVE k + 1 \in Sat
  <2> DEFINE m == a + (k + 1)
  <2>1. m \in 1 .. Len(toks) /\ m \in a + 1 .. b /\ m - 1 = a + k /\ k + 1 \in 0 .. n
    OBVIOUS
  <2>2. f[m] = f[m - 1] /\ h[m] = h[m - 1]
    BY <2>1 DEF Tallies
  <2> QED BY <1>3, <2>1, <2>2
<1>4. 0 .. n \subseteq Sat
  <2> HIDE DEF Sat, n
  <2> QED BY <1>1, <1>2, <1>3, StepInduction
<1>5. n \in Sat
  BY <1>1, <1>4
<1> QED BY <1>1, <1>5

LEMMA TalliesExist ==
  ASSUME NEW toks, Len(toks) \in Nat
  PROVE  \E f, h : Tallies(f, h, toks)
<1> DEFINE n == Len(toks)
           S == {k \in 1 .. n : toks[k].type = "OPCODE_TOK"}
           v == [k \in 1 .. n |-> 1]
           w == [k \in 1 .. n |-> Size(OperandCount[toks[k].v])]
<1>1. PICK f : Sums(f, v, S, n)
  BY SumsExist
<1>2. PICK h : Sums(h, w, S, n)
  BY SumsExist
<1>3. f[0] = 0 /\ h[0] = 0
  BY <1>1, <1>2 DEF Sums
<1>4. ASSUME NEW k \in 1 .. n
      PROVE  /\ f[k] = IF k \in S THEN f[k - 1] + v[k] ELSE f[k - 1]
             /\ h[k] = IF k \in S THEN h[k - 1] + w[k] ELSE h[k - 1]
  <2>1. k \in 0 .. n /\ k # 0
    OBVIOUS
  <2> HIDE DEF v, w, S, n
  <2> QED BY <1>1, <1>2, <2>1 DEF Sums
<1>5. Tallies(f, h, toks)
  <2>1. ASSUME NEW k \in 1 .. n
        PROVE  IF toks[k].type = "OPCODE_TOK"
               THEN f[k] = f[k - 1] + 1 /\ h[k] = h[k - 1] + Size(OperandCount[toks[k].v])
               ELSE f[k] = f[k - 1] /\ h[k] = h[k - 1]
    <3>1. v[k] = 1 /\ w[k] = Size(OperandCount[toks[k].v]) /\ (k \in S <=> toks[k].type = "OPCODE_TOK")
      OBVIOUS
    <3> HIDE DEF v, w, S
    <3> QED BY <1>4, <3>1
  <2> QED BY <1>3, <2>1 DEF Tallies
<1> QED BY <1>5

\* The room that instructions need, up to each of them.
Rooms(g, instrs) ==
    /\ g[0] = 0
    /\ \A k \in 1 .. Len(instrs) : g[k] = g[k - 1] + Size(Len(instrs[k].vals))

LEMMA RoomIsSum ==
  ASSUME NEW instrs, Len(instrs) \in Nat
  PROVE  \E g : Rooms(g, instrs) /\ RoomOf(instrs) = g[Len(instrs)]
<1> DEFINE n == Len(instrs)
           P(g) == g = [k \in 0 .. n |-> IF k = 0 THEN 0 ELSE g[k - 1] + Size(Len(instrs[k].vals))]
           g == CHOOSE q : P(q)
           w == [k \in 1 .. n |-> Size(Len(instrs[k].vals))]
<1>1. RoomOf(instrs) = g[n]
  BY DEF RoomOf, Size
<1>2. \E q : P(q)
  <2>1. PICK q : Sums(q, w, 1 .. n, n)
    BY SumsExist
  <2>2. \A k \in 0 .. n : k = 0 \/ (k \in 1 .. n /\ w[k] = Size(Len(instrs[k].vals)))
    OBVIOUS
  <2> HIDE DEF n
  <2> HIDE DEF w
  <2>3. P(q)
    BY <2>1, <2>2 DEF Sums
  <2> QED BY <2>3
<1>3. P(g)
  BY <1>2
<1> HIDE DEF g, n
<1>4. g[0] = 0 /\ \A k \in 1 .. n : g[k] = g[k - 1] + Size(Len(instrs[k].vals))
  <2>1. n \in Nat /\ 0 \in 0 .. n
    BY DEF n
  <2>2. \A k \in 1 .. n : k \in 0 .. n /\ k # 0
    OBVIOUS
  <2> QED BY <1>3, <2>1, <2>2
<1>5. Rooms(g, instrs)
  BY <1>4 DEF Rooms, n
<1> QED BY <1>1, <1>5 DEF n

\* The opcodes among the first n tokens all have a case.
ListedTo(toks, n) ==
    \A p \in 1 .. n : toks[p].type = "OPCODE_TOK" => toks[p].v \in DOMAIN OperandCount

\* What the first pass knows behind token n: the operands of the opcodes could be
\* counted, and count and size are what the opcodes come to.
CountedTo(toks, count, size, n) ==
    /\ \A p \in 1 .. n :
          toks[p].type = "OPCODE_TOK" /\ ListedTo(toks, p) =>
              CountOperands(toks, p, OperandCount[toks[p].v]).stop = "no"
    /\ ListedTo(toks, n) => \A f, h : Tallies(f, h, toks) => count = f[n] /\ size = h[n]

LEMMA CountedOn ==
  ASSUME NEW toks, Len(toks) \in Nat, NEW n \in 1 .. Len(toks), NEW t \in n + 1 .. Len(toks) + 1,
         \A m \in n + 1 .. t - 1 : toks[m].type # "OPCODE_TOK",
         NEW count, NEW size, NEW count2, NEW size2, CountedTo(toks, count, size, n - 1),
         \/ toks[n].type # "OPCODE_TOK" /\ count2 = count /\ size2 = size
         \/ /\ toks[n].type = "OPCODE_TOK" /\ toks[n].v \in DOMAIN OperandCount
            /\ CountOperands(toks, n, OperandCount[toks[n].v]).stop = "no"
            /\ count2 = count + 1 /\ size2 = size + Size(OperandCount[toks[n].v])
         \/ toks[n].type = "OPCODE_TOK" /\ toks[n].v \notin DOMAIN OperandCount
  PROVE  CountedTo(toks, count2, size2, t - 1)
<1>1. n \in Nat /\ t \in Nat /\ t - 1 \in n .. Len(toks) /\ n - 1 \in 0 .. Len(toks) /\ n \in 0 .. Len(toks)
      /\ n \in 1 .. t - 1 /\ n \in 1 .. n
  OBVIOUS
<1>2. \A m \in 1 .. t - 1 : m \in 1 .. n - 1 \/ m = n \/ m \in n + 1 .. t - 1
  BY <1>1
<1>3. ASSUME NEW p \in 1 .. t - 1, toks[p].type = "OPCODE_TOK", ListedTo(toks, p)
      PROVE  CountOperands(toks, p, OperandCount[toks[p].v]).stop = "no"
  <2>1. CASE p \in 1 .. n - 1
    BY <1>3, <2>1 DEF CountedTo
  <2>2. CASE p = n
    <3>1. toks[n].v \in DOMAIN OperandCount
      BY <1>1, <1>3, <2>2 DEF ListedTo
    <3> QED BY <1>3, <2>2, <3>1
  <2> QED BY <1>2, <1>3, <2>1, <2>2
<1>4. ASSUME ListedTo(toks, t - 1), NEW f, NEW h, Tallies(f, h, toks)
      PROVE  count2 = f[t - 1] /\ size2 = h[t - 1]
  <2>1. ListedTo(toks, n - 1)
    <3>1. \A m \in 1 .. n - 1 : m \in 1 .. t - 1
      BY <1>1
    <3> QED BY <1>4, <3>1 DEF ListedTo
  <2>2. count = f[n - 1] /\ size = h[n - 1]
    BY <1>4, <2>1 DEF CountedTo
  <2>3. f[t - 1] = f[n] /\ h[t - 1] = h[n]
    BY <1>1, <1>4, TallyFlat
  <2>4. toks[n].type = "OPCODE_TOK" => toks[n].v \in DOMAIN OperandCount
    BY <1>1, <1>4 DEF ListedTo
  <2>5. IF toks[n].type = "OPCODE_TOK"
        THEN f[n] = f[n - 1] + 1 /\ h[n] = h[n - 1] + Size(OperandCount[toks[n].v])
        ELSE f[n] = f[n - 1] /\ h[n] = h[n - 1]
    BY <1>4 DEF Tallies
  <2> QED BY <2>2, <2>3, <2>4, <2>5
<1> QED BY <1>3, <1>4 DEF CountedTo

\* What the second pass knows at token t: the instructions are the opcodes before
\* it, or it has met one without a case, which it never gets behind.
BuiltTo(toks, instrs, t) ==
    /\ ListedTo(toks, t - 1)
    /\ \/ t <= Len(toks) /\ toks[t].type = "OPCODE_TOK" /\ toks[t].v \notin DOMAIN OperandCount
       \/ \A f, h, g : Tallies(f, h, toks) /\ Rooms(g, instrs) =>
             Len(instrs) = f[t - 1] /\ g[Len(instrs)] = h[t - 1]

LEMMA BuiltOn ==
  ASSUME NEW toks, Len(toks) \in Nat, NEW t \in 1 .. Len(toks), NEW u \in t + 1 .. Len(toks) + 1,
         \A m \in t + 1 .. u - 1 : toks[m].type # "OPCODE_TOK",
         NEW instrs, IsSequence(instrs), NEW instrs2, BuiltTo(toks, instrs, t),
         \/ toks[t].type # "OPCODE_TOK" /\ instrs2 = instrs
         \/ /\ toks[t].type = "OPCODE_TOK" /\ toks[t].v \in DOMAIN OperandCount
            /\ \E instr : instrs2 = Append(instrs, instr) /\ Len(instr.vals) = OperandCount[toks[t].v]
  PROVE  BuiltTo(toks, instrs2, u)
<1>1. t \in Nat /\ u \in Nat /\ u - 1 \in t .. Len(toks) /\ t - 1 \in 0 .. Len(toks) /\ t \in 0 .. Len(toks)
      /\ Len(instrs) \in Nat
  BY DEF IsSequence
<1>2. ASSUME NEW m \in 1 .. u - 1, toks[m].type = "OPCODE_TOK" PROVE toks[m].v \in DOMAIN OperandCount
  <2>1. m \in 1 .. t - 1 \/ m = t \/ m \in t + 1 .. u - 1
    BY <1>1
  <2> QED BY <1>2, <2>1 DEF BuiltTo, ListedTo
<1>3. ASSUME NEW f, NEW h, NEW g, Tallies(f, h, toks), Rooms(g, instrs2)
      PROVE  Len(instrs2) = f[u - 1] /\ g[Len(instrs2)] = h[u - 1]
  <2>1. f[u - 1] = f[t] /\ h[u - 1] = h[t]
    BY <1>1, <1>3, TallyFlat
  <2>2. IF toks[t].type = "OPCODE_TOK"
        THEN f[t] = f[t - 1] + 1 /\ h[t] = h[t - 1] + Size(OperandCount[toks[t].v])
        ELSE f[t] = f[t - 1] /\ h[t] = h[t - 1]
    BY <1>3 DEF Tallies
  <2>3. CASE toks[t].type # "OPCODE_TOK" /\ instrs2 = instrs
    BY <1>3, <2>1, <2>2, <2>3 DEF BuiltTo
  <2>4. CASE /\ toks[t].type = "OPCODE_TOK" /\ toks[t].v \in DOMAIN OperandCount
             /\ \E instr : instrs2 = Append(instrs, instr) /\ Len(instr.vals) = OperandCount[toks[t].v]
    <3>1. PICK instr : instrs2 = Append(instrs, instr) /\ Len(instr.vals) = OperandCount[toks[t].v]
      BY <2>4
    <3>2. /\ Len(instrs2) = Len(instrs) + 1 /\ instrs2[Len(instrs) + 1] = instr
          /\ \A i \in 1 .. Len(instrs) : instrs2[i] = instrs[i]
      BY <3>1, AppendKeeps
    <3>3. \A i \in 1 .. Len(instrs2) : g[i] = g[i - 1] + Size(Len(instrs2[i].vals))
      BY <1>3 DEF Rooms
    <3>4. Rooms(g, instrs)
      <4>1. \A i \in 1 .. Len(instrs) : i \in 1 .. Len(instrs2)
        BY <1>1, <3>2
      <4> QED BY <1>3, <3>2, <3>3, <4>1 DEF Rooms
    <3>5. Len(instrs) = f[t - 1] /\ g[Len(instrs)] = h[t - 1]
      BY <1>3, <2>4, <3>4 DEF BuiltTo
    <3>6. g[Len(instrs) + 1] = g[Len(instrs)] + Size(Len(instr.vals))
      <4>1. Len(instrs) + 1 \in 1 .. Len(instrs2) /\ (Len(instrs) + 1) - 1 = Len(instrs)
        BY <1>1, <3>2
      <4> QED BY <3>2, <3>3, <4>1
    <3> QED BY <2>1, <2>2, <2>4, <3>1, <3>2, <3>5, <3>6
  <2> QED BY <2>3, <2>4
<1> QED BY <1>2, <1>3 DEF BuiltTo, ListedTo

\* The main module's file stays the same.
LEMMA MainStays ==
  ASSUME AsmsInv, FirstPass
  PROVE  main'.path = main.path /\ main'.toks = main.toks
<1>1. IsSequence(asms) /\ Len(asms) \in Nat /\ Len(asms) >= 1
  BY DEF AsmsInv, IsSequence
<1>2. Len(asms) = 1 \/ 1 \in 1 .. Len(asms) - 1
  BY <1>1
<1>3. IsAsm(main) /\ IsAsm(asm) /\ (Len(asms) = 1 => asm = main)
  BY AsmIsOne DEF asm, main, Last
<1>4. CASE Stops
  BY <1>4 DEF Stops, Ends, main
<1>5. CASE Reads
  <2>1. PICK a : Becomes(a) /\ ReadOn(asm, a)
    BY <1>5 DEF Reads
  <2>2. asms' = Append(Front(asms), a) /\ a.path = asm.path /\ IsAsm(a)
    BY <2>1 DEF Becomes, ReadOn
  <2>3. (\A i \in 1 .. Len(asms) - 1 : asms'[i] = asms[i]) /\ asms'[Len(asms)] = a
    BY <1>1, <2>2, ReplaceLast
  <2> QED BY <1>2, <1>3, <2>2, <2>3 DEF main, IsAsm
<1>6. CASE Opens
  <2>0. PICK a : \E path \in Readable :
           Opened(asm, a) /\ asms' = Append(Front(asms), a) \o <<NewAssembler(path, FALSE)>>
    BY <1>6 DEF Opens
  <2>1. PICK path \in Readable :
           Opened(asm, a) /\ asms' = Append(Front(asms), a) \o <<NewAssembler(path, FALSE)>>
    BY <2>0
  <2>2. /\ \A i \in 1 .. Len(asms) - 1 : asms'[i] = asms[i]
        /\ asms'[Len(asms)] = a
    BY <1>6, <2>1, OpensKeeps DEF Opens
  <2> QED BY <1>2, <1>3, <2>1, <2>2 DEF main, Opened, IsAsm
<1>7. CASE ImportReturns
  <2>1. Returns(Len(asms)) /\ AsmsInv'
    BY <1>7, ReturnsKeep
  <2> DEFINE n == Len(asms)
  <2>2. n > 1 /\ (\A i \in 1 .. n - 2 : asms'[i] = asms[i]) /\ Returned(asms[n - 1], asm, asms'[n - 1])
    BY <2>1 DEF Returns
  <2>3. n - 1 = 1 \/ 1 \in 1 .. n - 2
    <3>1. n \in Nat /\ n > 1
      BY <1>1, <2>2
    <3> HIDE DEF n
    <3> QED BY <3>1
  <2>4. CASE n - 1 = 1
    <3>1. Returned(main, asm, asms'[1])
      BY <2>2, <2>4 DEF main
    <3> QED BY <1>3, <3>1 DEF Returned, IsAsm, main
  <2>5. CASE 1 \in 1 .. n - 2
    BY <2>2, <2>5 DEF main
  <2> QED BY <2>3, <2>4, <2>5
<1> QED BY <1>4, <1>5, <1>6, <1>7, FirstPassSteps

\* A round of the first pass, in a program of one file.
LEMMA FirstPassCounts ==
  ASSUME AsmsInv, FirstPass, OfOneFile(main.toks), Len(asms) = 1,
         CountedTo(main.toks, main.instr_count, main.prog_size, main.toknum - 1)
  PROVE  \/ Stops
         \/ /\ Len(asms') = 1 /\ main'.toks = main.toks
            /\ CountedTo(main.toks, main'.instr_count, main'.prog_size, main'.toknum - 1)
<1> DEFINE n == asm.toknum
           toks == asm.toks
<1>1. asm = main /\ IsSequence(asms) /\ IsAsm(asm)
  BY AsmIsOne DEF asm, main, Last, AsmsInv
<1>2. SUFFICES ASSUME ~Stops
               PROVE  \E b : /\ Becomes(b) /\ b.toks = toks
                             /\ CountedTo(toks, b.instr_count, b.prog_size, b.toknum - 1)
  <2>1. ASSUME NEW b, Becomes(b) PROVE Len(asms') = 1 /\ main' = b
    <3>1. asms' = Append(Front(asms), b)
      BY <2>1 DEF Becomes
    <3>2. Len(asms) >= 1
      OBVIOUS
    <3>3. Len(Append(Front(asms), b)) = Len(asms) /\ Append(Front(asms), b)[Len(asms)] = b
      BY <1>1, <3>2, ReplaceLast
    <3> QED BY <3>1, <3>3 DEF main
  <2> QED BY <1>1, <2>1
<1>3. \A how \in Errors : ~Ends(how)
  BY <1>2 DEF Stops
<1>4. ~Ends("exit") /\ ~Ends("exception") /\ ~Ends("spinning")
  BY <1>3 DEF Errors
<1>5. CountedTo(toks, asm.instr_count, asm.prog_size, n - 1)
  BY <1>1
<1>6. n <= Len(toks) => /\ IsAsm(asm) /\ DOMAIN asm = AsmFields /\ IsSequence(toks) /\ Len(toks) \in Nat
                        /\ n \in Nat /\ n \in 1 .. Len(toks) /\ asm.instr_count \in Nat /\ asm.prog_size \in Nat
                        /\ asm.next_byte_addr \in Nat /\ asm.prog_size % UINT_SIZE = 0
  BY AtToken
<1>7. n <= Len(toks) => toks[n].type # "IMPORT_DEF_TOK"
  <2>1. toks = Source(asm.path) /\ asm.path \in Readable
    BY <1>1 DEF IsAsm
  <2>2. DOMAIN toks = 1 .. Len(toks)
    BY <2>1, SourceIsSequence
  <2> QED BY <1>1, <1>6, <2>2 DEF OfOneFile
<1> HIDE DEF n, toks
<1>8. CASE OpcodeTok
  <2> DEFINE count == OperandCount[toks[n].v]
             s == CountOperands(toks, n, count)
             size == OPCODE_SIZE + UINT_SIZE * count
             b == [asm EXCEPT !.toknum = s.n, !.instr_count = @ + 1, !.prog_size = @ + size,
                              !.next_byte_addr = @ + size]
  <2>1. /\ n <= Len(toks) /\ toks[n].type = "OPCODE_TOK" /\ toks[n].v \in DOMAIN OperandCount
        /\ IF s.stop # "no" THEN Ends(s.stop) ELSE Becomes(b)
    BY <1>8 DEF OpcodeTok, InFirstPass, tok, toks, n
  <2>2. count \in Nat
    BY <2>1, Counts
  <2>3. size = Size(OperandCount[toks[n].v]) /\ s = CountOperands(toks, n, OperandCount[toks[n].v])
    BY DEF Size
  <2> HIDE DEF count, size
  <2>4. /\ s.stop \in {"no", "exit", "exception"} /\ s.n \in n + 1 .. Len(toks) + 1
        /\ \A m \in n + 1 .. s.n - 1 : toks[m].type \notin Starts
    BY <1>6, <2>1, <2>2, OperandsCounted
  <2> HIDE DEF s
  <2>5. s.stop = "no" /\ Becomes(b)
    BY <1>4, <2>1, <2>4
  <2>6. /\ b.toks = toks /\ b.toknum = s.n
        /\ b.prog_size = asm.prog_size + size /\ b.instr_count = asm.instr_count + 1
    BY <1>6, <2>1, ChangesOfAsm DEF toks
  <2> HIDE DEF b
  <2>7. CountedTo(toks, b.instr_count, b.prog_size, s.n - 1)
    <3>1. \A m \in n + 1 .. s.n - 1 : toks[m].type # "OPCODE_TOK"
      BY <2>4 DEF Starts
    <3>2. CountOperands(toks, n, OperandCount[toks[n].v]).stop = "no"
      BY <2>3, <2>5
    <3> QED BY <1>5, <1>6, <2>1, <2>3, <2>4, <2>6, <3>1, <3>2, CountedOn
  <2> QED BY <2>5, <2>6, <2>7
<1>9. ASSUME NEW b, Becomes(b), b.toks = toks, n <= Len(toks), toks[n].type # "OPCODE_TOK",
             b.toknum \in n + 1 .. Len(toks) + 1,
             \A m \in n + 1 .. b.toknum - 1 : toks[m].type # "OPCODE_TOK",
             b.instr_count = asm.instr_count, b.prog_size = asm.prog_size
      PROVE  CountedTo(toks, b.instr_count, b.prog_size, b.toknum - 1)
  <2> DEFINE t == b.toknum
             x == b.instr_count
             y == b.prog_size
  <2>1. /\ Len(toks) \in Nat /\ n \in 1 .. Len(toks) /\ t \in n + 1 .. Len(toks) + 1
        /\ \A m \in n + 1 .. t - 1 : toks[m].type # "OPCODE_TOK"
        /\ x = asm.instr_count /\ y = asm.prog_size
    BY <1>6, <1>9
  <2> HIDE DEF t, x, y
  <2>2. CountedTo(toks, x, y, t - 1)
    BY <1>5, <1>9, <2>1, CountedOn
  <2> QED BY <2>2 DEF t, x, y
<1>10. CASE MacroDefTok
  <2>1. n <= Len(toks) /\ toks[n].type = "MACRO_DEF_TOK" /\ DefineMacro(asm, n)
    BY <1>10 DEF MacroDefTok, InFirstPass, n, toks
  <2>2. PICK st : /\ n + 3 \in 1 .. Len(toks) + 1
                  /\ toks[n + 1].type = "ID_TOK" /\ toks[n + 2].type \in DOMAIN NumberTypes
                  /\ Becomes([asm EXCEPT !.toknum = n + 3, !.symtab = st])
    BY <1>1, <1>2, <1>6, <2>1, MacroDefined DEF toks
  <2> DEFINE b == [asm EXCEPT !.toknum = n + 3, !.symtab = st]
  <2>3. b.toks = toks /\ b.toknum = n + 3 /\ b.prog_size = asm.prog_size /\ b.instr_count = asm.instr_count
    BY <1>6, <2>1, ChangesOfAsm DEF toks
  <2>4. Becomes(b)
    BY <2>2
  <2> HIDE DEF b
  <2>5. b.toknum \in n + 1 .. Len(toks) + 1
    BY <1>6, <2>1, <2>2, <2>3
  <2>6. ASSUME NEW m \in n + 1 .. b.toknum - 1 PROVE toks[m].type # "OPCODE_TOK"
    <3>1. m = n + 1 \/ m = n + 2
      BY <1>6, <2>1, <2>3
    <3> QED BY <2>2, <3>1 DEF NumberTypes
  <2>7. CountedTo(toks, b.instr_count, b.prog_size, b.toknum - 1)
    BY <1>9, <2>1, <2>3, <2>4, <2>5, <2>6
  <2> QED BY <2>3, <2>4, <2>7
<1>11. CASE UnlistedOpcodeTok
  <2> DEFINE a == [asm EXCEPT !.instr_count = @ + 1, !.prog_size = @ + OPCODE_SIZE,
                              !.next_byte_addr = @ + OPCODE_SIZE]
             k == n + 1
  <2>1. /\ n <= Len(toks) /\ toks[n].type = "OPCODE_TOK" /\ toks[n].v \notin DOMAIN OperandCount
        /\ DefineMacro(a, k)
    BY <1>11 DEF UnlistedOpcodeTok, InFirstPass, tok, n, toks
  <2>2. /\ DOMAIN a = AsmFields /\ a.path = asm.path /\ a.toks = asm.toks /\ a.toknum = asm.toknum
        /\ a.prog_size = asm.prog_size + OPCODE_SIZE
        /\ a.next_byte_addr = asm.next_byte_addr + OPCODE_SIZE
        /\ a.instr_count = asm.instr_count + 1 /\ a.symtab = asm.symtab /\ a.imports = asm.imports
    BY <1>6, <2>1, ChangesOfAsm
  <2> HIDE DEF a
  <2>3. IsAsm(a) /\ k \in Nat
    <3>1. /\ IsAsm(asm) /\ n \in Nat /\ asm.instr_count \in Nat /\ asm.prog_size \in Nat
          /\ asm.next_byte_addr \in Nat /\ asm.prog_size % UINT_SIZE = 0
      BY <1>6, <2>1
    <3>2. /\ a.prog_size \in Nat /\ a.next_byte_addr \in Nat /\ a.instr_count \in Nat
          /\ a.prog_size % UINT_SIZE = 0
      BY <2>2, <3>1, Fours DEF OPCODE_SIZE, UINT_SIZE
    <3>3. IsAsm(a)
      BY <2>2, <3>1, <3>2 DEF IsAsm
    <3> QED BY <3>1, <3>3
  <2> HIDE DEF k
  <2>4. PICK st : /\ k + 3 \in 1 .. Len(toks) + 1
                  /\ toks[k + 1].type = "ID_TOK" /\ toks[k + 2].type \in DOMAIN NumberTypes
                  /\ Becomes([a EXCEPT !.toknum = k + 3, !.symtab = st])
    BY <1>2, <2>1, <2>2, <2>3, MacroDefined DEF toks
  <2> DEFINE b == [a EXCEPT !.toknum = k + 3, !.symtab = st]
             t == k + 3
  <2>5. b.toks = toks /\ b.toknum = t
    BY <2>2, ChangesOfAsm DEF toks
  <2>6. Becomes(b)
    BY <2>4
  <2> HIDE DEF b
  <2>7. n \in 1 .. t - 1
    BY <1>6, <2>1 DEF k
  <2> HIDE DEF t
  <2>8. ~ListedTo(toks, t - 1)
    BY <2>1, <2>7 DEF ListedTo
  <2>9. ASSUME NEW p \in 1 .. t - 1, toks[p].type = "OPCODE_TOK", ListedTo(toks, p)
        PROVE  CountOperands(toks, p, OperandCount[toks[p].v]).stop = "no"
    <3>1. t \in Nat /\ n \in Nat
      BY <1>6, <2>1, <2>3 DEF t
    <3>2. ~(n \in 1 .. p)
      BY <2>1, <2>9 DEF ListedTo
    <3>3. p \in 1 .. n - 1
      BY <1>6, <2>1, <3>1, <3>2
    <3> QED BY <1>5, <2>9, <3>3 DEF CountedTo
  <2>10. CountedTo(toks, b.instr_count, b.prog_size, b.toknum - 1)
    BY <2>5, <2>8, <2>9 DEF CountedTo
  <2> QED BY <2>5, <2>6, <2>10
<1>12. CASE LabelDefTok \/ SkippedTok
  <2>1. PICK st : /\ n <= Len(toks) /\ toks[n].type # "OPCODE_TOK"
                  /\ \/ Becomes([asm EXCEPT !.toknum = n + 1, !.symtab = st])
                     \/ Becomes([asm EXCEPT !.toknum = n + 1])
    <3>1. CASE LabelDefTok
      <4> DEFINE sym == Symbol("LABEL_SYMBOL", SymbolId(tok.v), "UINT_TYPE", asm.next_byte_addr)
                 st == create_new_symbol(asm.symtab, sym)
      <4>1. /\ n <= Len(toks) /\ toks[n].type = "LABEL_DEF_TOK"
            /\ Becomes([asm EXCEPT !.toknum = @ + 1, !.symtab = create_new_symbol(@, sym)])
        BY <1>4, <3>1 DEF LabelDefTok, InFirstPass, n, toks
      <4> HIDE DEF sym
      <4>2. [asm EXCEPT !.toknum = @ + 1, !.symtab = create_new_symbol(@, sym)]
              = [asm EXCEPT !.toknum = n + 1, !.symtab = st]
        BY Zenon DEF n
      <4> QED BY <4>1, <4>2
    <3>2. CASE SkippedTok
      <4>1. /\ n <= Len(toks) /\ toks[n].type \in {"COMMENT_TOK", "BRKPNT_TOK"}
            /\ Becomes([asm EXCEPT !.toknum = @ + 1])
        BY <3>2 DEF SkippedTok, InFirstPass, n, toks
      <4>2. [asm EXCEPT !.toknum = @ + 1] = [asm EXCEPT !.toknum = n + 1]
        BY Zenon DEF n
      <4> QED BY <4>1, <4>2
    <3> QED BY <1>12, <3>1, <3>2
  <2>2. PICK b : /\ Becomes(b) /\ b.toks = toks /\ b.toknum = n + 1
                 /\ b.prog_size = asm.prog_size /\ b.instr_count = asm.instr_count
    <3> DEFINE b1 == [asm EXCEPT !.toknum = n + 1, !.symtab = st]
               b2 == [asm EXCEPT !.toknum = n + 1]
    <3>1. /\ b1.toks = toks /\ b1.toknum = n + 1
          /\ b1.prog_size = asm.prog_size /\ b1.instr_count = asm.instr_count
          /\ b2.toks = toks /\ b2.toknum = n + 1
          /\ b2.prog_size = asm.prog_size /\ b2.instr_count = asm.instr_count
      BY <1>6, <2>1, ChangesOfAsm DEF toks
    <3>2. Becomes(b1) \/ Becomes(b2)
      BY <2>1
    <3> HIDE DEF b1, b2
    <3> QED BY <3>1, <3>2
  <2>3. b.toknum \in n + 1 .. Len(toks) + 1 /\ \A m \in n + 1 .. b.toknum - 1 : FALSE
    BY <1>6, <2>1, <2>2
  <2>4. CountedTo(toks, b.instr_count, b.prog_size, b.toknum - 1)
    BY <1>9, <2>1, <2>2, <2>3
  <2> QED BY <2>2, <2>4
<1>13. ~ValueTok /\ ~StrayTok
  BY <1>4 DEF ValueTok, StrayTok
<1>14. ~ImportDefTok
  BY <1>7 DEF ImportDefTok, InFirstPass, n, toks
<1>15. ~ImportReturns
  BY DEF ImportReturns
<1> QED BY <1>8, <1>10, <1>11, <1>12, <1>13, <1>14, <1>15 DEF FirstPass

\* The steps before the instructions are built, and those after it.
EarlySteps == {"first_stage_pass", "alloc_bytestream", "build_imform_metadata", "finalise"}
LateSteps == {"merge_import_list", "write_prog_to_bytes", "done"}

\* What holds of a program of one file: the first pass has counted the opcodes up
\* to the token it is at, and what it counted stays while the second pass, which
\* starts with no instructions, builds one for each of these opcodes.
PassInv ==
    OfOneFile(main.toks) =>
        /\ at = "first_stage_pass" =>
              /\ Len(asms) = 1
              /\ CountedTo(main.toks, main.instr_count, main.prog_size, main.toknum - 1)
        /\ Assembling => CountedTo(main.toks, main.instr_count, main.prog_size, Len(main.toks))
        /\ IsSequence(instr_vec)
        /\ at \in EarlySteps => instr_vec = <<>>
        /\ at = "build_im_form" => BuiltTo(main.toks, instr_vec, main.toknum)
        /\ at \in LateSteps => BuiltTo(main.toks, instr_vec, Len(main.toks) + 1)

\* An instruction is built from each opcode, and no opcode is passed over.
LEMMA InstrBuilt ==
  ASSUME AsmsInv, BuildInstr, ~Stops, ListedTo(main.toks, main.toknum - 1),
         CountedTo(main.toks, main.instr_count, main.prog_size, Len(main.toks))
  PROVE  LET toks == main.toks
             n == main.toknum
             s == ResolveOperands(n, OperandCount[toks[n].v])
         IN  /\ at = "build_im_form" /\ at' = at
             /\ n \in 1 .. Len(toks) /\ toks[n].type = "OPCODE_TOK" /\ toks[n].v \in DOMAIN OperandCount
             /\ s.stop = "no" /\ IsSequence(s.vals) /\ Len(s.vals) = OperandCount[toks[n].v]
             /\ instr_vec' = Append(instr_vec, [opcode |-> toks[n].v, vals |-> s.vals])
             /\ main'.toknum \in n + 1 .. Len(toks) + 1
             /\ \A m \in n + 1 .. main'.toknum - 1 : toks[m].type # "OPCODE_TOK"
<1> DEFINE toks == main.toks
           n == main.toknum
           count == OperandCount[toks[n].v]
           s == ResolveOperands(n, count)
           t == IF count = 0 THEN s.n + 1 ELSE s.n
           b == [main EXCEPT !.toknum = t]
           instr == [opcode |-> toks[n].v, vals |-> s.vals]
<1>1. at = "build_im_form" /\ n <= Len(toks) /\ Assembling
  BY DEF BuildInstr, Building, Assembling, Errors
<1>2. /\ asm = main /\ Len(toks) \in Nat /\ n \in Nat /\ n \in 1 .. Len(toks) /\ DOMAIN main = AsmFields
  BY <1>1, TheMain
<1>3. tok = toks[n]
  BY <1>2 DEF tok
<1>4. /\ toks[n].type = "OPCODE_TOK" /\ toks[n].v \in DOMAIN OperandCount
      /\ IF s.stop # "no" THEN Ends(s.stop)
         ELSE /\ instr_vec' = Append(instr_vec, instr)
              /\ asms' = <<b>> /\ at' = at
  BY <1>3 DEF BuildInstr, Building
<1>5. count \in 0 .. 3 /\ count \in Nat /\ count = OperandCount[toks[n].v]
  BY <1>4, Counts
<1>6. CountOperands(toks, n, count).stop = "no"
  <2>1. ListedTo(toks, n)
    <3>1. \A m \in 1 .. n : m \in 1 .. n - 1 \/ m = n
      BY <1>2
    <3> QED BY <1>4, <3>1 DEF ListedTo
  <2> QED BY <1>2, <1>4, <2>1 DEF CountedTo
<1> HIDE DEF count
<1>7. /\ s.stop \in {"no", "exception"} \cup Refusals
      /\ s.stop = "no" => /\ s.n \in n .. Len(toks) + 1
                          /\ count = 0 => s.n = n
                          /\ count # 0 => s.n # n
  BY <1>2, <1>5, OperandsEnd
<1>8. s.stop = "no"
  BY <1>4, <1>7 DEF Stops, Errors, Refusals
<1>9. /\ IsSequence(s.vals) /\ Len(s.vals) = count
      /\ \A m \in n + 1 .. s.n - 1 : toks[m].type \notin Starts
  BY <1>2, <1>5, <1>6, <1>8, OperandsBuilt
<1> HIDE DEF s
<1>10. t \in n + 1 .. Len(toks) + 1 /\ \A m \in n + 1 .. t - 1 : m \in n + 1 .. s.n - 1
  BY <1>2, <1>7, <1>8
<1> HIDE DEF t
<1>11. main'.toknum = t
  BY <1>2, <1>4, <1>8 DEF main, AsmFields
<1>12. \A m \in n + 1 .. t - 1 : toks[m].type # "OPCODE_TOK"
  BY <1>9, <1>10 DEF Starts
<1>13. instr_vec' = Append(instr_vec, instr) /\ at' = at
  BY <1>4, <1>8
<1> QED BY <1>1, <1>2, <1>4, <1>8, <1>9, <1>10, <1>11, <1>12, <1>13 DEF s, count

LEMMA BuildInstrBuilds ==
  ASSUME AsmsInv, BuildInstr, ~Stops, IsSequence(instr_vec), BuiltTo(main.toks, instr_vec, main.toknum),
         CountedTo(main.toks, main.instr_count, main.prog_size, Len(main.toks))
  PROVE  /\ at' = "build_im_form" /\ IsSequence(instr_vec')
         /\ BuiltTo(main.toks, instr_vec', main'.toknum)
<1> DEFINE toks == main.toks
           n == main.toknum
           count == OperandCount[toks[n].v]
           s == ResolveOperands(n, count)
           t == main'.toknum
           instr == [opcode |-> toks[n].v, vals |-> s.vals]
<1>1. ListedTo(toks, n - 1)
  BY DEF BuiltTo
<1>2. /\ at = "build_im_form" /\ at' = at
      /\ n \in 1 .. Len(toks) /\ toks[n].type = "OPCODE_TOK" /\ toks[n].v \in DOMAIN OperandCount
      /\ s.stop = "no" /\ Len(s.vals) = count
      /\ instr_vec' = Append(instr_vec, instr)
      /\ t \in n + 1 .. Len(toks) + 1
      /\ \A m \in n + 1 .. t - 1 : toks[m].type # "OPCODE_TOK"
  BY <1>1, InstrBuilt
<1>3. Len(toks) \in Nat
  BY <1>2, TheMain DEF Assembling, Errors
<1>4. Len(instr.vals) = count
  BY <1>2
<1> HIDE DEF s, instr
<1>5. \E i : Append(instr_vec, instr) = Append(instr_vec, i) /\ Len(i.vals) = OperandCount[toks[n].v]
  BY <1>4
<1> HIDE DEF toks, n, t, count
<1>6. BuiltTo(toks, Append(instr_vec, instr), t)
  BY <1>2, <1>3, <1>5, BuiltOn DEF toks, n
<1>7. IsSequence(Append(instr_vec, instr))
  BY AppendKeeps
<1> QED BY <1>2, <1>6, <1>7 DEF toks, t

LEMMA SkipBuilds ==
  ASSUME AsmsInv, SkipOther, OfOneFile(main.toks), IsSequence(instr_vec),
         BuiltTo(main.toks, instr_vec, main.toknum)
  PROVE  /\ at' = "build_im_form" /\ instr_vec' = instr_vec
         /\ BuiltTo(main.toks, instr_vec, main'.toknum)
<1> DEFINE toks == main.toks
           n == main.toknum
           b == [main EXCEPT !.toknum = n + 1]
<1>1. at = "build_im_form" /\ n <= Len(toks) /\ Assembling /\ at' = at /\ instr_vec' = instr_vec
  BY DEF SkipOther, Assembling, Errors, output
<1>2. /\ asm = main /\ Len(toks) \in Nat /\ n \in Nat /\ n \in 1 .. Len(toks) /\ DOMAIN main = AsmFields
      /\ toks = Source(main.path) /\ main.path \in Readable
  BY <1>1, TheMain
<1>3. tok = toks[n]
  BY <1>2 DEF tok
<1>4. toks[n].type # "IMPORT_DEF_TOK"
  <2>1. DOMAIN toks = 1 .. Len(toks)
    BY <1>2, SourceIsSequence
  <2> QED BY <1>2, <2>1 DEF OfOneFile
<1>5. toks[n].type # "OPCODE_TOK" /\ asms' = <<b>>
  BY <1>3, <1>4 DEF SkipOther
<1>6. main' = b /\ b.toknum = n + 1
  BY <1>2, <1>5 DEF main, AsmFields
<1> HIDE DEF b
<1>7. n + 1 \in n + 1 .. Len(toks) + 1 /\ \A m \in n + 1 .. (n + 1) - 1 : FALSE
  BY <1>2
<1> DEFINE t == n + 1
<1>8. /\ t \in n + 1 .. Len(toks) + 1 /\ \A m \in n + 1 .. t - 1 : toks[m].type # "OPCODE_TOK"
  BY <1>7
<1> HIDE DEF toks, n, t
<1>9. BuiltTo(toks, instr_vec, t)
  BY <1>2, <1>5, <1>8, BuiltOn DEF toks, n
<1> QED BY <1>1, <1>6, <1>9 DEF toks, n, t

LEMMA PassInvInit ==
  ASSUME Init
  PROVE  PassInv
<1>1. AsmsInv
  BY AsmInvInit DEF AsmInv
<1>2. PICK path, keep : asms = <<NewAssembler(path, keep)>>
  BY DEF Init
<1>3. at = "first_stage_pass" /\ instr_vec = <<>>
  BY DEF Init
<1>4. main = NewAssembler(path, keep) /\ Len(asms) = 1
  BY <1>2 DEF main
<1>5. main.instr_count = 0 /\ main.prog_size = 0 /\ main.toknum = 1
  BY <1>4 DEF NewAssembler
<1>6. CountedTo(main.toks, 0, 0, 0)
  BY DEF CountedTo, Tallies
<1>7. CountedTo(main.toks, main.instr_count, main.prog_size, main.toknum - 1)
  BY <1>5, <1>6
<1> QED BY <1>3, <1>4, <1>7, SmallSequences DEF PassInv, Assembling, EarlySteps, LateSteps

LEMMA PassInvNext ==
  ASSUME AsmInv, PassInv, [Next]_vars
  PROVE  PassInv'
<1>1. AsmsInv
  BY DEF AsmInv
<1>2. SUFFICES ASSUME OfOneFile(main'.toks)
               PROVE  /\ at' = "first_stage_pass" =>
                            /\ Len(asms') = 1
                            /\ CountedTo(main'.toks, main'.instr_count, main'.prog_size, main'.toknum - 1)
                      /\ Assembling' => CountedTo(main'.toks, main'.instr_count, main'.prog_size, Len(main'.toks))
                      /\ IsSequence(instr_vec')
                      /\ at' \in EarlySteps => instr_vec' = <<>>
                      /\ at' = "build_im_form" => BuiltTo(main'.toks, instr_vec', main'.toknum)
                      /\ at' \in LateSteps => BuiltTo(main'.toks, instr_vec', Len(main'.toks) + 1)
  BY DEF PassInv
<1>3. CASE UNCHANGED vars
  BY <1>2, <1>3 DEF vars, PassInv, main, Assembling
<1>4. CASE FirstPass
  <2>1. main'.toks = main.toks
    BY <1>1, <1>4, MainStays
  <2>2. /\ at = "first_stage_pass" /\ at' \in {"first_stage_pass"} \cup Errors /\ instr_vec' = instr_vec
    BY <1>1, <1>4, FirstPassStays DEF output
  <2>3. /\ OfOneFile(main.toks) /\ Len(asms) = 1 /\ instr_vec = <<>>
        /\ CountedTo(main.toks, main.instr_count, main.prog_size, main.toknum - 1)
    BY <1>2, <2>1, <2>2 DEF PassInv, EarlySteps
  <2>4. \/ Stops
        \/ /\ Len(asms') = 1
           /\ CountedTo(main.toks, main'.instr_count, main'.prog_size, main'.toknum - 1)
    BY <1>1, <1>4, <2>3, FirstPassCounts
  <2>5. Stops => at' \in Errors
    BY DEF Stops, Ends
  <2>6. "first_stage_pass" \notin Errors /\ "build_im_form" \notin Errors /\ LateSteps \cap Errors = {}
    BY DEF Errors, LateSteps
  <2>7. ~Assembling' /\ at' \notin LateSteps /\ at' # "build_im_form"
    BY <2>2, <2>6 DEF Assembling, LateSteps
  <2> QED BY <2>1, <2>2, <2>3, <2>4, <2>5, <2>6, <2>7, SmallSequences
<1>5. CASE AssembleMain
  <2>1. main'.toks = main.toks /\ main'.instr_count = main.instr_count /\ main'.prog_size = main.prog_size
    BY <1>1, <1>5, CountsStay DEF Kept
  <2>2. OfOneFile(main.toks)
    BY <1>2, <2>1
  <2>3. IsSequence(instr_vec)
    BY <2>2 DEF PassInv
  <2>4. CASE Stops
    <3>1. at' \in Errors /\ instr_vec' = instr_vec
      BY <2>4 DEF Stops, Ends, output
    <3>2. at' \notin EarlySteps \cup LateSteps \cup {"first_stage_pass", "build_im_form"} /\ ~Assembling'
      BY <3>1 DEF Errors, EarlySteps, LateSteps, Assembling
    <3> QED BY <2>3, <3>1, <3>2
  <2>5. CASE ~Stops
    <3>1. CountedTo(main.toks, main.instr_count, main.prog_size, Len(main.toks)) /\ at' # "first_stage_pass"
      <4>1. CASE MergeImportSymbols
        <5>1. at = "first_stage_pass" /\ Len(asms) = 1 /\ asm.toknum > Len(asm.toks)
              /\ (Ends("exception") \/ Ends("crashed") \/ at' = "alloc_bytestream")
          BY <4>1 DEF MergeImportSymbols, FirstPassOver
        <5>2. ~Ends("exception") /\ ~Ends("crashed")
          BY <2>5 DEF Stops, Errors
        <5>3. asm = main /\ Len(main.toks) \in Nat /\ main.toknum \in 1 .. Len(main.toks) + 1
          BY <1>1, <5>1, TheMain
        <5>4. main.toknum - 1 = Len(main.toks)
          BY <5>1, <5>3
        <5>5. CountedTo(main.toks, main.instr_count, main.prog_size, main.toknum - 1)
          BY <2>2, <5>1 DEF PassInv
        <5> QED BY <5>1, <5>2, <5>4, <5>5
      <4>2. CASE ~MergeImportSymbols
        <5>1. AllocBytestream \/ BuildMetadata \/ Finalise \/ BuildInstr \/ BuildUnlistedInstr
              \/ SkipOther \/ ImFormBuilt \/ MergeImportList \/ WriteProgToBytes
          BY <1>5, <4>2 DEF AssembleMain
        <5>2. at \in {"alloc_bytestream", "build_imform_metadata", "finalise", "build_im_form",
                      "merge_import_list", "write_prog_to_bytes"}
          BY <5>1 DEF AllocBytestream, BuildMetadata, Finalise, BuildInstr, BuildUnlistedInstr, Building,
                      SkipOther, ImFormBuilt, MergeImportList, WriteProgToBytes
        <5>3. Assembling
          BY <5>2 DEF Assembling, Errors
        <5>4. PathsInv
          BY DEF AsmInv
        <5>5. \A b : ~MergesSymbols(b)
          BY <5>2 DEF MergesSymbols, FirstPassOver
        <5>6. BuildsUnlisted \/ Rests \/ \E b : Finalises(b) \/ Builds(b) \/ Skips(b) \/ MergesList(b)
          BY <1>1, <1>5, <2>5, <5>4, <5>5, SecondPassSteps
        <5>7. at' # "first_stage_pass"
          BY <5>6, StepNames
        <5> QED BY <2>2, <5>3, <5>7 DEF PassInv
      <4> QED BY <4>1, <4>2
    <3>2. SUFFICES /\ IsSequence(instr_vec')
                   /\ at' \in EarlySteps => instr_vec' = <<>>
                   /\ at' = "build_im_form" => BuiltTo(main.toks, instr_vec', main'.toknum)
                   /\ at' \in LateSteps => BuiltTo(main.toks, instr_vec', Len(main.toks) + 1)
      BY <2>1, <3>1
    <3>3. CASE MergeImportSymbols \/ AllocBytestream \/ BuildMetadata
      <4>1. at \in EarlySteps /\ at' \in EarlySteps /\ instr_vec' = instr_vec
        BY <2>5, <3>3 DEF MergeImportSymbols, AllocBytestream, BuildMetadata, FirstPassOver, EarlySteps,
                          output, Stops, Errors
      <4>2. at' # "build_im_form" /\ at' \notin LateSteps
        BY <4>1 DEF EarlySteps, LateSteps
      <4> QED BY <2>2, <2>3, <4>1, <4>2 DEF PassInv
    <3>4. CASE Finalise
      <4> DEFINE st == finalise(main.symtab, metadata)
                 b == [main EXCEPT !.symtab = st, !.toknum = 1]
      <4>1. at = "finalise" /\ asms' = <<b>> /\ at' = "build_im_form" /\ instr_vec' = instr_vec
        BY <3>4 DEF Finalise, output
      <4> HIDE DEF st
      <4>2. b.toknum = 1
        BY <1>1, AsmIsOne DEF IsAsm, AsmFields
      <4> HIDE DEF b
      <4>3. main'.toknum = 1 /\ instr_vec = <<>>
        BY <2>2, <4>1, <4>2 DEF main, PassInv, EarlySteps
      <4>4. BuiltTo(main.toks, <<>>, 1)
        BY DEF BuiltTo, ListedTo, Tallies, Rooms
      <4> QED BY <2>3, <4>1, <4>3, <4>4 DEF EarlySteps, LateSteps
    <3>5. CASE BuildInstr
      <4>1. at = "build_im_form"
        BY <3>5 DEF BuildInstr, Building
      <4>2. BuiltTo(main.toks, instr_vec, main.toknum)
        BY <2>2, <4>1 DEF PassInv
      <4>3. /\ at' = "build_im_form" /\ IsSequence(instr_vec')
            /\ BuiltTo(main.toks, instr_vec', main'.toknum)
        BY <1>1, <2>3, <2>5, <3>1, <3>5, <4>2, BuildInstrBuilds
      <4> QED BY <4>3 DEF EarlySteps, LateSteps
    <3>6. CASE SkipOther
      <4>1. at = "build_im_form"
        BY <3>6 DEF SkipOther
      <4>2. BuiltTo(main.toks, instr_vec, main.toknum)
        BY <2>2, <4>1 DEF PassInv
      <4>3. /\ at' = "build_im_form" /\ instr_vec' = instr_vec
            /\ BuiltTo(main.toks, instr_vec, main'.toknum)
        BY <1>1, <2>2, <2>3, <3>6, <4>2, SkipBuilds
      <4> QED BY <2>3, <4>3 DEF EarlySteps, LateSteps
    <3>7. CASE BuildUnlistedInstr
      <4>1. /\ at = "build_im_form" /\ main.toknum <= Len(main.toks) /\ tok.type = "OPCODE_TOK"
            /\ tok.v \notin DOMAIN OperandCount
            /\ instr_vec' = Append(instr_vec, [opcode |-> tok.v, vals |-> <<>>])
            /\ asms' = asms /\ at' = at
        BY <2>5, <3>7 DEF BuildUnlistedInstr, Building, Stops, Errors
      <4>2. asm = main
        BY <1>1, <4>1, TheMain DEF Assembling, Errors
      <4>3. main.toks[main.toknum].type = "OPCODE_TOK" /\ main.toks[main.toknum].v \notin DOMAIN OperandCount
        BY <4>1, <4>2 DEF tok
      <4>4. BuiltTo(main.toks, instr_vec', main.toknum)
        BY <2>2, <4>1, <4>3 DEF PassInv, BuiltTo
      <4>5. IsSequence(instr_vec') /\ main'.toknum = main.toknum
        BY <2>3, <4>1, AppendKeeps DEF main
      <4> QED BY <4>1, <4>4, <4>5 DEF EarlySteps, LateSteps
    <3>8. CASE ImFormBuilt
      <4>1. /\ at = "build_im_form" /\ main.toknum > Len(main.toks) /\ at' = "merge_import_list"
            /\ instr_vec' = instr_vec
        BY <3>8 DEF ImFormBuilt
      <4>2. Len(main.toks) \in Nat /\ main.toknum \in 1 .. Len(main.toks) + 1
        BY <1>1, <4>1, TheMain DEF Assembling, Errors
      <4>3. main.toknum = Len(main.toks) + 1
        BY <4>1, <4>2
      <4>4. BuiltTo(main.toks, instr_vec, Len(main.toks) + 1)
        BY <2>2, <4>1, <4>3 DEF PassInv
      <4> QED BY <2>3, <4>1, <4>4 DEF EarlySteps
    <3>9. CASE MergeImportList \/ WriteProgToBytes
      <4>1. at \in LateSteps /\ at' \in LateSteps /\ instr_vec' = instr_vec
        BY <2>5, <3>9 DEF MergeImportList, WriteProgToBytes, LateSteps, output, Stops, Errors
      <4>2. BuiltTo(main.toks, instr_vec, Len(main.toks) + 1)
        BY <2>2, <4>1 DEF PassInv
      <4> QED BY <2>3, <4>1, <4>2 DEF EarlySteps, LateSteps
    <3> QED BY <1>5, <3>3, <3>4, <3>5, <3>6, <3>7, <3>8, <3>9 DEF AssembleMain
  <2> QED BY <2>4, <2>5
<1> QED BY <1>3, <1>4, <1>5 DEF Next

\* Both passes find the same instructions in a program of one file, whatever its
\* operands are, and the second fills the room that the first has counted.
THEOREM PassesAgreeHolds == Spec => []PassesAgree
<1>1. Init => PassInv
  BY PassInvInit
<1>2. AsmInv /\ PassInv /\ [Next]_vars => PassInv'
  BY PassInvNext
<1>3. AsmInv /\ PassInv => PassesAgree
  <2> SUFFICES ASSUME AsmInv, PassInv, at \in {"merge_import_list", "write_prog_to_bytes", "done"},
                      OfOneFile(main.toks)
               PROVE  Len(instr_vec) = main.instr_count /\ main.prog_size = RoomOf(instr_vec)
    BY DEF PassesAgree
  <2> DEFINE toks == main.toks
             n == Len(toks)
  <2>1. Assembling /\ at \in LateSteps
    BY DEF Assembling, Errors, LateSteps
  <2>2. n \in Nat /\ (n + 1) - 1 = n /\ ~(n + 1 <= n)
    <3>1. n \in Nat
      BY <2>1, TheMain DEF AsmInv
    <3> QED BY <3>1
  <2>3. /\ CountedTo(toks, main.instr_count, main.prog_size, n)
        /\ BuiltTo(toks, instr_vec, n + 1) /\ IsSequence(instr_vec)
    BY <2>1 DEF PassInv
  <2> HIDE DEF toks, n
  <2>4. ListedTo(toks, n) /\ \A f, h, g : Tallies(f, h, toks) /\ Rooms(g, instr_vec) =>
                                 Len(instr_vec) = f[n] /\ g[Len(instr_vec)] = h[n]
    BY <2>2, <2>3 DEF BuiltTo, n
  <2>5. PICK f, h : Tallies(f, h, toks)
    BY <2>2, TalliesExist DEF n
  <2>6. PICK g : Rooms(g, instr_vec) /\ RoomOf(instr_vec) = g[Len(instr_vec)]
    BY <2>3, RoomIsSum DEF IsSequence
  <2>7. main.instr_count = f[n] /\ main.prog_size = h[n]
    BY <2>3, <2>4, <2>5 DEF CountedTo
  <2> QED BY <2>4, <2>5, <2>6, <2>7
<1> QED BY <1>1, <1>2, <1>3, AsmInvHolds, PTL DEF Spec

-----------------------------------------------------------------------------
(* What the sizes of the opcodes before a token come to, in a plain file.  *)

\* The sizes before token n, one by one.
LEMMA SizesBefore ==
  ASSUME NEW toks, Len(toks) \in Nat, DOMAIN toks = 1 .. Len(toks)
  PROVE  /\ SizeBefore(toks, 1) = 0
         /\ \A n \in 1 .. Len(toks) :
               SizeBefore(toks, n + 1) = IF toks[n].type = "OPCODE_TOK"
                                         THEN SizeBefore(toks, n) + opsize_tbl[toks[n].v]
                                         ELSE SizeBefore(toks, n)
<1> DEFINE len == Len(toks)
           S == OpcodesIn(toks)
           w == [k \in 1 .. len |-> opsize_tbl[toks[k].v]]
           P(g) == g = [k \in 0 .. len |-> IF k = 0 THEN 0
                                           ELSE IF k \in S THEN g[k - 1] + opsize_tbl[toks[k].v]
                                           ELSE g[k - 1]]
           size == CHOOSE g : P(g)
<1>1. ASSUME NEW n PROVE SizeBefore(toks, n) = size[n - 1]
  BY DEF SizeBefore
<1>2. \A k \in 1 .. len : w[k] = opsize_tbl[toks[k].v] /\ (k \in S <=> toks[k].type = "OPCODE_TOK")
  BY DEF OpcodesIn
<1> HIDE DEF w, S, len
<1>3. \E g : P(g)
  <2>1. PICK g : Sums(g, w, S, len)
    BY SumsExist DEF len
  <2>2. g = [k \in 0 .. len |-> IF k = 0 THEN 0 ELSE IF k \in S THEN g[k - 1] + w[k] ELSE g[k - 1]]
    BY <2>1 DEF Sums
  <2>3. \A k \in 0 .. len : k = 0 \/ k \in 1 .. len
    BY DEF len
  <2>4. P(g)
    BY <1>2, <2>2, <2>3
  <2> QED BY <2>4
<1>4. P(size)
  BY <1>3
<1> HIDE DEF size
<1>5. size[0] = 0
  BY <1>4 DEF len
<1>6. ASSUME NEW n \in 1 .. len
      PROVE  size[n] = IF n \in S THEN size[n - 1] + opsize_tbl[toks[n].v] ELSE size[n - 1]
  <2>1. n \in 0 .. len /\ n # 0
    BY DEF len
  <2> QED BY <1>4, <2>1
<1>7. \A n \in 1 .. len : (n + 1) - 1 = n
  BY DEF len
<1>8. SizeBefore(toks, 1) = 0
  BY <1>1, <1>5
<1>9. ASSUME NEW n \in 1 .. len
      PROVE  SizeBefore(toks, n + 1) = IF toks[n].type = "OPCODE_TOK"
                                       THEN SizeBefore(toks, n) + opsize_tbl[toks[n].v]
                                       ELSE SizeBefore(toks, n)
  <2>1. SizeBefore(toks, n + 1) = size[n] /\ SizeBefore(toks, n) = size[n - 1]
    BY <1>1, <1>7
  <2> QED BY <1>2, <1>6, <2>1
<1> QED BY <1>8, <1>9 DEF len

\* What is known of each token of a plain file.
LEMMA PlainTokens ==
  ASSUME NEW path \in Readable, Plain(path), NEW n \in 1 .. Len(Source(path))
  PROVE  LET toks == Source(path)
         IN  /\ toks[n].type \in Starts \cup {"UINT_TOK", "ID_TOK", "COMMENT_TOK"}
             /\ Defining(toks, n) => Definitions(path, NameFrom(path, toks[n].v)) = {n}
             /\ toks[n].type = "MACRO_DEF_TOK" => toks[n + 2].type = "UINT_TOK"
             /\ toks[n].type = "OPCODE_TOK" =>
                   /\ toks[n].v \in DOMAIN OperandCount /\ toks[n].v \in DOMAIN opsize_tbl
                   /\ opsize_tbl[toks[n].v] = Size(OperandCount[toks[n].v])
                   /\ OperandCount[toks[n].v] \in {0, 1}
                   /\ OperandCount[toks[n].v] = 1 => toks[n + 1].type \in {"UINT_TOK", "ID_TOK"}
<1> DEFINE toks == Source(path)
<1>1. n \in DOMAIN toks
  BY SourceIsSequence
<1>2. /\ toks[n].type \in Starts \cup {"UINT_TOK", "ID_TOK", "COMMENT_TOK"}
      /\ Defining(toks, n) => Definitions(path, NameFrom(path, toks[n].v)) = {n}
      /\ toks[n].type = "MACRO_DEF_TOK" => toks[n + 2].type = "UINT_TOK"
      /\ n \in OpcodesIn(toks) =>
            /\ toks[n].v \in Agreed /\ OperandCount[toks[n].v] <= 1
            /\ OperandCount[toks[n].v] = 1 => toks[n + 1].type \in {"UINT_TOK", "ID_TOK"}
  BY <1>1 DEF Plain
<1>3. toks[n].type = "OPCODE_TOK" => n \in OpcodesIn(toks)
  BY <1>1 DEF OpcodesIn
<1>4. ASSUME NEW op \in Agreed, OperandCount[op] <= 1
      PROVE  /\ op \in DOMAIN OperandCount /\ op \in DOMAIN opsize_tbl
             /\ opsize_tbl[op] = Size(OperandCount[op]) /\ OperandCount[op] \in {0, 1}
  <2>1. op \in DOMAIN OperandCount /\ op \in DOMAIN opsize_tbl
        /\ opsize_tbl[op] = Size(OperandCount[op])
    BY DEF Agreed, Size
  <2>2. OperandCount[op] \in 0 .. 3
    BY <2>1, Counts
  <2>3. \A c \in 0 .. 3 : c <= 1 => c \in {0, 1}
    OBVIOUS
  <2> QED BY <1>4, <2>1, <2>2, <2>3
<1> HIDE DEF toks
<1>5. toks[n].type = "OPCODE_TOK" =>
         /\ toks[n].v \in DOMAIN OperandCount /\ toks[n].v \in DOMAIN opsize_tbl
         /\ opsize_tbl[toks[n].v] = Size(OperandCount[toks[n].v])
         /\ OperandCount[toks[n].v] \in {0, 1}
         /\ OperandCount[toks[n].v] = 1 => toks[n + 1].type \in {"UINT_TOK", "ID_TOK"}
  BY <1>2, <1>3, <1>4
<1> QED BY <1>2, <1>5 DEF toks

LEMMA PlainFile ==
  ASSUME NEW path \in Readable, Plain(path)
  PROVE  /\ OfOneFile(Source(path))
         /\ \A n : n \in 0 .. Len(Source(path)) => ListedTo(Source(path), n)
<1>1. Len(Source(path)) \in Nat /\ DOMAIN Source(path) = 1 .. Len(Source(path))
  BY SourceIsSequence DEF IsSequence
<1>2. OfOneFile(Source(path))
  BY <1>1, PlainTokens DEF OfOneFile, Starts
<1>3. ASSUME NEW n \in 0 .. Len(Source(path)) PROVE ListedTo(Source(path), n)
  <2>1. \A p \in 1 .. n : p \in 1 .. Len(Source(path))
    BY <1>1
  <2> QED BY <2>1, PlainTokens DEF ListedTo
<1> QED BY <1>2, <1>3

\* The sizes before a token are numbers, and those the first pass adds up.
LEMMA CountedIsBefore ==
  ASSUME NEW path \in Readable, Plain(path), NEW n \in 0 .. Len(Source(path)),
         NEW count, NEW size, CountedTo(Source(path), count, size, n)
  PROVE  size = SizeBefore(Source(path), n + 1)
<1> DEFINE toks == Source(path)
           len == Len(toks)
           h == [k \in 0 .. len |-> SizeBefore(toks, k + 1)]
<1>1. len \in Nat /\ DOMAIN toks = 1 .. len
  BY SourceIsSequence DEF IsSequence
<1>2. PICK f, e : Tallies(f, e, toks)
  BY <1>1, TalliesExist
<1>3. SizeBefore(toks, 1) = 0 /\ \A k \in 1 .. len :
         SizeBefore(toks, k + 1) = IF toks[k].type = "OPCODE_TOK"
                                   THEN SizeBefore(toks, k) + opsize_tbl[toks[k].v]
                                   ELSE SizeBefore(toks, k)
  BY <1>1, SizesBefore
<1>4. ASSUME NEW k \in 1 .. len
      PROVE  toks[k].type = "OPCODE_TOK" => opsize_tbl[toks[k].v] = Size(OperandCount[toks[k].v])
  BY PlainTokens
<1>5. h[0] = 0 /\ \A k \in 1 .. len : h[k] = SizeBefore(toks, k + 1) /\ h[k - 1] = SizeBefore(toks, k)
  <2>1. \A k \in 1 .. len : k \in 0 .. len /\ k - 1 \in 0 .. len /\ (k - 1) + 1 = k
    BY <1>1
  <2>2. 0 \in 0 .. len /\ 0 + 1 = 1
    BY <1>1
  <2> HIDE DEF toks, len
  <2> QED BY <1>3, <2>1, <2>2
<1>6. h[n] = SizeBefore(toks, n + 1)
  OBVIOUS
<1>7. ListedTo(toks, n)
  BY PlainFile
<1> HIDE DEF h, len, toks
<1>8. Tallies(f, h, toks)
  BY <1>2, <1>3, <1>4, <1>5 DEF Tallies, len
<1> QED BY <1>6, <1>7, <1>8 DEF CountedTo, toks

LEMMA BeforeIsNumber ==
  ASSUME NEW path \in Readable, Plain(path), NEW n \in 1 .. Len(Source(path)) + 1
  PROVE  SizeBefore(Source(path), n) \in Nat
<1> DEFINE toks == Source(path)
           len == Len(toks)
           Sat == {k \in 0 .. len : SizeBefore(toks, k + 1) \in Nat}
<1>1. len \in Nat /\ DOMAIN toks = 1 .. len
  BY SourceIsSequence DEF IsSequence
<1>2. SizeBefore(toks, 1) = 0 /\ \A k \in 1 .. len :
         SizeBefore(toks, k + 1) = IF toks[k].type = "OPCODE_TOK"
                                   THEN SizeBefore(toks, k) + opsize_tbl[toks[k].v]
                                   ELSE SizeBefore(toks, k)
  BY <1>1, SizesBefore
<1>3. \A k \in 1 .. len : toks[k].type = "OPCODE_TOK" => opsize_tbl[toks[k].v] \in Nat
  BY PlainTokens, SizesAreNumbers
<1> HIDE DEF toks
<1>4. 0 \in Sat
  BY <1>1, <1>2
<1>5. ASSUME NEW k \in 0 .. len - 1, k \in Sat PROVE k + 1 \in Sat
  <2>1. k + 1 \in 1 .. len /\ k + 1 \in 0 .. len /\ SizeBefore(toks, k + 1) \in Nat
    BY <1>1, <1>5
  <2>2. SizeBefore(toks, (k + 1) + 1) \in Nat
    <3> DEFINE m == k + 1
    <3>1. m \in 1 .. len /\ SizeBefore(toks, m) \in Nat
      BY <2>1
    <3> HIDE DEF m, len
    <3>2. SizeBefore(toks, m + 1) \in Nat
      BY <1>2, <1>3, <3>1
    <3> QED BY <3>2 DEF m
  <2> QED BY <2>1, <2>2
<1>6. 0 .. len \subseteq Sat
  <2> HIDE DEF Sat, len
  <2> QED BY <1>1, <1>4, <1>5, StepInduction
<1>7. n - 1 \in 0 .. len /\ (n - 1) + 1 = n
  BY <1>1 DEF toks
<1> QED BY <1>6, <1>7 DEF toks

\* An opcode and its operands are within the sizes of all.
LEMMA BeforeGrows ==
  ASSUME NEW path \in Readable, Plain(path), NEW n \in 1 .. Len(Source(path)),
         Source(path)[n].type = "OPCODE_TOK"
  PROVE  SizeBefore(Source(path), n) + opsize_tbl[Source(path)[n].v]
             <= SizeBefore(Source(path), Len(Source(path)) + 1)
<1> DEFINE toks == Source(path)
           len == Len(toks)
           Sat == {k \in 0 .. len : n + k <= len => SizeBefore(toks, n + 1) <= SizeBefore(toks, n + k + 1)}
<1>1. len \in Nat /\ DOMAIN toks = 1 .. len
  BY SourceIsSequence DEF IsSequence
<1>2. \A k \in 1 .. len : SizeBefore(toks, k + 1) = IF toks[k].type = "OPCODE_TOK"
                                                     THEN SizeBefore(toks, k) + opsize_tbl[toks[k].v]
                                                     ELSE SizeBefore(toks, k)
  BY <1>1, SizesBefore
<1>3. \A k \in 1 .. len : toks[k].type = "OPCODE_TOK" => opsize_tbl[toks[k].v] \in Nat
  BY PlainTokens, SizesAreNumbers
<1>4. \A k \in 1 .. len + 1 : SizeBefore(toks, k) \in Nat
  BY BeforeIsNumber
<1>5. n \in 1 .. len /\ toks[n].type = "OPCODE_TOK"
  OBVIOUS
<1> HIDE DEF toks
<1>6. \A k \in 1 .. len : SizeBefore(toks, k) <= SizeBefore(toks, k + 1)
  <2> TAKE k \in 1 .. len
  <2>1. k \in 1 .. len + 1
    BY <1>1
  <2> HIDE DEF len
  <2> QED BY <1>2, <1>3, <1>4, <2>1
<1>7. 0 \in Sat
  <2>1. n + 0 + 1 = n + 1 /\ n + 1 \in 1 .. len + 1
    BY <1>1, <1>5
  <2>2. SizeBefore(toks, n + 1) \in Nat
    BY <1>4, <2>1
  <2> HIDE DEF len
  <2>3. SizeBefore(toks, n + 1) <= SizeBefore(toks, n + 0 + 1)
    BY <2>1, <2>2
  <2> QED BY <1>1, <2>3
<1>8. ASSUME NEW k \in 0 .. len - 1, k \in Sat PROVE k + 1 \in Sat
  <2>1. k + 1 \in 0 .. len
    BY <1>1
  <2>2. ASSUME n + (k + 1) <= len PROVE SizeBefore(toks, n + 1) <= SizeBefore(toks, n + (k + 1) + 1)
    <3> DEFINE m == n + k + 1
    <3>1. m \in 1 .. len /\ n + k <= len /\ n + (k + 1) + 1 = m + 1
          /\ {n + 1, m, m + 1} \subseteq 1 .. len + 1
      BY <1>1, <1>5, <2>2
    <3>2. SizeBefore(toks, n + 1) <= SizeBefore(toks, m)
      BY <1>8, <3>1
    <3> HIDE DEF m, len
    <3>3. /\ SizeBefore(toks, m) <= SizeBefore(toks, m + 1)
          /\ SizeBefore(toks, n + 1) \in Nat /\ SizeBefore(toks, m) \in Nat /\ SizeBefore(toks, m + 1) \in Nat
      BY <1>4, <1>6, <3>1
    <3> QED BY <3>1, <3>2, <3>3
  <2> QED BY <2>1, <2>2
<1>9. 0 .. len \subseteq Sat
  <2> HIDE DEF Sat, len
  <2> QED BY <1>1, <1>7, <1>8, StepInduction
<1>10. len - n \in 0 .. len /\ n + (len - n) <= len /\ n + (len - n) + 1 = len + 1
  BY <1>1, <1>5
<1>11. SizeBefore(toks, n + 1) <= SizeBefore(toks, len + 1)
  <2> HIDE DEF len
  <2>1. len - n \in Sat
    BY <1>9, <1>10
  <2> QED BY <1>10, <2>1
<1> QED BY <1>2, <1>5, <1>11 DEF toks

-----------------------------------------------------------------------------
(* What the symbols of a plain file stand for.                             *)

\* sym is what the file defines at d, when its first instruction is at first.
Describes(sym, path, d, first) ==
    LET toks == Source(path)
    IN  /\ d \in 1 .. Len(toks) /\ Defining(toks, d) /\ sym.id = NameFrom(path, toks[d].v)
        /\ \/ /\ toks[d].type = "LABEL_DEF_TOK" /\ sym.type = "LABEL_SYMBOL"
              /\ sym.val = first + SizeBefore(toks, d)
           \/ /\ toks[d].type # "LABEL_DEF_TOK" /\ sym.type = "MACRO_SYMBOL"
              /\ sym.val_type = "UINT_TYPE" /\ sym.val = toks[d + 1].v

\* Every symbol is built in, with a short name, or it describes a definition.
Tells(vec, path, first) ==
    \A i \in 1 .. Len(vec) :
        \/ vec[i].type = "ATOM_SYMBOL" /\ Len(vec[i].id) = 1
        \/ \E d : Describes(vec[i], path, d, first)

\* Names in a table are long, those built in are not.
LEMMA NamesAreLong ==
  ASSUME NEW path, NEW id
  PROVE  Len(NameFrom(path, id)) # 1
<1>1. Len(<<FileId(path), id[1]>>) = 2
  OBVIOUS
<1> QED BY <1>1 DEF NameFrom

LEMMA NewTells ==
  ASSUME NEW keep \in BOOLEAN, NEW path
  PROVE  Tells(NewSymbolTable(keep).vec, path, 0)
<1> DEFINE v == [i \in DOMAIN Builtins |-> Symbol("ATOM_SYMBOL", <<Builtins[i]>>, "VOID_TYPE", 0)]
<1>1. NewSymbolTable(keep).vec = v
  BY DEF NewSymbolTable
<1>2. DOMAIN Builtins = 1 .. 7
  BY DEF Builtins
<1>3. Len(v) = 7
  <2> DEFINE S == {v[i] : i \in 1 .. 7}
  <2>1. v \in [1 .. 7 -> S]
    BY <1>2
  <2> HIDE DEF v, S
  <2>2. \A n \in Nat : v \in [1 .. n -> S] => Len(v) = n
    OBVIOUS
  <2> QED BY <2>1, <2>2
<1>4. ASSUME NEW i \in 1 .. 7 PROVE v[i].type = "ATOM_SYMBOL" /\ Len(v[i].id) = 1
  <2>1. v[i] = Symbol("ATOM_SYMBOL", <<Builtins[i]>>, "VOID_TYPE", 0)
    BY <1>2
  <2>2. Len(<<Builtins[i]>>) = 1
    OBVIOUS
  <2> HIDE DEF v
  <2> QED BY <2>1, <2>2 DEF Symbol
<1> HIDE DEF v
<1> QED BY <1>1, <1>3, <1>4 DEF Tells

LEMMA CreateTells ==
  ASSUME NEW st, IsTable(st), NEW path, NEW first, Tells(st.vec, path, first),
         NEW sym, NEW d, Describes(sym, path, d, first)
  PROVE  Tells(create_new_symbol(st, sym).vec, path, first)
<1> DEFINE v == Append(st.vec, sym)
<1>1. IsSequence(st.vec) /\ Len(st.vec) \in Nat
  BY DEF IsTable, IsSequence
<1>2. /\ Len(v) = Len(st.vec) + 1 /\ v[Len(st.vec) + 1] = sym
      /\ \A i \in 1 .. Len(st.vec) : v[i] = st.vec[i]
  BY <1>1, AppendKeeps
<1>3. create_new_symbol(st, sym).vec = v
  BY DEF IsTable, TableFields, create_new_symbol
<1> HIDE DEF v
<1>4. ASSUME NEW i \in 1 .. Len(v)
      PROVE  \/ v[i].type = "ATOM_SYMBOL" /\ Len(v[i].id) = 1
             \/ \E e : Describes(v[i], path, e, first)
  <2>1. i \in 1 .. Len(st.vec) \/ i = Len(st.vec) + 1
    BY <1>1, <1>2
  <2> QED BY <1>2, <2>1 DEF Tells
<1> QED BY <1>3, <1>4 DEF Tells

\* The offset makes addresses of what labels have counted.
LEMMA OffsetTells ==
  ASSUME NEW sym, IsSymbol(sym), NEW path \in Readable, Plain(path), NEW d, Describes(sym, path, d, 0),
         NEW first \in Nat
  PROVE  Describes(WithOffset(sym, first), path, d, first)
<1> DEFINE toks == Source(path)
           size == SizeBefore(toks, d)
           r == WithOffset(sym, first)
<1>1. d \in 1 .. Len(toks) /\ Defining(toks, d) /\ sym.id = NameFrom(path, toks[d].v)
  BY DEF Describes
<1>2. size \in Nat
  <2>1. d \in 1 .. Len(toks) + 1
    <3>1. Len(toks) \in Nat
      BY SourceIsSequence DEF IsSequence
    <3> HIDE DEF toks
    <3> QED BY <1>1, <3>1
  <2> QED BY <2>1, BeforeIsNumber
<1>3. CASE toks[d].type = "LABEL_DEF_TOK"
  <2>1. sym.type = "LABEL_SYMBOL" /\ sym.val = 0 + size
    BY <1>3 DEF Describes
  <2>2. r = [sym EXCEPT !.val = @ + first]
    BY <2>1 DEF WithOffset, HoldsAddress
  <2> HIDE DEF size
  <2>3. r.id = sym.id /\ r.type = sym.type /\ r.val = sym.val + first
    BY <2>2 DEF IsSymbol
  <2>4. r.val = first + size
    BY ONLY <1>2, <2>1, <2>3, first \in Nat
  <2> HIDE DEF r
  <2> QED BY <1>1, <1>3, <2>1, <2>3, <2>4 DEF Describes, r, size
<1>4. CASE toks[d].type # "LABEL_DEF_TOK"
  <2>1. sym.type = "MACRO_SYMBOL" /\ sym.val_type = "UINT_TYPE" /\ sym.val = toks[d + 1].v
    BY <1>4 DEF Describes
  <2>2. r = sym
    BY <2>1 DEF WithOffset, HoldsAddress
  <2> QED BY <1>1, <1>4, <2>1, <2>2 DEF Describes
<1> QED BY <1>3, <1>4

LEMMA FinalTells ==
  ASSUME NEW st, IsTable(st), NEW md, NEW path \in Readable, Plain(path), Tells(st.vec, path, 0),
         NEW first \in Nat,
         first = METADATA_SIZE + (IF st.keep_symbols THEN Aligned(Sized(st)) ELSE 0)
  PROVE  Tells(finalise(st, md).vec, path, first)
<1> DEFINE q == serial_size(st)
           value == [bi_mem_size |-> md.mem_size, bi_prog_size |-> md.prog_size,
                  bi_instr_count |-> md.instr_count,
                  bi_first_instr_addr |-> md.first_instr_addr,
                  bi_last_instr_addr |-> md.last_instr_addr,
                  bi_first_user_addr |-> md.first_user_byte_addr,
                  bi_symtab_size |-> md.symtab_size]
           New(s) == IF s.type = "ATOM_SYMBOL" THEN Symbol("ATOM_SYMBOL", s.id, "UINT_TYPE", value[s.id[1]]) ELSE s
           v == [i \in DOMAIN q.vec |-> New(q.vec[i])]
           p == [q EXCEPT !.vec = v]
           w == [i \in DOMAIN p.vec |-> WithOffset(p.vec[i], AddrOffset(p))]
           r == finalise(st, md)
<1>1. /\ DOMAIN q = TableFields /\ q.vec = st.vec /\ q.keep_symbols = st.keep_symbols
      /\ q.bytestream_size = Sized(st)
  BY DEF IsTable, TableFields, serial_size, Sized
<1>2. r = [p EXCEPT !.vec = w]
  BY DEF finalise, resolve_all_macros, calc_addr_offsets, resolve_builtin_symbols
<1> HIDE DEF q, value, New
<1>3. /\ DOMAIN p = TableFields /\ p.vec = v /\ p.keep_symbols = st.keep_symbols
      /\ p.bytestream_size = Sized(st)
  BY <1>1 DEF TableFields
<1>4. AddrOffset(p) = first
  BY <1>3 DEF AddrOffset
<1> HIDE DEF p
<1>5. IsSequence(st.vec) /\ DOMAIN st.vec = 1 .. Len(st.vec) /\ Len(st.vec) \in Nat
  BY AppendKeeps DEF IsTable, IsSequence
<1>6. DOMAIN v = 1 .. Len(st.vec) /\ \A i \in 1 .. Len(st.vec) : v[i] = New(st.vec[i])
  BY <1>1, <1>5
<1> HIDE DEF v
<1>7. DOMAIN w = 1 .. Len(st.vec) /\ \A i \in 1 .. Len(st.vec) : w[i] = WithOffset(v[i], first)
  BY <1>3, <1>4, <1>6
<1>8. r.vec = w
  BY <1>2, <1>3 DEF TableFields
<1>9. Len(w) = Len(st.vec)
  <2> DEFINE S == {w[i] : i \in 1 .. Len(st.vec)}
  <2>1. w = [i \in DOMAIN w |-> w[i]]
    OBVIOUS
  <2> HIDE DEF w
  <2>2. w \in [1 .. Len(st.vec) -> S]
    BY <1>7, <2>1
  <2> HIDE DEF S
  <2> QED BY <1>5, <2>2
<1> HIDE DEF w, r
<1>10. ASSUME NEW s, IsSymbol(s)
       PROVE  /\ s.type # "ATOM_SYMBOL" => New(s) = s
              /\ s.type = "ATOM_SYMBOL" => /\ WithOffset(New(s), first).type = "ATOM_SYMBOL"
                                           /\ WithOffset(New(s), first).id = s.id
  BY DEF New, Symbol, WithOffset, HoldsAddress
<1>11. ASSUME NEW i \in 1 .. Len(w)
       PROVE  \/ w[i].type = "ATOM_SYMBOL" /\ Len(w[i].id) = 1
              \/ \E d : Describes(w[i], path, d, first)
  <2> DEFINE s == st.vec[i]
  <2>1. IsSymbol(s) /\ w[i] = WithOffset(New(s), first)
    BY <1>6, <1>7, <1>9 DEF IsTable
  <2>2. (s.type = "ATOM_SYMBOL" /\ Len(s.id) = 1) \/ \E d : Describes(s, path, d, 0)
    BY <1>9 DEF Tells
  <2> HIDE DEF s
  <2>3. CASE s.type = "ATOM_SYMBOL" /\ Len(s.id) = 1
    BY <1>10, <2>1, <2>3
  <2>4. ASSUME NEW d, Describes(s, path, d, 0) PROVE \E e : Describes(w[i], path, e, first)
    <3>1. s.type # "ATOM_SYMBOL"
      BY <2>4 DEF Describes
    <3>2. Describes(WithOffset(s, first), path, d, first)
      BY <2>1, <2>4, OffsetTells
    <3> QED BY <1>10, <2>1, <3>1, <3>2
  <2> QED BY <2>2, <2>3, <2>4
<1> QED BY <1>8, <1>11 DEF Tells, r

\* The symbol that is found has the name.
LEMMA LookupNamed ==
  ASSUME NEW st, IsTable(st), NEW id, id_inuse(st, id)
  PROVE  \E i \in 1 .. Len(st.vec) : lookup_symbol(st, id) = st.vec[i] /\ st.vec[i].id = id
<1> DEFINE Named == {k \in 1 .. Len(st.vec) : st.vec[k].id = id}
           First(k) == /\ st.vec[k].id = id
                       /\ \A j \in 1 .. k - 1 : st.vec[j].id # id
<1>1. DOMAIN st.vec = 1 .. Len(st.vec) /\ Len(st.vec) \in Nat
  BY AppendKeeps DEF IsTable, IsSequence
<1>2. PICK n \in Named : \A k \in Named : n <= k
  <2>1. Named \subseteq Nat /\ Named # {}
    BY <1>1 DEF id_inuse
  <2> HIDE DEF Named
  <2> QED BY <2>1, LeastElement
<1>3. n \in DOMAIN st.vec /\ First(n)
  <2>1. ASSUME NEW j \in 1 .. n - 1 PROVE st.vec[j].id # id
    <3>1. j \in 1 .. Len(st.vec) /\ ~(n <= j)
      BY <1>1, <1>2
    <3>2. j \notin Named
      BY <1>2, <3>1
    <3> QED BY <3>1, <3>2
  <2> QED BY <1>1, <1>2, <2>1
<1> DEFINE k == CHOOSE m \in DOMAIN st.vec : First(m)
<1>4. k \in DOMAIN st.vec /\ First(k)
  <2> HIDE DEF First
  <2> QED BY <1>3
<1>5. lookup_symbol(st, id) = st.vec[k]
  BY DEF lookup_symbol
<1> HIDE DEF k
<1> QED BY <1>1, <1>4, <1>5

\* The word that an operand stands for, when the first instruction is at first.
MeaningAt(path, operand, first) ==
    IF operand.type = "UINT_TOK" THEN operand.v
    ELSE LET toks == Source(path)
             n == CHOOSE d \in Definitions(path, NameFrom(path, operand.v)) : TRUE
         IN  IF toks[n].type = "LABEL_DEF_TOK" THEN first + SizeBefore(toks, n) ELSE toks[n + 1].v

LEMMA ValueTells ==
  ASSUME NEW path \in Readable, Plain(path), NEW st, IsTable(st), NEW first, Tells(st.vec, path, first),
         NEW tk, tk.type \in {"UINT_TOK", "ID_TOK"},
         tk.type = "ID_TOK" => id_inuse(st, FullId(tk, FileId(path)))
  PROVE  ValueOf(tk, st, FileId(path)).val = MeaningAt(path, tk, first)
<1>1. CASE tk.type = "UINT_TOK"
  BY <1>1 DEF ValueOf, MeaningAt
<1>2. CASE tk.type = "ID_TOK"
  <2> DEFINE id == NameFrom(path, tk.v)
             toks == Source(path)
  <2>1. FullId(tk, FileId(path)) = id
    BY DEF FullId, NameFrom
  <2> DEFINE sym == lookup_symbol(st, id)
  <2>2. ValueOf(tk, st, FileId(path)).val = sym.val
    BY <1>2, <2>1 DEF ValueOf
  <2>3. Len(id) # 1
    BY NamesAreLong
  <2>4. id_inuse(st, id)
    BY <1>2, <2>1
  <2> HIDE DEF id
  <2>5. PICK i \in 1 .. Len(st.vec) : sym = st.vec[i] /\ st.vec[i].id = id
    BY <2>4, LookupNamed
  <2> HIDE DEF sym
  <2>6. PICK d : Describes(sym, path, d, first)
    BY <2>3, <2>5 DEF Tells
  <2>7. /\ d \in 1 .. Len(toks) /\ Defining(toks, d) /\ sym.id = NameFrom(path, toks[d].v)
        /\ \/ toks[d].type = "LABEL_DEF_TOK" /\ sym.val = first + SizeBefore(toks, d)
           \/ toks[d].type # "LABEL_DEF_TOK" /\ sym.val = toks[d + 1].v
    BY <2>6 DEF Describes
  <2>8. Definitions(path, id) = {d}
    <3>1. Definitions(path, NameFrom(path, toks[d].v)) = {d}
      <4>1. Defining(toks, d) => Definitions(path, NameFrom(path, toks[d].v)) = {d}
        <5>1. d \in 1 .. Len(Source(path))
          BY <2>7
        <5> QED BY <5>1, PlainTokens
      <4> QED BY <2>7, <4>1
    <3>2. id = NameFrom(path, toks[d].v)
      BY <2>5, <2>7
    <3> QED BY <3>1, <3>2
  <2>9. (CHOOSE e \in Definitions(path, id) : TRUE) = d
    BY <2>8
  <2>10. MeaningAt(path, tk, first) = IF toks[d].type = "LABEL_DEF_TOK" THEN first + SizeBefore(toks, d)
                                      ELSE toks[d + 1].v
    <3> DEFINE n == CHOOSE e \in Definitions(path, id) : TRUE
    <3>1. MeaningAt(path, tk, first) = IF toks[n].type = "LABEL_DEF_TOK" THEN first + SizeBefore(toks, n)
                                       ELSE toks[n + 1].v
      BY <1>2 DEF MeaningAt, id
    <3> HIDE DEF n
    <3>2. n = d
      BY <2>9 DEF n
    <3> QED BY <3>1, <3>2
  <2> QED BY <2>2, <2>7, <2>10
<1> QED BY <1>1, <1>2

\* The evaluation behind the first token of an operand that is a number or a name.
OneValue(r, v) ==
    /\ DOMAIN r = {"n", "stop", "ops", "vals", "parsed", "last_is_value", "inside_paren",
                   "inside_offset", "found"}
    /\ r.ops = <<>> /\ r.vals = <<v>> /\ r.last_is_value /\ ~r.inside_offset /\ ~r.inside_paren
    /\ r.stop \in {"no", "end", "exit"}

LEMMA FirstValue ==
  ASSUME NEW tk, tk.type \in {"UINT_TOK", "ID_TOK"}, NEW st, NEW fileid, NEW n
  PROVE  LET e == ResolveToken(ResolveStart(n), tk, st, fileid)
         IN  \/ e.stop = "exit"
             \/ /\ OneValue(e, ValueOf(tk, st, fileid))
                /\ tk.type = "ID_TOK" => id_inuse(st, FullId(tk, fileid))
<1> DEFINE s == ResolveStart(n)
           r == [s EXCEPT !.n = @ + 1, !.parsed = @ + 1]
           v == ValueOf(tk, st, fileid)
           e == ResolveToken(s, tk, st, fileid)
<1>1. /\ DOMAIN r = {"n", "stop", "ops", "vals", "parsed", "last_is_value", "inside_paren",
                     "inside_offset", "found"}
      /\ r.stop = "no" /\ r.ops = <<>> /\ r.vals = <<>> /\ r.last_is_value = FALSE
      /\ r.inside_offset = FALSE /\ r.inside_paren = FALSE
  BY DEF ResolveStart
<1>2. e = ResolveValue(r, tk, st, fileid)
  BY DEF ResolveToken, Starts, Operators, Values, Counted
<1> HIDE DEF r, s
<1>3. e = push_value(r, tk, st, fileid)
  BY <1>1, <1>2 DEF ResolveValue
<1>4. CASE tk.type = "ID_TOK" /\ ~id_inuse(st, FullId(tk, fileid))
  <2>1. e = [r EXCEPT !.stop = "exit"]
    BY <1>3, <1>4 DEF push_value, Stopped
  <2> HIDE DEF e
  <2> QED BY <1>1, <2>1 DEF e, s
<1>5. CASE ~(tk.type = "ID_TOK" /\ ~id_inuse(st, FullId(tk, fileid)))
  <2>1. e = [r EXCEPT !.vals = Append(@, v), !.last_is_value = TRUE]
    BY <1>3, <1>5 DEF push_value
  <2>2. Append(<<>>, v) = <<v>>
    OBVIOUS
  <2> HIDE DEF e, v
  <2>3. e = [r EXCEPT !.vals = <<v>>, !.last_is_value = TRUE]
    BY <1>1, <2>1, <2>2
  <2>4. OneValue(e, v)
    BY <1>1, <2>3 DEF OneValue
  <2> QED BY <1>5, <2>4 DEF e, s, v
<1> QED BY <1>4, <1>5

LEMMA ValueStays ==
  ASSUME NEW r, NEW v, OneValue(r, v), r.stop = "no", NEW st, NEW fileid,
         NEW tk, tk.type \in Starts \cup {"UINT_TOK", "ID_TOK", "COMMENT_TOK"}
  PROVE  OneValue(ResolveToken(r, tk, st, fileid), v)
<1> DEFINE q == [r EXCEPT !.n = @ + 1, !.parsed = @ + 1]
           e == ResolveToken(r, tk, st, fileid)
<1>1. /\ DOMAIN r = {"n", "stop", "ops", "vals", "parsed", "last_is_value", "inside_paren",
                     "inside_offset", "found"}
      /\ r.ops = <<>> /\ r.vals = <<v>> /\ r.last_is_value /\ ~r.inside_offset /\ ~r.inside_paren
      /\ r.stop = "no"
  BY DEF OneValue
<1>2. OneValue(q, v)
  BY <1>1 DEF OneValue
<1>3. ASSUME NEW x, OneValue(x, v), NEW how \in {"end", "exit"} PROVE OneValue(Stopped(x, how), v)
  BY <1>3 DEF OneValue, Stopped
<1>4. CASE tk.type \in Starts
  <2>1. e = Stopped(r, "end")
    BY <1>4 DEF ResolveToken, Starts, Operators, Values, Counted
  <2> QED BY <1>3, <2>1
<1>5. CASE tk.type = "COMMENT_TOK"
  <2>1. e = q
    BY <1>5 DEF ResolveToken, Starts, Operators, Values, Counted
  <2> QED BY <1>2, <2>1
<1>6. CASE tk.type \in {"UINT_TOK", "ID_TOK"}
  <2>1. e = ResolveValue(q, tk, st, fileid)
    BY <1>6 DEF ResolveToken, Starts, Operators, Values, Counted
  <2> HIDE DEF q, e
  <2>2. e = IF q.parsed # 2 THEN Stopped(q, "exit") ELSE [Stopped(q, "end") EXCEPT !.n = @ - 1]
    BY <1>2, <2>1 DEF ResolveValue, OneValue
  <2>3. ASSUME NEW x, OneValue(x, v) PROVE OneValue([x EXCEPT !.n = @ - 1], v)
    BY <2>3 DEF OneValue
  <2>4. OneValue(Stopped(q, "exit"), v) /\ OneValue(Stopped(q, "end"), v)
    BY <1>2, <1>3
  <2>5. OneValue(e, v)
    BY <2>2, <2>3, <2>4
  <2> QED BY <2>5 DEF e
<1> QED BY <1>4, <1>5, <1>6

\* One value on the stack is what the evaluation returns.
LEMMA OneResolved ==
  ASSUME NEW r, NEW v, OneValue(r, v), Resolved(r).stop = "end"
  PROVE  Resolved(r).vals = <<v>>
<1> DEFINE Fields == {"n", "stop", "ops", "vals", "parsed", "last_is_value", "inside_paren",
                      "inside_offset", "found"}
<1>1. DOMAIN r = Fields /\ r.ops = <<>> /\ r.vals = <<v>> /\ ~r.inside_offset /\ r.stop \in {"no", "end", "exit"}
  BY DEF OneValue
<1>2. r.stop = "end"
  <2>1. r.stop = "no" => Resolved(r).stop = "exception"
    BY <1>1 DEF Resolved, Stopped
  <2>2. r.stop = "exit" => Resolved(r).stop = "exit"
    BY DEF Resolved
  <2> QED BY <1>1, <2>1, <2>2
<1> DEFINE q == [r EXCEPT !.stop = "no"]
           e == EvalUntil(q, "no operator")
<1>3. Resolved(r) = Finished(e)
  BY <1>2 DEF Resolved
<1>4. /\ DOMAIN q = Fields /\ q.ops = <<>> /\ q.vals = <<v>> /\ ~q.inside_offset /\ q.stop = "no"
  BY <1>1
<1> HIDE DEF q
<1>5. e = [q EXCEPT !.found = FALSE]
  <2> DEFINE type == "no operator"
  <2>1. Len(q.ops) = 0 /\ Len(q.ops) \in Nat
    BY <1>4
  <2> HIDE DEF type
  <2>2. \E f : /\ Path(f, "until", type, q, q.ops, Len(q.ops))
               /\ EvalUntil(q, type) = [f[Len(q.ops)] EXCEPT !.found = FALSE]
    BY <2>1, EvaluationWalked
  <2>3. PICK f : f[0] = q /\ EvalUntil(q, type) = [f[0] EXCEPT !.found = FALSE]
    BY <2>1, <2>2 DEF Path
  <2> QED BY <2>3 DEF type
<1> HIDE DEF e
<1>6. DOMAIN e = Fields /\ e.vals = <<v>> /\ ~e.inside_offset /\ e.stop = "no"
  BY <1>4, <1>5
<1>7. Len(<<v>>) = 1
  OBVIOUS
<1>8. Finished(e) = [Stopped(e, "end") EXCEPT !.n = @ + 1, !.vals = e.vals]
  BY <1>6, <1>7 DEF Finished
<1>9. Finished(e).vals = <<v>>
  <2> DEFINE x == Stopped(e, "end")
             vals == e.vals
  <2>1. DOMAIN x = Fields
    BY <1>6 DEF Stopped
  <2> HIDE DEF x, vals
  <2>2. [x EXCEPT !.n = @ + 1, !.vals = vals].vals = vals
    BY <2>1
  <2> QED BY <1>6, <1>8, <2>2 DEF x, vals
<1> QED BY <1>3, <1>9

LEMMA OperandValue ==
  ASSUME NEW path \in Readable, Plain(path), NEW n \in 1 .. Len(Source(path)), NEW st, NEW fileid,
         Source(path)[n + 1].type \in {"UINT_TOK", "ID_TOK"},
         resolve_uint_operand(Source(path), n, st, fileid).stop = "end"
  PROVE  LET tk == Source(path)[n + 1]
         IN  /\ resolve_uint_operand(Source(path), n, st, fileid).vals = <<ValueOf(tk, st, fileid)>>
             /\ tk.type = "ID_TOK" => id_inuse(st, FullId(tk, fileid))
<1> DEFINE toks == Source(path)
           seq == SubSeq(toks, n + 1, Len(toks))
           len == Len(seq)
           tk == toks[n + 1]
           v == ValueOf(tk, st, fileid)
           start == ResolveStart(n)
           c == [st |-> st, fileid |-> fileid]
           res == resolve_uint_operand(toks, n, st, fileid)
<1>1. IsSequence(toks) /\ Len(toks) \in Nat /\ n \in Nat
  BY SourceIsSequence DEF IsSequence
<1>2. len = Len(toks) - n /\ len \in Nat /\ \A k \in 1 .. len : seq[k] = toks[n + k]
  <2> DEFINE m == n + 1
  <2>1. m \in 1 .. Len(toks) + 1
    BY <1>1
  <2> HIDE DEF m
  <2>2. LET s == SubSeq(toks, m, Len(toks))
        IN  Len(s) = Len(toks) - m + 1 /\ \A k \in 1 .. Len(s) : s[k] = toks[m + k - 1]
    BY <1>1, <2>1, RestOf
  <2>3. len = Len(toks) - m + 1 /\ \A k \in 1 .. len : seq[k] = toks[m + k - 1]
    BY <2>2 DEF m
  <2>4. Len(toks) - m + 1 = Len(toks) - n /\ Len(toks) - n \in Nat
    BY <1>1 DEF m
  <2>5. \A k \in Nat : m + k - 1 = n + k
    BY <1>1 DEF m
  <2> HIDE DEF seq
  <2>6. \A k \in 1 .. len : k \in Nat
    BY <2>3, <2>4
  <2> QED BY <2>3, <2>4, <2>5, <2>6
<1>3. PICK f : Path(f, "resolve", c, start, seq, len) /\ res = Resolved(f[len])
  BY <1>2, ResolveWalked
<1>4. start.stop = "no" /\ f[0] = start
  BY <1>3 DEF Path, ResolveStart
<1>5. res.stop = "end" /\ tk.type \in {"UINT_TOK", "ID_TOK"}
  OBVIOUS
<1>6. ASSUME NEW k \in 1 .. len
      PROVE  f[k] = IF f[k - 1].stop = "no" THEN ResolveToken(f[k - 1], toks[n + k], st, fileid) ELSE f[k - 1]
  <2>1. f[k] = IF f[k - 1].stop = "no" THEN Stepped("resolve", c, f[k - 1], seq[k]) ELSE f[k - 1]
    BY <1>3 DEF Path
  <2>2. \A s, x : Stepped("resolve", c, s, x) = ResolveToken(s, x, st, fileid)
    BY DEF Stepped
  <2>3. seq[k] = toks[n + k]
    BY <1>2
  <2> HIDE DEF seq, len, toks, c
  <2> QED BY <2>1, <2>2, <2>3
<1>7. \A k \in 1 .. len : toks[n + k].type \in Starts \cup {"UINT_TOK", "ID_TOK", "COMMENT_TOK"}
  <2>1. ASSUME NEW k \in 1 .. len PROVE n + k \in 1 .. Len(toks)
    <3> DEFINE all == Len(toks)
    <3>1. n \in Nat /\ all \in Nat /\ len = all - n /\ len \in Nat
      BY <1>1, <1>2
    <3> HIDE DEF all, len, toks, seq
    <3>2. n + k \in 1 .. all
      BY ONLY <3>1, n \in Nat, k \in 1 .. len
    <3> QED BY <3>2 DEF all
  <2> HIDE DEF len
  <2> QED BY <2>1, PlainTokens
<1>8. len >= 1
  <2>1. ASSUME len = 0 PROVE FALSE
    <3>1. res = Resolved(start)
      BY <1>3, <1>4, <2>1
    <3>2. Resolved(start).stop = "exception"
      BY DEF Resolved, Stopped, ResolveStart
    <3> QED BY <1>5, <3>1, <3>2
  <2> QED BY <1>2, <2>1
<1>9. Path(f, "resolve", c, start, seq, len) /\ len \in Nat
  BY <1>2, <1>3
<1> HIDE DEF toks, seq, len, start, c, res
<1>10. f[1] = ResolveToken(start, tk, st, fileid)
  <2>1. 1 \in 1 .. len /\ 1 - 1 = 0
    BY <1>8, <1>9
  <2> QED BY <1>4, <1>6, <2>1
<1>11. f[1].stop = "exit" \/ (OneValue(f[1], v) /\ (tk.type = "ID_TOK" => id_inuse(st, FullId(tk, fileid))))
  BY <1>5, <1>10, FirstValue DEF start
<1>12. f[1].stop # "exit"
  <2> SUFFICES ASSUME f[1].stop = "exit" PROVE FALSE
    OBVIOUS
  <2>1. 1 \in 0 .. len
    BY <1>8, <1>9
  <2>2. f[len] = f[1]
    <3> DEFINE one == 1
               kind == "resolve"
    <3>1. f[one].stop # "no" /\ one \in 0 .. len /\ Path(f, kind, c, start, seq, len)
      BY <1>9, <2>1
    <3> HIDE DEF one, kind
    <3>2. f[len] = f[one]
      BY <1>9, <3>1, PathStops
    <3> QED BY <3>2 DEF one
  <2>3. Resolved(f[len]).stop = "exit"
    BY <2>2 DEF Resolved
  <2> QED BY <1>3, <1>5, <2>3
<1> HIDE DEF v, tk
<1> DEFINE Sat == {k \in 0 .. len : k # 0 => OneValue(f[k], v)}
<1>13. 0 \in Sat
  BY <1>9
<1>14. ASSUME NEW k \in 0 .. len - 1, k \in Sat PROVE k + 1 \in Sat
  <2>1. k + 1 \in 1 .. len /\ k + 1 \in 0 .. len /\ (k + 1) - 1 = k
    BY <1>9
  <2>2. OneValue(f[k + 1], v)
    <3>1. CASE k = 0
      BY <1>11, <1>12, <3>1
    <3>2. CASE k # 0
      <4> DEFINE m == k + 1
      <4>1. OneValue(f[k], v)
        BY <1>14, <3>2
      <4>2. f[m] = IF f[k].stop = "no" THEN ResolveToken(f[k], toks[n + m], st, fileid) ELSE f[k]
        BY <1>6, <2>1
      <4>3. toks[n + m].type \in Starts \cup {"UINT_TOK", "ID_TOK", "COMMENT_TOK"}
        BY <1>7, <2>1
      <4> HIDE DEF m
      <4>4. OneValue(f[m], v)
        BY <4>1, <4>2, <4>3, ValueStays
      <4> QED BY <4>4 DEF m
    <3> QED BY <3>1, <3>2
  <2> QED BY <2>1, <2>2
<1>15. 0 .. len \subseteq Sat
  <2> HIDE DEF Sat
  <2> QED BY <1>9, <1>13, <1>14, StepInduction
<1>16. OneValue(f[len], v)
  BY <1>8, <1>9, <1>15
<1>17. res.vals = <<v>>
  BY <1>3, <1>5, <1>16, OneResolved
<1> QED BY <1>11, <1>12, <1>17 DEF res, v, tk, toks

\* What an instruction gets for its only operand.
LEMMA OperandsValue ==
  ASSUME AsmsInv, Plain(main.path), NEW n \in 1 .. Len(main.toks),
         main.toks[n + 1].type \in {"UINT_TOK", "ID_TOK"},
         ResolveOperands(n, 1).stop = "no", NEW first, Tells(main.symtab.vec, main.path, first)
  PROVE  ResolveOperands(n, 1).vals = <<MeaningAt(main.path, main.toks[n + 1], first)>>
<1> DEFINE toks == main.toks
           tk == toks[n + 1]
           start == [n |-> n, stop |-> "no", vals |-> <<>>]
           st == main.symtab
           fileid == FileId(main.path)
           q == resolve_uint_operand(toks, n, st, fileid)
           s == ResolveOperands(n, 1)
<1>1. main.path \in Readable /\ toks = Source(main.path) /\ IsTable(st)
  BY AsmIsOne DEF IsAsm
<1>2. PICK f : Path(f, "next", 1, start, [k \in 1 .. 1 |-> k], 1) /\ s = f[1]
  BY NextWalked
<1>3. start.n = n /\ start.stop = "no" /\ start.vals = <<>> /\ DOMAIN start = {"n", "stop", "vals"}
  OBVIOUS
<1>4. f[1] = ResolveNext(start, 1)
  <2>1. f[0] = start /\ f[1] = IF f[0].stop = "no" THEN Stepped("next", 1, f[0], [k \in 1 .. 1 |-> k][1]) ELSE f[0]
    BY <1>2 DEF Path
  <2> HIDE DEF start
  <2> QED BY <1>3, <2>1 DEF Stepped
<1> HIDE DEF start
<1>5. s = TakeOperand(start, q)
  BY <1>2, <1>3, <1>4 DEF ResolveNext
<1>6. s.stop = "no"
  OBVIOUS
<1> HIDE DEF s, q
<1>7. q.stop = "end"
  <2> SUFFICES ASSUME q.stop # "end" PROVE FALSE
    OBVIOUS
  <2>1. s = [start EXCEPT !.stop = q.stop]
    BY <1>5 DEF TakeOperand
  <2>2. s.stop = q.stop
    BY <1>3, <2>1
  <2>3. q.stop # "no"
    <3>1. IsSequence(toks) /\ n \in 1 .. Len(toks) + 1
      <4>1. IsSequence(toks) /\ Len(toks) \in Nat /\ n \in 1 .. Len(toks)
        BY <1>1, SourceIsSequence DEF IsSequence
      <4> HIDE DEF toks
      <4> QED BY <4>1
    <3> HIDE DEF toks
    <3> QED BY <3>1, OperandEnds DEF q, Refusals
  <2> QED BY <1>6, <2>2, <2>3
<1>8. q.vals = <<ValueOf(tk, st, fileid)>> /\ (tk.type = "ID_TOK" => id_inuse(st, FullId(tk, fileid)))
  BY <1>1, <1>7, OperandValue DEF q
<1>9. ValueOf(tk, st, fileid).val = MeaningAt(main.path, tk, first)
  <2>1. tk.type \in {"UINT_TOK", "ID_TOK"}
    OBVIOUS
  <2> HIDE DEF tk
  <2> QED BY <1>1, <1>8, <2>1, ValueTells
<1> HIDE DEF tk, st, fileid, toks
<1> DEFINE m == MeaningAt(main.path, tk, first)
           vals == Append(start.vals, m)
<1>10. s = [start EXCEPT !.n = q.n, !.vals = vals]
  <2>1. q.vals[1].val = m
    BY <1>8, <1>9
  <2> HIDE DEF m
  <2> QED BY <1>5, <1>7, <2>1 DEF TakeOperand
<1>11. vals = <<m>>
  BY <1>3
<1> HIDE DEF vals, m
<1>12. s.vals = vals
  BY <1>3, <1>10
<1> QED BY <1>11, <1>12 DEF s, m, tk, toks

-----------------------------------------------------------------------------
(* The table of a plain file, from the first pass to the last step.        *)

\* The table tells what the tokens before n define.
LEMMA MacroTells ==
  ASSUME AsmsInv, asm.path \in Readable, Plain(asm.path), NEW n \in 1 .. Len(asm.toks),
         asm.toks[n].type = "MACRO_DEF_TOK", DefineMacro(asm, n), ~Stops,
         NEW first, Tells(asm.symtab.vec, asm.path, first)
  PROVE  \E st : /\ Becomes([asm EXCEPT !.toknum = n + 3, !.symtab = st])
                 /\ Tells(st.vec, asm.path, first)
<1> DEFINE path == asm.path
           toks == asm.toks
           name == toks[n + 1]
           value == toks[n + 2]
           sym == Symbol("MACRO_SYMBOL", SymbolId(name.v), NumberTypes[value.type],
                         IF value.type \in {"ID_TOK", "STRING_TOK"} THEN Unknown ELSE value.v)
           st == create_new_symbol(asm.symtab, sym)
<1>1. IsTable(asm.symtab) /\ toks = Source(path) /\ Len(toks) \in Nat /\ n \in Nat
  BY AsmIsOne, NumbersOfAsm
<1>2. ~Ends("exception") /\ ~Ends("exit")
  BY DEF Stops, Errors
<1>3. /\ ~Missing(n + 1) /\ name.type = "ID_TOK"
      /\ Becomes([asm EXCEPT !.toknum = n + 3, !.symtab = create_new_symbol(@, sym)])
  BY <1>2 DEF DefineMacro
<1>4. [asm EXCEPT !.toknum = n + 3, !.symtab = create_new_symbol(@, sym)]
        = [asm EXCEPT !.toknum = n + 3, !.symtab = st]
  <2> HIDE DEF sym
  <2> QED OBVIOUS
<1>5. value.type = "UINT_TOK"
  BY <1>1, PlainTokens
<1> DEFINE d == n + 1
<1>6. d \in 1 .. Len(toks) /\ d - 1 = n /\ d > 1 /\ d + 1 = n + 2
  BY <1>1, <1>3 DEF Missing
<1>7. sym = [type |-> "MACRO_SYMBOL", id |-> NameFrom(path, name.v), val_type |-> "UINT_TYPE", val |-> value.v]
  <2>1. SymbolId(name.v) = NameFrom(path, name.v)
    BY DEF SymbolId, NameFrom
  <2>2. NumberTypes[value.type] = "UINT_TYPE" /\ value.type \notin {"ID_TOK", "STRING_TOK"}
    BY <1>5 DEF NumberTypes
  <2> QED BY <2>1, <2>2 DEF Symbol
<1>8. Describes(sym, path, d, first)
  <2>1. Defining(toks, d)
    BY <1>6 DEF Defining
  <2>2. toks[d] = name /\ toks[d + 1] = value
    BY <1>6
  <2> HIDE DEF d, name, value, sym
  <2>3. toks[d].type # "LABEL_DEF_TOK" /\ sym.type = "MACRO_SYMBOL" /\ sym.val_type = "UINT_TYPE"
        /\ sym.val = toks[d + 1].v /\ sym.id = NameFrom(path, toks[d].v)
    BY <1>3, <1>7, <2>2
  <2> QED BY <1>1, <1>6, <2>1, <2>3 DEF Describes
<1>9. Tells(st.vec, path, first)
  <2> HIDE DEF sym, d
  <2> QED BY <1>1, <1>8, CreateTells
<1> QED BY <1>3, <1>4, <1>9

\* A round of the first pass, in a plain program.
LEMMA FirstPassTells ==
  ASSUME AsmsInv, FirstPass, ~Stops, Len(asms) = 1, Plain(main.path),
         main.imports = <<>>, main.next_byte_addr = main.prog_size, Tells(main.symtab.vec, main.path, 0),
         CountedTo(main.toks, main.instr_count, main.prog_size, main.toknum - 1)
  PROVE  main'.imports = <<>> /\ main'.next_byte_addr = main'.prog_size /\ Tells(main'.symtab.vec, main.path, 0)
<1> DEFINE n == asm.toknum
           toks == asm.toks
           path == asm.path
           Same(b) == b.imports = <<>> /\ b.next_byte_addr = b.prog_size /\ Tells(b.symtab.vec, path, 0)
<1>1. asm = main /\ IsSequence(asms) /\ IsAsm(asm)
  BY AsmIsOne DEF asm, main, Last, AsmsInv
<1>2. SUFFICES \E b : Becomes(b) /\ Same(b)
  <2>1. ASSUME NEW b, Becomes(b) PROVE main' = b
    <3>1. asms' = Append(Front(asms), b)
      BY <2>1 DEF Becomes
    <3>2. Len(asms) >= 1
      OBVIOUS
    <3>3. Len(Append(Front(asms), b)) = Len(asms) /\ Append(Front(asms), b)[Len(asms)] = b
      BY <1>1, <3>2, ReplaceLast
    <3> QED BY <3>1, <3>3 DEF main
  <2> QED BY <1>1, <2>1
<1>3. ~Ends("exit") /\ ~Ends("exception") /\ ~Ends("spinning")
  BY DEF Errors, Stops
<1>4. Plain(path) /\ path \in Readable /\ toks = Source(path) /\ Len(toks) \in Nat /\ Same(asm)
      /\ n \in Nat /\ n >= 1 /\ asm.prog_size \in Nat /\ IsTable(asm.symtab) /\ DOMAIN asm = AsmFields
  BY <1>1, NumbersOfAsm DEF IsAsm
<1>5. ASSUME n <= Len(toks)
      PROVE  /\ n \in 1 .. Len(toks) /\ toks[n].type # "IMPORT_DEF_TOK"
             /\ toks[n].type = "OPCODE_TOK" => toks[n].v \in DOMAIN OperandCount
  <2>1. n \in 1 .. Len(toks)
    BY <1>4, <1>5
  <2>2. /\ toks[n].type \in Starts \cup {"UINT_TOK", "ID_TOK", "COMMENT_TOK"}
        /\ toks[n].type = "OPCODE_TOK" => toks[n].v \in DOMAIN OperandCount
    BY <1>4, <2>1, PlainTokens
  <2> QED BY <2>1, <2>2 DEF Starts
<1>6. CountedTo(Source(path), asm.instr_count, asm.prog_size, n - 1)
  BY <1>1, <1>4
<1> HIDE DEF Same
<1>7. CASE OpcodeTok
  <2> DEFINE count == OperandCount[toks[n].v]
             s == CountOperands(toks, n, count)
             size == OPCODE_SIZE + UINT_SIZE * count
             b == [asm EXCEPT !.toknum = s.n, !.instr_count = @ + 1, !.prog_size = @ + size,
                              !.next_byte_addr = @ + size]
  <2>1. /\ n <= Len(toks) /\ toks[n].type = "OPCODE_TOK" /\ toks[n].v \in DOMAIN OperandCount
        /\ IF s.stop # "no" THEN Ends(s.stop) ELSE Becomes(b)
    BY <1>7 DEF OpcodeTok, InFirstPass, tok
  <2>2. count \in Nat /\ n \in 1 .. Len(toks) /\ IsSequence(toks)
    BY <1>4, <1>5, <2>1, Counts, SourceIsSequence
  <2> HIDE DEF count, size, toks, n
  <2>3. s.stop \in {"no", "exit", "exception"}
    BY <2>2, OperandsCounted
  <2> HIDE DEF s
  <2>4. Becomes(b)
    BY <1>3, <2>1, <2>3
  <2>5. /\ b.symtab = asm.symtab /\ b.imports = asm.imports
        /\ b.prog_size = asm.prog_size + size /\ b.next_byte_addr = asm.next_byte_addr + size
    BY <1>4, ChangesOfAsm
  <2> HIDE DEF b
  <2>6. Same(b)
    BY <1>4, <2>5 DEF Same
  <2> QED BY <2>4, <2>6
<1>8. CASE MacroDefTok
  <2>1. n <= Len(toks) /\ toks[n].type = "MACRO_DEF_TOK" /\ DefineMacro(asm, n)
    BY <1>8 DEF MacroDefTok, InFirstPass
  <2>2. n \in 1 .. Len(toks) /\ Tells(asm.symtab.vec, path, 0)
    BY <1>4, <1>5, <2>1 DEF Same
  <2>3. PICK st : /\ Becomes([asm EXCEPT !.toknum = n + 3, !.symtab = st])
                  /\ Tells(st.vec, path, 0)
    BY <1>4, <2>1, <2>2, MacroTells
  <2> DEFINE t == n + 3
             b == [asm EXCEPT !.toknum = t, !.symtab = st]
  <2>4. Becomes(b)
    BY <2>3
  <2> HIDE DEF t
  <2>5. b.symtab = st /\ b.imports = asm.imports /\ b.prog_size = asm.prog_size
        /\ b.next_byte_addr = asm.next_byte_addr
    BY <1>4, ChangesOfAsm
  <2> HIDE DEF b
  <2>6. Same(b)
    BY <1>4, <2>3, <2>5 DEF Same
  <2> QED BY <2>4, <2>6
<1>9. CASE LabelDefTok
  <2> DEFINE sym == Symbol("LABEL_SYMBOL", SymbolId(tok.v), "UINT_TYPE", asm.next_byte_addr)
             st == create_new_symbol(asm.symtab, sym)
             t == n + 1
             b == [asm EXCEPT !.toknum = t, !.symtab = st]
  <2>1. /\ n <= Len(toks) /\ toks[n].type = "LABEL_DEF_TOK"
        /\ Becomes([asm EXCEPT !.toknum = @ + 1, !.symtab = create_new_symbol(@, sym)])
    BY <1>3, <1>9 DEF LabelDefTok, InFirstPass
  <2>2. n \in 1 .. Len(toks)
    BY <1>5, <2>1
  <2>3. sym = [type |-> "LABEL_SYMBOL", id |-> NameFrom(path, toks[n].v), val_type |-> "UINT_TYPE",
               val |-> asm.next_byte_addr]
    BY DEF Symbol, SymbolId, NameFrom, tok
  <2>4. asm.next_byte_addr = 0 + SizeBefore(toks, n)
    <3>1. n - 1 \in 0 .. Len(Source(path)) /\ (n - 1) + 1 = n
      BY <1>4, <2>2
    <3>2. asm.prog_size = SizeBefore(Source(path), (n - 1) + 1)
      BY <1>4, <1>6, <3>1, CountedIsBefore
    <3>3. asm.next_byte_addr = SizeBefore(toks, n)
      BY <1>4, <3>1, <3>2 DEF Same
    <3> HIDE DEF n, toks
    <3> QED BY <1>4, <3>3 DEF Same
  <2>5. Describes(sym, path, n, 0)
    <3>1. Defining(toks, n)
      BY <2>1 DEF Defining
    <3> HIDE DEF sym, n
    <3>2. sym.type = "LABEL_SYMBOL" /\ sym.val = 0 + SizeBefore(toks, n) /\ sym.id = NameFrom(path, toks[n].v)
      BY <2>3, <2>4
    <3> QED BY <1>4, <2>1, <2>2, <3>1, <3>2 DEF Describes
  <2> HIDE DEF sym
  <2>6. Tells(st.vec, path, 0)
    <3>1. Tells(asm.symtab.vec, path, 0)
      BY <1>4 DEF Same
    <3> DEFINE zero == 0
    <3>2. Tells(asm.symtab.vec, path, zero) /\ Describes(sym, path, n, zero)
      BY <2>5, <3>1
    <3> HIDE DEF zero, n
    <3>3. Tells(st.vec, path, zero)
      BY <1>4, <3>2, CreateTells
    <3> QED BY <3>3 DEF zero
  <2>7. [asm EXCEPT !.toknum = @ + 1, !.symtab = create_new_symbol(@, sym)] = b
    BY Zenon
  <2>8. Becomes(b)
    BY <2>1, <2>7
  <2> HIDE DEF st, t
  <2>9. b.symtab = st /\ b.imports = asm.imports /\ b.prog_size = asm.prog_size
        /\ b.next_byte_addr = asm.next_byte_addr
    BY <1>4, ChangesOfAsm
  <2> HIDE DEF b
  <2>10. Same(b)
    BY <1>4, <2>6, <2>9 DEF Same
  <2> QED BY <2>8, <2>10
<1>10. CASE SkippedTok
  <2> DEFINE t == n + 1
             b == [asm EXCEPT !.toknum = t]
  <2>1. Becomes([asm EXCEPT !.toknum = @ + 1])
    BY <1>10 DEF SkippedTok
  <2>2. [asm EXCEPT !.toknum = @ + 1] = b
    BY Zenon
  <2> HIDE DEF t
  <2>3. b.symtab = asm.symtab /\ b.imports = asm.imports /\ b.prog_size = asm.prog_size
        /\ b.next_byte_addr = asm.next_byte_addr
    BY <1>4, ChangesOfAsm
  <2> HIDE DEF b
  <2>4. Same(b)
    BY <1>4, <2>3 DEF Same
  <2> QED BY <2>1, <2>2, <2>4
<1>11. ~ValueTok /\ ~StrayTok
  BY <1>3 DEF ValueTok, StrayTok
<1>12. ~ImportDefTok /\ ~UnlistedOpcodeTok
  BY <1>5 DEF ImportDefTok, UnlistedOpcodeTok, InFirstPass, tok
<1>13. ~ImportReturns
  BY DEF ImportReturns
<1> QED BY <1>7, <1>8, <1>9, <1>10, <1>11, <1>12, <1>13 DEF FirstPass

LEMMA WithNoImports ==
  ASSUME NEW a, a.imports = <<>>
  PROVE  WithImports(a) = a.symtab
<1> DEFINE P(g) == g = [k \in 0 .. Len(a.imports) |->
                          IF k = 0 THEN a.symtab ELSE import_symtab(g[k - 1], a.imports[k].symtab)]
           merged == CHOOSE g : P(g)
<1>1. Len(a.imports) = 0
  OBVIOUS
<1>2. WithImports(a) = merged[Len(a.imports)]
  BY DEF WithImports
<1>3. P([k \in 0 .. 0 |-> a.symtab])
  BY <1>1
<1>4. P(merged)
  BY <1>3
<1> HIDE DEF merged
<1>5. merged[0] = a.symtab
  BY <1>1, <1>4
<1> QED BY <1>1, <1>2, <1>5

\* What holds of a plain program: there is nothing to import, labels are numbered
\* as room is reserved, and the table tells what the file defines, from the end of
\* the first instructions' header on with the addresses of the file.
TellsInv ==
    Plain(main.path) /\ at \notin Errors =>
        /\ main.imports = <<>>
        /\ at = "first_stage_pass" => main.next_byte_addr = main.prog_size
        /\ at \in EarlySteps => Tells(main.symtab.vec, main.path, 0)
        /\ at \in {"build_im_form"} \cup LateSteps =>
               Tells(main.symtab.vec, main.path, metadata.first_instr_addr)

LEMMA TellsInvInit ==
  ASSUME Init
  PROVE  TellsInv
<1>1. PICK path \in MainPaths, keep \in BOOLEAN : asms = <<NewAssembler(path, keep)>>
  BY DEF Init
<1>2. main = NewAssembler(path, keep) /\ at = "first_stage_pass"
  BY <1>1 DEF main, Init
<1>3. /\ main.imports = <<>> /\ main.next_byte_addr = 0 /\ main.prog_size = 0
      /\ main.symtab = NewSymbolTable(keep)
  BY <1>2 DEF NewAssembler
<1>4. Tells(main.symtab.vec, main.path, 0)
  BY <1>3, NewTells
<1> QED BY <1>2, <1>3, <1>4 DEF TellsInv, LateSteps

\* The table and the first instruction's address, when the one becomes final.
LEMMA FinaliseTells ==
  ASSUME Lengths, AsmInv, SizeInv, HeaderInv, TellsInv, Finalise, Plain(main.path)
  PROVE  Tells(main'.symtab.vec, main.path, metadata.first_instr_addr)
<1> DEFINE st == main.symtab
           final == finalise(st, metadata)
           size == Sized(st)
           first == metadata.first_instr_addr
<1>1. at = "finalise" /\ asms' = <<[main EXCEPT !.symtab = final, !.toknum = 1]>>
  BY DEF Finalise
<1>2. Assembling /\ at \notin Errors /\ at \in EarlySteps /\ at \in HeaderSteps
  BY <1>1 DEF Assembling, Errors, EarlySteps, HeaderSteps
<1>3. IsTable(st) /\ main.path \in Readable /\ DOMAIN main = AsmFields
  BY <1>2, TheMain DEF AsmInv
<1>4. Tells(st.vec, main.path, 0)
  BY <1>2 DEF TellsInv
<1>5. first = Aligned(METADATA_SIZE + st.bytestream_size) /\ st.bytestream_size = size /\ Measured(st)
  BY <1>1, <1>2 DEF HeaderInv, SizeInv
<1>6. size \in Nat /\ (~st.keep_symbols => size = 0)
  BY <1>3, <1>5, SizedIsMeasured
<1>7. main'.symtab = final
  <2> HIDE DEF final
  <2> QED BY <1>1, <1>3 DEF main, AsmFields
<1> HIDE DEF size, first
<1>8. first \in Nat /\ first = METADATA_SIZE + (IF st.keep_symbols THEN Aligned(size) ELSE 0)
  <2>1. first = Aligned(METADATA_SIZE + size)
    BY <1>5
  <2>2. Aligned(METADATA_SIZE + size) = METADATA_SIZE + Aligned(size) /\ Aligned(size) \in Nat
    BY <1>6 DEF Aligned, METADATA_SIZE
  <2>3. size = 0 => Aligned(size) = 0
    BY DEF Aligned
  <2>4. METADATA_SIZE \in Nat
    BY DEF METADATA_SIZE
  <2> QED BY <1>6, <2>1, <2>2, <2>3, <2>4
<1> HIDE DEF st, final
<1>9. Tells(final.vec, main.path, first)
  BY <1>3, <1>4, <1>8, FinalTells DEF final, st, size
<1> QED BY <1>7, <1>9 DEF first

LEMMA TellsInvNext ==
  ASSUME Lengths, AsmInv, SizeInv, HeaderInv, PassInv, TellsInv, [Next]_vars
  PROVE  TellsInv'
<1> DEFINE first == metadata.first_instr_addr
<1>1. AsmsInv /\ PathsInv
  BY DEF AsmInv
<1>2. SUFFICES ASSUME Plain(main'.path), at' \notin Errors
               PROVE  /\ main'.imports = <<>>
                      /\ at' = "first_stage_pass" => main'.next_byte_addr = main'.prog_size
                      /\ at' \in EarlySteps => Tells(main'.symtab.vec, main'.path, 0)
                      /\ at' \in {"build_im_form"} \cup LateSteps => Tells(main'.symtab.vec, main'.path, first')
  BY DEF TellsInv
<1>3. CASE UNCHANGED vars
  BY <1>2, <1>3 DEF vars, TellsInv, main
<1>4. ~Stops
  BY <1>2 DEF Stops, Ends
<1>5. CASE FirstPass
  <2>1. main'.path = main.path
    BY <1>1, <1>5, MainStays
  <2>2. at = "first_stage_pass" /\ at' \in {"first_stage_pass"} \cup Errors
    BY <1>1, <1>5, FirstPassStays
  <2>3. at \notin Errors /\ at \in EarlySteps /\ at' \notin {"build_im_form"} \cup LateSteps
    BY <1>2, <2>2 DEF Errors, EarlySteps, LateSteps
  <2>4. OfOneFile(main.toks)
    BY <1>1, <1>2, <2>1, AsmIsOne, PlainFile DEF IsAsm
  <2>5. /\ Len(asms) = 1
        /\ CountedTo(main.toks, main.instr_count, main.prog_size, main.toknum - 1)
    BY <2>2, <2>4 DEF PassInv
  <2>6. main.imports = <<>> /\ main.next_byte_addr = main.prog_size /\ Tells(main.symtab.vec, main.path, 0)
    BY <1>2, <2>1, <2>2, <2>3 DEF TellsInv
  <2>7. main'.imports = <<>> /\ main'.next_byte_addr = main'.prog_size /\ Tells(main'.symtab.vec, main.path, 0)
    BY <1>1, <1>2, <1>4, <1>5, <2>1, <2>5, <2>6, FirstPassTells
  <2> QED BY <2>1, <2>3, <2>7
<1>6. CASE AssembleMain
  <2>1. main'.path = main.path /\ main'.imports = main.imports
    BY <1>1, <1>6, CountsStay DEF Kept
  <2>2. at \notin Errors
    BY <1>6 DEF AssembleMain, MergeImportSymbols, FirstPassOver, AllocBytestream, BuildMetadata, Finalise,
                BuildInstr, BuildUnlistedInstr, Building, SkipOther, ImFormBuilt, MergeImportList,
                WriteProgToBytes, Errors
  <2>3. /\ main.imports = <<>>
        /\ at \in EarlySteps => Tells(main.symtab.vec, main.path, 0)
        /\ at \in {"build_im_form"} \cup LateSteps => Tells(main.symtab.vec, main.path, first)
    BY <1>2, <2>1, <2>2 DEF TellsInv
  <2>4. WithImports(main) = main.symtab
    BY <2>3, WithNoImports
  <2>5. SUFFICES /\ at' # "first_stage_pass"
                 /\ at' \in EarlySteps => Tells(main'.symtab.vec, main.path, 0)
                 /\ at' \in {"build_im_form"} \cup LateSteps => Tells(main'.symtab.vec, main.path, first')
    BY <2>1, <2>3
  <2>6. CASE Finalise
    <3>1. at' = "build_im_form" /\ metadata' = metadata
      BY <2>6 DEF Finalise, output
    <3>2. Tells(main'.symtab.vec, main.path, first)
      BY <1>2, <2>1, <2>6, FinaliseTells
    <3> QED BY <3>1, <3>2 DEF EarlySteps
  <2>7. ASSUME NEW b, MergesSymbols(b)
        PROVE  at' # "first_stage_pass" /\ at' \in EarlySteps /\ Tells(main'.symtab.vec, main.path, 0)
    <3>1. at = "first_stage_pass" /\ at' = "alloc_bytestream" /\ main' = b /\ b.symtab.vec = main.symtab.vec
      BY <1>1, <2>4, <2>7, OneMain DEF MergesSymbols, FirstPassOver
    <3> QED BY <2>3, <3>1 DEF EarlySteps
  <2>8. ASSUME NEW b, Builds(b) \/ Skips(b) \/ MergesList(b)
        PROVE  /\ at' \in {"build_im_form"} \cup LateSteps /\ at' \notin EarlySteps
               /\ Tells(main'.symtab.vec, main.path, first')
    <3>1. /\ at \in {"build_im_form"} \cup LateSteps /\ at' \in {"build_im_form"} \cup LateSteps
          /\ main' = b /\ b.symtab = main.symtab /\ metadata' = metadata
      BY <1>1, <2>4, <2>8, OneMain DEF Builds, Skips, MergesList, LateSteps, output
    <3> QED BY <2>3, <3>1 DEF EarlySteps, LateSteps
  <2>9. CASE BuildsUnlisted
    <3>1. at = "build_im_form" /\ at' = at /\ main' = main /\ metadata' = metadata
      BY <2>9 DEF BuildsUnlisted, main
    <3> QED BY <2>3, <3>1 DEF EarlySteps
  <2>10. CASE Rests
    <3>1. main' = main
      BY <2>10 DEF Rests, main
    <3>2. CASE AllocBytestream \/ BuildMetadata
      BY <2>3, <3>1, <3>2 DEF AllocBytestream, BuildMetadata, EarlySteps, LateSteps
    <3>3. CASE ImFormBuilt
      <4>1. at = "build_im_form" /\ at' = "merge_import_list"
            /\ metadata' = [metadata EXCEPT !.instr_count = Len(instr_vec)]
        BY <3>3 DEF ImFormBuilt
      <4>2. first' = first
        BY <4>1 DEF HeaderInv, HeaderSteps, MetadataFields
      <4> QED BY <2>3, <3>1, <4>1, <4>2 DEF EarlySteps
    <3>4. CASE WriteProgToBytes
      BY <1>4, <2>3, <3>1, <3>4 DEF WriteProgToBytes, EarlySteps, LateSteps, Stops, Errors
    <3> QED BY <2>10, <3>2, <3>3, <3>4 DEF Rests
  <2>11. ASSUME NEW b, Finalises(b) PROVE Finalise
    <3>1. at = "finalise"
      BY <2>11 DEF Finalises
    <3> QED BY <1>6, <3>1 DEF AssembleMain, MergeImportSymbols, FirstPassOver, AllocBytestream, BuildMetadata,
               BuildInstr, BuildUnlistedInstr, Building, SkipOther, ImFormBuilt, MergeImportList, WriteProgToBytes
  <2>12. BuildsUnlisted \/ Rests
         \/ \E b : MergesSymbols(b) \/ Finalises(b) \/ Builds(b) \/ Skips(b) \/ MergesList(b)
    BY <1>1, <1>4, <1>6, SecondPassSteps
  <2>13. EarlySteps \cap ({"build_im_form"} \cup LateSteps) = {} /\ "first_stage_pass" \in EarlySteps
    BY DEF EarlySteps, LateSteps
  <2> QED BY <2>6, <2>7, <2>8, <2>9, <2>10, <2>11, <2>12, <2>13
<1> QED BY <1>3, <1>5, <1>6 DEF Next

-----------------------------------------------------------------------------
(* The instructions of a plain file, and where they are written.           *)

\* Between opcodes the size before a token stays the same.
LEMMA BeforeIsFlat ==
  ASSUME NEW toks, Len(toks) \in Nat, DOMAIN toks = 1 .. Len(toks),
         NEW n \in 1 .. Len(toks) + 1, NEW t \in n .. Len(toks) + 1,
         \A m \in n .. t - 1 : toks[m].type # "OPCODE_TOK"
  PROVE  SizeBefore(toks, t) = SizeBefore(toks, n)
<1> DEFINE len == Len(toks)
           Sat == {k \in 0 .. len : n + k <= t => SizeBefore(toks, n + k) = SizeBefore(toks, n)}
<1>1. \A m \in 1 .. len : toks[m].type # "OPCODE_TOK" => SizeBefore(toks, m + 1) = SizeBefore(toks, m)
  BY SizesBefore
<1>2. 0 \in Sat
  <2>1. n + 0 = n
    OBVIOUS
  <2> QED BY <2>1
<1>3. ASSUME NEW k \in 0 .. len - 1, k \in Sat PROVE k + 1 \in Sat
  <2>1. k + 1 \in 0 .. len
    OBVIOUS
  <2>2. ASSUME n + (k + 1) <= t PROVE SizeBefore(toks, n + (k + 1)) = SizeBefore(toks, n)
    <3> DEFINE m == n + k
    <3>1. m \in 1 .. len /\ m \in n .. t - 1 /\ n + k <= t /\ n + (k + 1) = m + 1
      BY <2>2
    <3>2. SizeBefore(toks, m) = SizeBefore(toks, n)
      BY <1>3, <3>1
    <3> HIDE DEF m, len
    <3>3. SizeBefore(toks, m + 1) = SizeBefore(toks, m)
      BY <1>1, <3>1
    <3> QED BY <3>1, <3>2, <3>3
  <2> QED BY <2>1, <2>2
<1>4. 0 .. len \subseteq Sat
  <2> HIDE DEF Sat, len
  <2> QED BY <1>2, <1>3, StepInduction DEF len
<1>5. t - n \in 0 .. len /\ n + (t - n) = t
  OBVIOUS
<1>6. t - n \in Sat
  BY <1>4, <1>5
<1> QED BY <1>5, <1>6

\* The addresses of the instructions, when the first stands at first.
Places(g, instrs, first) ==
    /\ g[0] = first
    /\ \A k \in 1 .. Len(instrs) : g[k] = g[k - 1] + opsize_tbl[instrs[k].opcode]

\* The words of an instruction are within its size.
Fits(instr) ==
    /\ instr.opcode \in DOMAIN opsize_tbl
    /\ instr.vals # <<>> => opsize_tbl[instr.opcode] >= 2 * OPCODE_SIZE

\* instr is what token n of the file stands for.
Means(instr, path, n, first) ==
    LET op == Source(path)[n].v
    IN  /\ instr.opcode = op
        /\ OperandCount[op] = 1 => instr.vals = <<MeaningAt(path, Source(path)[n + 1], first)>>

\* The instructions are those of the opcodes before token t, in their places.
BuiltAs(path, instrs, first, t) ==
    LET toks == Source(path)
    IN  /\ \A k \in 1 .. Len(instrs) : Fits(instrs[k])
        /\ \A g : Places(g, instrs, first) =>
              /\ g[Len(instrs)] = first + SizeBefore(toks, t)
              /\ \A n \in 1 .. t - 1 :
                    toks[n].type = "OPCODE_TOK" =>
                        \E k \in 1 .. Len(instrs) :
                            g[k - 1] = first + SizeBefore(toks, n) /\ Means(instrs[k], path, n, first)

\* One more instruction, or another token passed.
LEMMA BuiltAsOn ==
  ASSUME NEW path \in Readable, Plain(path), NEW first \in Nat, NEW n \in 1 .. Len(Source(path)),
         NEW t \in n + 1 .. Len(Source(path)) + 1,
         \A m \in n + 1 .. t - 1 : Source(path)[m].type # "OPCODE_TOK",
         NEW instrs, IsSequence(instrs), NEW instrs2, BuiltAs(path, instrs, first, n),
         \/ Source(path)[n].type # "OPCODE_TOK" /\ instrs2 = instrs
         \/ /\ Source(path)[n].type = "OPCODE_TOK"
            /\ \E instr : instrs2 = Append(instrs, instr) /\ Means(instr, path, n, first)
                          /\ IsSequence(instr.vals) /\ Len(instr.vals) = OperandCount[Source(path)[n].v]
  PROVE  BuiltAs(path, instrs2, first, t)
<1> DEFINE toks == Source(path)
<1>1. Len(toks) \in Nat /\ DOMAIN toks = 1 .. Len(toks) /\ Len(instrs) \in Nat
  BY SourceIsSequence DEF IsSequence
<1>2. n \in Nat /\ t \in Nat /\ n + 1 \in 1 .. Len(toks) + 1 /\ n \in 1 .. Len(toks) + 1
  BY <1>1
<1>3. SizeBefore(toks, t) = SizeBefore(toks, n + 1)
  <2> DEFINE m == n + 1
  <2>1. m \in 1 .. Len(toks) + 1 /\ t \in m .. Len(toks) + 1
        /\ \A k \in m .. t - 1 : toks[k].type # "OPCODE_TOK"
    BY <1>2
  <2> HIDE DEF m, toks
  <2>2. SizeBefore(toks, t) = SizeBefore(toks, m)
    BY <1>1, <2>1, BeforeIsFlat
  <2> QED BY <2>2 DEF m
<1>4. SizeBefore(toks, n + 1) = IF toks[n].type = "OPCODE_TOK"
                                THEN SizeBefore(toks, n) + opsize_tbl[toks[n].v] ELSE SizeBefore(toks, n)
  BY <1>1, SizesBefore
<1>5. SizeBefore(toks, n) \in Nat
  BY <1>2, BeforeIsNumber
<1>6. \A k \in 1 .. t - 1 : k \in 1 .. n - 1 \/ k = n \/ k \in n + 1 .. t - 1
  BY <1>2
<1>7. toks[n].type = "OPCODE_TOK" =>
         /\ toks[n].v \in DOMAIN opsize_tbl
         /\ opsize_tbl[toks[n].v] = Size(OperandCount[toks[n].v])
         /\ OperandCount[toks[n].v] \in {0, 1}
  BY PlainTokens
<1>8. /\ \A k \in 1 .. Len(instrs) : Fits(instrs[k])
      /\ \A g : Places(g, instrs, first) =>
            /\ g[Len(instrs)] = first + SizeBefore(toks, n)
            /\ \A p \in 1 .. n - 1 :
                  toks[p].type = "OPCODE_TOK" =>
                      \E k \in 1 .. Len(instrs) :
                          g[k - 1] = first + SizeBefore(toks, p) /\ Means(instrs[k], path, p, first)
  BY DEF BuiltAs
<1>9. CASE toks[n].type # "OPCODE_TOK" /\ instrs2 = instrs
  BY <1>3, <1>4, <1>6, <1>8, <1>9 DEF BuiltAs
<1>10. CASE /\ toks[n].type = "OPCODE_TOK"
            /\ \E instr : instrs2 = Append(instrs, instr) /\ Means(instr, path, n, first)
                          /\ IsSequence(instr.vals) /\ Len(instr.vals) = OperandCount[toks[n].v]
  <2>1. PICK instr : instrs2 = Append(instrs, instr) /\ Means(instr, path, n, first)
                     /\ IsSequence(instr.vals) /\ Len(instr.vals) = OperandCount[toks[n].v]
    BY <1>10
  <2> DEFINE len == Len(instrs)
             op == toks[n].v
  <2>2. /\ Len(instrs2) = len + 1 /\ instrs2[len + 1] = instr
        /\ \A i \in 1 .. len : instrs2[i] = instrs[i]
    BY <2>1, AppendKeeps
  <2>3. instr.opcode = op
    BY <2>1 DEF Means
  <2>4. Fits(instr)
    <3>1. instr.vals # <<>> => OperandCount[op] # 0
      <4>1. CASE OperandCount[op] = 0
        <5>1. IsSequence(instr.vals) /\ Len(instr.vals) = 0
          BY <2>1, <4>1
        <5>2. instr.vals = <<>>
          BY <5>1 DEF IsSequence
        <5> QED BY <5>2
      <4> QED BY <4>1
    <3>2. OperandCount[op] = 1 => opsize_tbl[op] >= 2 * OPCODE_SIZE
      BY <1>7, <1>10 DEF Size, OPCODE_SIZE, UINT_SIZE
    <3> QED BY <1>7, <1>10, <2>3, <3>1, <3>2 DEF Fits
  <2> HIDE DEF len, toks, op
  <2>5. len \in Nat /\ \A k \in 1 .. len + 1 : k \in 1 .. len \/ k = len + 1
    BY <1>1 DEF len
  <2>6. \A k \in 1 .. Len(instrs2) : Fits(instrs2[k])
    BY <1>8, <2>2, <2>4, <2>5 DEF len
  <2>7. ASSUME NEW g, Places(g, instrs2, first)
        PROVE  /\ g[Len(instrs2)] = first + SizeBefore(toks, t)
               /\ \A p \in 1 .. t - 1 :
                     toks[p].type = "OPCODE_TOK" =>
                         \E k \in 1 .. Len(instrs2) :
                             g[k - 1] = first + SizeBefore(toks, p) /\ Means(instrs2[k], path, p, first)
    <3>1. len + 1 \in 1 .. Len(instrs2) /\ (len + 1) - 1 = len /\ \A k \in 1 .. len : k \in 1 .. Len(instrs2)
      BY <2>2, <2>5
    <3>2. g[0] = first /\ \A k \in 1 .. Len(instrs2) : g[k] = g[k - 1] + opsize_tbl[instrs2[k].opcode]
      BY <2>7 DEF Places
    <3>3. Places(g, instrs, first)
      BY <2>2, <3>1, <3>2 DEF Places, len
    <3>4. g[len] = first + SizeBefore(toks, n)
      BY <1>8, <3>3 DEF len
    <3>5. g[len + 1] = g[len] + opsize_tbl[op]
      BY <2>2, <2>3, <3>1, <3>2
    <3>6. opsize_tbl[op] \in Nat
      BY <1>7, <1>10, SizesAreNumbers DEF op
    <3>7. SizeBefore(toks, t) = SizeBefore(toks, n) + opsize_tbl[op]
      BY <1>3, <1>4, <1>10 DEF op
    <3>8. g[len + 1] = first + SizeBefore(toks, t)
      <4> DEFINE s == SizeBefore(toks, n)
                 o == opsize_tbl[op]
                 e == SizeBefore(toks, t)
      <4>1. s \in Nat /\ o \in Nat /\ e = s + o /\ g[len + 1] = (first + s) + o
        BY <1>5, <3>4, <3>5, <3>6, <3>7
      <4> HIDE DEF s, o, e
      <4>2. g[len + 1] = first + e
        BY <4>1
      <4> QED BY <4>2 DEF e
    <3>9. ASSUME NEW p \in 1 .. t - 1, toks[p].type = "OPCODE_TOK"
          PROVE  \E k \in 1 .. Len(instrs2) :
                     g[k - 1] = first + SizeBefore(toks, p) /\ Means(instrs2[k], path, p, first)
      <4>1. CASE p = n
        <5>1. g[(len + 1) - 1] = first + SizeBefore(toks, p) /\ Means(instrs2[len + 1], path, p, first)
          BY <2>1, <2>2, <3>1, <3>4, <4>1
        <5> QED BY <3>1, <5>1
      <4>2. CASE p \in 1 .. n - 1
        <5>1. PICK k \in 1 .. len : g[k - 1] = first + SizeBefore(toks, p) /\ Means(instrs[k], path, p, first)
          BY <1>8, <3>3, <3>9, <4>2 DEF len
        <5> QED BY <2>2, <3>1, <5>1
      <4> QED BY <1>6, <3>9, <4>1, <4>2 DEF toks
    <3> QED BY <2>2, <3>8, <3>9
  <2> QED BY <2>6, <2>7 DEF BuiltAs, toks
<1> QED BY <1>9, <1>10

\* The bytes of an instruction, from addr on.
StandsAt(block, instr, addr) ==
    /\ addr \in DOMAIN block /\ block[addr] = Byte(instr.opcode, 0)
    /\ instr.vals # <<>> =>
           \A k \in 0 .. UINT_SIZE - 1 :
               LET b == addr + OPCODE_SIZE + k
               IN  b \in DOMAIN block /\ block[b] = Byte(Last(instr.vals), k)

\* Every instruction stands in its place: none is written over another.
LEMMA AllAreWritten ==
  ASSUME NEW instrs, Len(instrs) \in Nat, NEW first \in Nat, \A k \in 1 .. Len(instrs) : Fits(instrs[k])
  PROVE  \E g : /\ Places(g, instrs, first)
                /\ \A k \in 1 .. Len(instrs) :
                      StandsAt(Written(instrs, first).block, instrs[k], g[k - 1])
<1> DEFINE n == Len(instrs)
           size(k) == opsize_tbl[instrs[k].opcode]
<1>1. PICK f : /\ Written(instrs, first) = f[n]
               /\ f[0] = [bf |-> first, block |-> <<>>]
               /\ \A k \in 1 .. n :
                     /\ f[k].bf = f[k - 1].bf + size(k)
                     /\ f[k].block = Serialised(f[k - 1].block, instrs[k], f[k - 1].bf)
  BY WrittenWalked
<1> DEFINE g == [k \in 0 .. n |-> f[k].bf]
<1>2. n \in Nat /\ \A k \in 0 .. n - 1 : k + 1 \in 1 .. n /\ k + 1 \in 0 .. n /\ (k + 1) - 1 = k /\ k \in 0 .. n
  OBVIOUS
<1>3. \A k \in 0 .. n : g[k] = f[k].bf
  OBVIOUS
<1>4. \A k \in 1 .. n : k \in 0 .. n /\ k - 1 \in 0 .. n
  BY <1>2
<1>5. ASSUME NEW k \in 1 .. n
      PROVE  /\ g[k] = g[k - 1] + size(k) /\ size(k) \in Nat /\ size(k) >= 4
             /\ f[k].block = Serialised(f[k - 1].block, instrs[k], g[k - 1])
             /\ instrs[k].vals # <<>> => size(k) >= 2 * OPCODE_SIZE
  <2>1. instrs[k].opcode \in DOMAIN opsize_tbl /\ (instrs[k].vals # <<>> => size(k) >= 2 * OPCODE_SIZE)
    BY DEF Fits
  <2> HIDE DEF g, n
  <2> QED BY <1>1, <1>3, <1>4, <2>1, SizesAreNumbers
<1>6. 0 \in 0 .. n
  BY <1>2
<1>7. g[0] = first
  BY <1>1, <1>3, <1>6
<1> HIDE DEF g, n
<1>8. Places(g, instrs, first)
  BY <1>5, <1>7 DEF Places, n
<1> HIDE DEF size
<1>9. ASSUME NEW block, NEW instr, NEW addr \in Nat
      PROVE  StandsAt(Serialised(block, instr, addr), instr, addr)
  <2> DEFINE operand == IF instr.vals = <<>> THEN {} ELSE OperandBytes(addr)
             r == Serialised(block, instr, addr)
             D == DOMAIN block \cup {addr} \cup operand
             a == addr + OPCODE_SIZE
  <2>1. r = [b \in D |-> IF b = addr THEN Byte(instr.opcode, 0)
                         ELSE IF b \in operand THEN Byte(Last(instr.vals), b - a)
                         ELSE block[b]]
    BY DEF Serialised
  <2>2. \A b \in operand : b # addr
    BY DEF OperandBytes, OPCODE_SIZE
  <2>3. ASSUME NEW k \in 0 .. UINT_SIZE - 1, instr.vals # <<>>
        PROVE  a + k \in operand /\ (a + k) - a = k
    BY <2>3 DEF OperandBytes, OPCODE_SIZE, UINT_SIZE
  <2> HIDE DEF r, operand, a
  <2>4. addr \in DOMAIN r /\ r[addr] = Byte(instr.opcode, 0)
    BY <2>1
  <2>5. ASSUME NEW k \in 0 .. UINT_SIZE - 1, instr.vals # <<>>
        PROVE  a + k \in DOMAIN r /\ r[a + k] = Byte(Last(instr.vals), k)
    <3> DEFINE b == a + k
    <3>1. b \in operand /\ b # addr /\ b - a = k
      BY <2>2, <2>3, <2>5
    <3> HIDE DEF b
    <3>2. b \in DOMAIN r /\ r[b] = Byte(Last(instr.vals), b - a)
      BY <2>1, <3>1
    <3> QED BY <3>1, <3>2 DEF b
  <2> QED BY <2>4, <2>5 DEF StandsAt, r, a
<1>10. ASSUME NEW block, NEW instr, NEW addr \in Nat, NEW i, NEW a \in Nat, NEW s \in Nat,
              StandsAt(block, i, a), s >= 4, i.vals # <<>> => s >= 2 * OPCODE_SIZE, a + s <= addr
       PROVE  StandsAt(Serialised(block, instr, addr), i, a)
  <2> DEFINE r == Serialised(block, instr, addr)
  <2>1. \A b \in DOMAIN block : b # addr /\ b \notin OperandBytes(addr) => b \in DOMAIN r /\ r[b] = block[b]
    BY DEF Serialised
  <2>2. a # addr /\ a \notin OperandBytes(addr)
    BY <1>10 DEF OperandBytes, OPCODE_SIZE
  <2>3. ASSUME NEW k \in 0 .. UINT_SIZE - 1, i.vals # <<>>
        PROVE  a + OPCODE_SIZE + k # addr /\ a + OPCODE_SIZE + k \notin OperandBytes(addr)
    BY <1>10, <2>3 DEF OperandBytes, OPCODE_SIZE, UINT_SIZE
  <2> HIDE DEF r
  <2>4. StandsAt(r, i, a)
    BY <1>10, <2>1, <2>2, <2>3 DEF StandsAt
  <2> QED BY <2>4 DEF r
<1> DEFINE Good(j) == /\ g[j] \in Nat
                      /\ \A k \in 1 .. j : /\ g[k - 1] \in Nat /\ g[k - 1] + size(k) <= g[j]
                                           /\ StandsAt(f[j].block, instrs[k], g[k - 1])
           Sat == {j \in 0 .. n : Good(j)}
<1>11. 0 \in Sat
  BY <1>6, <1>7
<1>12. ASSUME NEW j \in 0 .. n - 1, j \in Sat PROVE j + 1 \in Sat
  <2> DEFINE m == j + 1
  <2>1. m \in 1 .. n /\ m \in 0 .. n /\ m - 1 = j /\ \A k \in 1 .. m : k \in 1 .. j \/ k = m
    BY <1>2
  <2>2. Good(j)
    BY <1>12
  <2> HIDE DEF m
  <2>3. /\ g[m] = g[j] + size(m) /\ size(m) \in Nat
        /\ f[m].block = Serialised(f[j].block, instrs[m], g[j])
    BY <1>5, <2>1
  <2>4. g[j] \in Nat /\ g[m] \in Nat /\ g[j] <= g[m]
    BY <2>2, <2>3
  <2>5. ASSUME NEW k \in 1 .. m
        PROVE  /\ g[k - 1] \in Nat /\ g[k - 1] + size(k) <= g[m]
               /\ StandsAt(f[m].block, instrs[k], g[k - 1])
    <3>1. CASE k = m
      BY <1>9, <2>1, <2>3, <2>4, <3>1
    <3>2. CASE k \in 1 .. j
      <4>1. /\ g[k - 1] \in Nat /\ g[k - 1] + size(k) <= g[j]
            /\ StandsAt(f[j].block, instrs[k], g[k - 1])
        BY <2>2, <3>2
      <4>2. size(k) \in Nat /\ size(k) >= 4 /\ (instrs[k].vals # <<>> => size(k) >= 2 * OPCODE_SIZE)
        <5>1. k \in 1 .. n
          BY <1>2, <3>2
        <5> QED BY <1>5, <5>1
      <4>3. StandsAt(f[m].block, instrs[k], g[k - 1])
        <5> DEFINE a == g[k - 1]
                   i == instrs[k]
                   s == size(k)
                   addr == g[j]
        <5>1. a \in Nat /\ s \in Nat /\ addr \in Nat /\ StandsAt(f[j].block, i, a) /\ s >= 4
              /\ (i.vals # <<>> => s >= 2 * OPCODE_SIZE) /\ a + s <= addr
          BY <2>4, <4>1, <4>2
        <5> HIDE DEF a, i, s, addr
        <5>2. StandsAt(Serialised(f[j].block, instrs[m], addr), i, a)
          BY <1>10, <5>1
        <5> QED BY <2>3, <5>2 DEF a, i, addr
      <4>4. g[k - 1] + size(k) <= g[m]
        <5> DEFINE x == g[k - 1] + size(k)
                   y == g[j]
                   z == g[m]
        <5>1. x \in Nat /\ y \in Nat /\ z \in Nat /\ x <= y /\ y <= z
          BY <2>4, <4>1, <4>2
        <5> HIDE DEF x, y, z
        <5>2. x <= z
          BY <5>1
        <5> QED BY <5>2 DEF x, z
      <4> QED BY <4>1, <4>3, <4>4
    <3> QED BY <2>1, <3>1, <3>2
  <2>6. Good(m)
    BY <2>4, <2>5
  <2> QED BY <2>1, <2>6 DEF m
<1>13. Good(n)
  <2> HIDE DEF Good
  <2>1. 0 .. n \subseteq Sat
    <3> HIDE DEF Sat
    <3> QED BY <1>2, <1>11, <1>12, StepInduction
  <2> QED BY <1>2, <2>1
<1> QED BY <1>1, <1>8, <1>13 DEF n

\* The second pass builds what the tokens stand for, and in the end the file holds it.
FileInv ==
    LET toks == main.toks
        first == metadata.first_instr_addr
    IN  Plain(main.path) =>
            /\ at = "build_im_form" => BuiltAs(main.path, instr_vec, first, main.toknum)
            /\ at \in LateSteps => BuiltAs(main.path, instr_vec, first, Len(toks) + 1)
            /\ at = "done" => bytes = WithinFile(Written(instr_vec, first).block)

\* The first instruction's address is a number.
LEMMA FirstIsNumber ==
  ASSUME AsmInv, SizeInv, HeaderInv, at \in HeaderSteps
  PROVE  metadata.first_instr_addr \in Nat
<1> DEFINE size == main.symtab.bytestream_size
<1>1. Assembling
  BY DEF Assembling, Errors, HeaderSteps
<1>2. metadata.first_instr_addr = Aligned(METADATA_SIZE + size) /\ size \in Nat
  BY <1>1 DEF HeaderInv, SizeInv, Measured
<1> HIDE DEF size
<1> QED BY <1>2 DEF Aligned, METADATA_SIZE

\* The instruction of an opcode is what the opcode stands for.
LEMMA InstrMeans ==
  ASSUME AsmInv, SizeInv, HeaderInv, PassInv, TellsInv, FileInv, BuildInstr, ~Stops, Plain(main.path)
  PROVE  at' = "build_im_form" /\ BuiltAs(main.path, instr_vec', metadata.first_instr_addr, main'.toknum)
<1> DEFINE path == main.path
           toks == Source(path)
           n == main.toknum
           count == OperandCount[toks[n].v]
           s == ResolveOperands(n, count)
           t == main'.toknum
           instr == [opcode |-> toks[n].v, vals |-> s.vals]
           first == metadata.first_instr_addr
<1>1. at = "build_im_form"
  BY DEF BuildInstr, Building
<1>2. /\ Assembling /\ at \notin Errors /\ at \in HeaderSteps /\ AsmsInv
  BY <1>1 DEF Assembling, Errors, HeaderSteps, AsmInv
<1>3. main.toks = toks /\ path \in Readable /\ Len(toks) \in Nat
  BY <1>2, TheMain
<1>4. OfOneFile(main.toks)
  BY <1>3, PlainFile
<1>5. /\ CountedTo(main.toks, main.instr_count, main.prog_size, Len(main.toks))
      /\ ListedTo(main.toks, n - 1) /\ IsSequence(instr_vec)
  BY <1>1, <1>2, <1>4 DEF PassInv, BuiltTo
<1>6. /\ at' = at
      /\ n \in 1 .. Len(toks) /\ toks[n].type = "OPCODE_TOK" /\ toks[n].v \in DOMAIN OperandCount
      /\ s.stop = "no" /\ IsSequence(s.vals) /\ Len(s.vals) = count
      /\ instr_vec' = Append(instr_vec, instr)
      /\ t \in n + 1 .. Len(toks) + 1
      /\ \A m \in n + 1 .. t - 1 : toks[m].type # "OPCODE_TOK"
  BY <1>2, <1>3, <1>5, InstrBuilt
<1>7. BuiltAs(path, instr_vec, first, n)
  BY <1>1 DEF FileInv
<1>8. first \in Nat /\ Tells(main.symtab.vec, path, first)
  BY <1>1, <1>2, FirstIsNumber DEF TellsInv
<1>9. count = 1 => toks[n + 1].type \in {"UINT_TOK", "ID_TOK"}
  BY <1>3, <1>6, PlainTokens
<1>10. count = 1 => s.vals = <<MeaningAt(path, toks[n + 1], first)>>
  <2> SUFFICES ASSUME count = 1 PROVE s.vals = <<MeaningAt(path, toks[n + 1], first)>>
    OBVIOUS
  <2>1. s = ResolveOperands(n, 1)
    OBVIOUS
  <2>2. n \in 1 .. Len(main.toks) /\ main.toks[n + 1].type \in {"UINT_TOK", "ID_TOK"}
        /\ ResolveOperands(n, 1).stop = "no"
    BY <1>3, <1>6, <1>9, <2>1
  <2> HIDE DEF n, first, s
  <2>3. ResolveOperands(n, 1).vals = <<MeaningAt(main.path, main.toks[n + 1], first)>>
    BY <1>2, <1>8, <2>2, OperandsValue
  <2> QED BY <1>3, <2>1, <2>3
<1>11. Means(instr, path, n, first)
  BY <1>10 DEF Means
<1>12. IsSequence(instr.vals) /\ Len(instr.vals) = count
  BY <1>6
<1> HIDE DEF instr, s
<1>13. \E i : Append(instr_vec, instr) = Append(instr_vec, i) /\ Means(i, path, n, first)
               /\ IsSequence(i.vals) /\ Len(i.vals) = OperandCount[toks[n].v]
  BY <1>11, <1>12
<1>14. Plain(path)
  OBVIOUS
<1> HIDE DEF path, n, t, count, first
<1>15. BuiltAs(path, Append(instr_vec, instr), first, t)
  BY <1>3, <1>5, <1>6, <1>7, <1>8, <1>13, <1>14, BuiltAsOn
<1> QED BY <1>1, <1>6, <1>15 DEF path, first, t

\* Another token is passed over.
LEMMA SkipMeans ==
  ASSUME AsmInv, SizeInv, HeaderInv, PassInv, FileInv, SkipOther, Plain(main.path)
  PROVE  BuiltAs(main.path, instr_vec, metadata.first_instr_addr, main'.toknum)
<1> DEFINE path == main.path
           toks == Source(path)
           n == main.toknum
           b == [main EXCEPT !.toknum = n + 1]
           first == metadata.first_instr_addr
<1>1. at = "build_im_form" /\ n <= Len(main.toks) /\ tok.type # "OPCODE_TOK"
  BY DEF SkipOther
<1>2. /\ Assembling /\ at \in HeaderSteps /\ AsmsInv
  BY <1>1 DEF Assembling, Errors, HeaderSteps, AsmInv
<1>3. /\ main.toks = toks /\ path \in Readable /\ Len(toks) \in Nat /\ asm = main /\ n \in 1 .. Len(toks)
      /\ DOMAIN main = AsmFields
  BY <1>1, <1>2, TheMain
<1>4. tok = toks[n]
  BY <1>3 DEF tok
<1>5. OfOneFile(toks) /\ DOMAIN toks = 1 .. Len(toks)
  BY <1>3, PlainFile, SourceIsSequence
<1>6. toks[n].type # "IMPORT_DEF_TOK"
  BY <1>3, <1>5 DEF OfOneFile
<1>7. asms' = <<b>>
  BY <1>4, <1>6 DEF SkipOther
<1>8. main'.toknum = n + 1
  <2>1. b.toknum = n + 1
    BY <1>3 DEF AsmFields
  <2> HIDE DEF b
  <2> QED BY <1>7, <2>1 DEF main
<1>9. IsSequence(instr_vec) /\ BuiltAs(path, instr_vec, first, n) /\ first \in Nat
  BY <1>1, <1>2, <1>3, <1>5, FirstIsNumber DEF PassInv, FileInv
<1> DEFINE t == n + 1
<1>10. t \in n + 1 .. Len(toks) + 1 /\ \A m \in n + 1 .. t - 1 : toks[m].type # "OPCODE_TOK"
  BY <1>3
<1>11. Plain(path) /\ toks[n].type # "OPCODE_TOK"
  BY <1>1, <1>4
<1> HIDE DEF path, n, t, first
<1>12. BuiltAs(path, instr_vec, first, t)
  BY <1>3, <1>9, <1>10, <1>11, BuiltAsOn
<1> QED BY <1>8, <1>12 DEF path, n, t, first

LEMMA FileInvNext ==
  ASSUME Lengths, AsmInv, SizeInv, HeaderInv, PassInv, TellsInv, FileInv, [Next]_vars
  PROVE  FileInv'
<1> DEFINE path == main.path
           first == metadata.first_instr_addr
<1>1. AsmsInv /\ PathsInv
  BY DEF AsmInv
<1>2. CASE UNCHANGED vars
  BY <1>2 DEF vars, FileInv, WithinFile, main
<1>3. CASE FirstPass
  <2>1. at' \in {"first_stage_pass"} \cup Errors
    BY <1>1, <1>3, FirstPassStays
  <2> QED BY <2>1 DEF FileInv, Errors, LateSteps
<1>4. CASE Stops
  BY <1>4 DEF Stops, Ends, FileInv, Errors, LateSteps
<1>5. CASE AssembleMain /\ ~Stops
  <2>1. main'.path = path /\ main'.toks = main.toks
    BY <1>1, <1>5, CountsStay DEF Kept
  <2>2. SUFFICES ASSUME Plain(path)
                 PROVE  /\ at' = "build_im_form" => BuiltAs(path, instr_vec', first', main'.toknum)
                        /\ at' \in LateSteps => BuiltAs(path, instr_vec', first', Len(main.toks) + 1)
                        /\ at' = "done" =>
                               /\ metadata' = metadata
                               /\ bytes' = WithinFile(Written(instr_vec', first').block)
    BY <2>1 DEF FileInv, WithinFile
  <2>3. CASE MergeImportSymbols \/ AllocBytestream \/ BuildMetadata
    <3>1. at' \in {"alloc_bytestream", "build_imform_metadata", "finalise"}
      BY <1>5, <2>3 DEF MergeImportSymbols, AllocBytestream, BuildMetadata, Stops, Errors
    <3> QED BY <3>1 DEF LateSteps
  <2>4. CASE Finalise
    <3> DEFINE st == finalise(main.symtab, metadata)
               b == [main EXCEPT !.symtab = st, !.toknum = 1]
    <3>1. at = "finalise" /\ asms' = <<b>> /\ at' = "build_im_form" /\ UNCHANGED <<metadata, instr_vec>>
      BY <2>4 DEF Finalise, output
    <3>2. Assembling /\ at \in EarlySteps /\ at \in HeaderSteps
      BY <3>1 DEF Assembling, Errors, EarlySteps, HeaderSteps
    <3>3. DOMAIN main = AsmFields /\ path \in Readable /\ main.toks = Source(path)
          /\ Len(Source(path)) \in Nat /\ DOMAIN Source(path) = 1 .. Len(Source(path))
      BY <1>1, <3>2, TheMain, SourceIsSequence
    <3> HIDE DEF st
    <3>4. b.toknum = 1
      BY <3>3 DEF AsmFields
    <3> HIDE DEF b
    <3>5. main'.toknum = 1
      BY <3>1, <3>4 DEF main
    <3>6. instr_vec = <<>>
      BY <2>2, <3>2, <3>3, PlainFile DEF PassInv
    <3>7. first \in Nat /\ SizeBefore(Source(path), 1) = 0
      BY <3>2, <3>3, FirstIsNumber, SizesBefore
    <3>8. BuiltAs(path, <<>>, first, 1)
      <4> HIDE DEF first, path
      <4>1. first + SizeBefore(Source(path), 1) = first
        BY <3>7
      <4> QED BY <4>1 DEF BuiltAs, Places
    <3> QED BY <3>1, <3>5, <3>6, <3>8 DEF LateSteps
  <2>5. CASE BuildInstr
    <3>1. at' = "build_im_form" /\ BuiltAs(path, instr_vec', first, main'.toknum)
      BY <1>5, <2>2, <2>5, InstrMeans
    <3>2. metadata' = metadata
      BY <1>5, <2>5, <3>1 DEF BuildInstr, Ends, output
    <3> QED BY <3>1, <3>2 DEF LateSteps
  <2>6. CASE BuildUnlistedInstr
    <3>1. at = "build_im_form" /\ main.toknum <= Len(main.toks) /\ tok.type = "OPCODE_TOK"
          /\ tok.v \notin DOMAIN OperandCount
      BY <2>6 DEF BuildUnlistedInstr, Building
    <3>2. asm = main /\ main.toknum \in 1 .. Len(main.toks) /\ path \in Readable /\ main.toks = Source(path)
      BY <1>1, <3>1, TheMain DEF Assembling, Errors
    <3>3. main.toks[main.toknum].type = "OPCODE_TOK" => main.toks[main.toknum].v \in DOMAIN OperandCount
      BY <2>2, <3>2, PlainTokens
    <3> QED BY <3>1, <3>2, <3>3 DEF tok
  <2>7. CASE SkipOther
    <3>1. at' = "build_im_form" /\ instr_vec' = instr_vec /\ metadata' = metadata
      BY <2>7 DEF SkipOther, output
    <3>2. BuiltAs(path, instr_vec, first, main'.toknum)
      BY <2>2, <2>7, SkipMeans
    <3> QED BY <3>1, <3>2 DEF LateSteps
  <2>8. CASE ImFormBuilt
    <3>1. at = "build_im_form" /\ main.toknum > Len(main.toks) /\ at' = "merge_import_list"
          /\ instr_vec' = instr_vec /\ metadata' = [metadata EXCEPT !.instr_count = Len(instr_vec)]
      BY <2>8 DEF ImFormBuilt
    <3>2. first' = first
      BY <3>1 DEF HeaderInv, HeaderSteps, MetadataFields
    <3>3. main.toknum = Len(main.toks) + 1
      <4>1. Len(main.toks) \in Nat /\ main.toknum \in 1 .. Len(main.toks) + 1
        BY <1>1, <3>1, TheMain DEF Assembling, Errors
      <4> QED BY <3>1, <4>1
    <3>4. BuiltAs(path, instr_vec, first, Len(main.toks) + 1)
      BY <2>2, <3>1, <3>3 DEF FileInv
    <3> QED BY <3>1, <3>2, <3>4
  <2>9. CASE MergeImportList \/ WriteProgToBytes
    <3>1. /\ at \in LateSteps /\ at' \in LateSteps /\ instr_vec' = instr_vec /\ metadata' = metadata
          /\ at' = "done" => bytes' = WithinFile(Written(instr_vec, first).block)
      BY <1>5, <2>9 DEF MergeImportList, WriteProgToBytes, LateSteps, output, Stops, Errors
    <3>2. BuiltAs(path, instr_vec, first, Len(main.toks) + 1)
      BY <2>2, <3>1 DEF FileInv
    <3> QED BY <3>1, <3>2 DEF LateSteps
  <2> QED BY <1>5, <2>3, <2>4, <2>5, <2>6, <2>7, <2>8, <2>9 DEF AssembleMain
<1> QED BY <1>2, <1>3, <1>4, <1>5 DEF Next

\* The file that is written says what the source says, for every plain program:
\* each opcode stands at the address that the sizes of those before it make up, and
\* behind it the number, the macro's number or the label's address, in all of its
\* bytes but the program's last ones, as many as the padding of the symbols has.
THEOREM FileIsAsWrittenHolds ==
  ASSUME Lengths
  PROVE  Spec => []FileIsAsWritten
<1> DEFINE Inv == SizeInv /\ HeaderInv /\ PassInv /\ TellsInv /\ FileInv
<1>1. Init => Inv
  <2>1. Init => SizeInv /\ HeaderInv /\ FileInv
    BY DEF Init, SizeInv, HeaderInv, HeaderSteps, Assembling, FileInv, LateSteps
  <2> QED BY <2>1, PassInvInit, TellsInvInit
<1>2. AsmInv /\ Inv /\ [Next]_vars => Inv'
  <2> SUFFICES ASSUME AsmInv, Inv, [Next]_vars PROVE Inv'
    OBVIOUS
  <2>1. SizeInv' /\ HeaderInv'
    BY SizeInvNext, HeaderInvNext
  <2>2. PassInv'
    BY PassInvNext
  <2>3. TellsInv'
    BY TellsInvNext
  <2>4. FileInv'
    BY FileInvNext
  <2> QED BY <2>1, <2>2, <2>3, <2>4
<1>3. AsmInv /\ Inv => FileIsAsWritten
  <2> DEFINE path == main.path
             toks == main.toks
             first == metadata.first_instr_addr
  <2>1. SUFFICES ASSUME AsmInv, Inv, at = "done", Plain(path), NEW n \in OpcodesIn(toks)
                 PROVE  /\ Holds(AddressOf(toks, n), Byte(toks[n].v, 0))
                        /\ OperandCount[toks[n].v] = 1 =>
                               \A k \in 0 .. UINT_SIZE - 1 :
                                   LET b == AddressOf(toks, n) + OPCODE_SIZE + k
                                   IN  Holds(b, Byte(Meaning(path, toks[n + 1]), k)) \/ LostToPadding(b)
    BY DEF FileIsAsWritten
  <2>2. at \in LateSteps /\ at \in HeaderSteps /\ Assembling /\ AsmsInv
    BY <2>1 DEF LateSteps, HeaderSteps, Assembling, Errors, AsmInv
  <2>3. /\ path \in Readable /\ toks = Source(path) /\ Len(toks) \in Nat
        /\ DOMAIN toks = 1 .. Len(toks)
    BY <2>2, TheMain, SourceIsSequence
  <2>4. n \in 1 .. Len(toks) /\ toks[n].type = "OPCODE_TOK" /\ n \in 1 .. (Len(toks) + 1) - 1
    <3>1. n \in 1 .. Len(toks) /\ toks[n].type = "OPCODE_TOK"
      BY <2>3 DEF OpcodesIn
    <3> QED BY <2>3, <3>1
  <2> DEFINE block == Written(instr_vec, first).block
             end == metadata.mem_size
  <2>5. BuiltAs(path, instr_vec, first, Len(toks) + 1) /\ bytes = WithinFile(block)
    BY <2>1, <2>2 DEF FileInv
  <2>6. /\ first = LoaderStart /\ first \in Nat /\ SymbolsEnd \in Nat
        /\ SymbolsEnd <= first /\ first <= SymbolsEnd + 3
        /\ end = SymbolsEnd + main.prog_size /\ main.prog_size \in Nat
    BY <2>1, <2>2, FileEnds
  <2>15. /\ Len(instr_vec) \in Nat
         /\ CountedTo(toks, main.instr_count, main.prog_size, Len(toks))
    BY <2>1, <2>2, <2>3, PlainFile DEF PassInv, IsSequence
  <2>16. main.prog_size = SizeBefore(toks, Len(toks) + 1)
    <3>1. Len(toks) \in 0 .. Len(toks)
      BY <2>3
    <3> QED BY <2>1, <2>3, <2>15, <3>1, CountedIsBefore
  <2>17. /\ opsize_tbl[toks[n].v] = Size(OperandCount[toks[n].v])
         /\ OperandCount[toks[n].v] \in {0, 1}
         /\ SizeBefore(toks, n) \in Nat
         /\ SizeBefore(toks, n) + opsize_tbl[toks[n].v] <= main.prog_size
    BY <2>1, <2>3, <2>4, <2>16, PlainTokens, BeforeIsNumber, BeforeGrows
  <2>18. \A b, x : b \in DOMAIN block /\ block[b] = x /\ b < end => Holds(b, x)
    <3> HIDE DEF block
    <3> QED BY <2>5 DEF WithinFile, Restrict, Holds
  <2> HIDE DEF path, toks, first, block, end
  <2>7. PICK g : /\ Places(g, instr_vec, first)
                 /\ \A k \in 1 .. Len(instr_vec) : StandsAt(block, instr_vec[k], g[k - 1])
    BY <2>5, <2>6, <2>15, AllAreWritten DEF BuiltAs, block
  <2>8. PICK k \in 1 .. Len(instr_vec) :
            g[k - 1] = first + SizeBefore(toks, n) /\ Means(instr_vec[k], path, n, first)
    BY <2>3, <2>4, <2>5, <2>7 DEF BuiltAs
  <2> DEFINE addr == g[k - 1]
             instr == instr_vec[k]
             op == toks[n].v
             word == MeaningAt(path, toks[n + 1], first)
  <2>9. addr = AddressOf(toks, n) /\ addr = first + SizeBefore(toks, n)
    BY <2>8 DEF AddressOf, first
  <2>10. StandsAt(block, instr, addr)
    BY <2>7
  <2>11. instr.opcode = op /\ (OperandCount[op] = 1 => instr.vals = <<word>>)
    BY <2>3, <2>8 DEF Means
  <2>12. word = Meaning(path, toks[n + 1])
    BY DEF MeaningAt, Meaning, AddressOf, first
  <2> HIDE DEF addr, instr, op, word
  <2>13. Last(<<word>>) = word /\ <<word>> # <<>>
    BY DEF Last
  <2> DEFINE size == main.prog_size
  <2>14. /\ addr \in Nat /\ addr + 4 + 4 * OperandCount[op] <= first + size
         /\ OperandCount[op] \in {0, 1}
    <3> DEFINE before == SizeBefore(toks, n)
               count == OperandCount[op]
               needs == opsize_tbl[toks[n].v]
    <3>1. /\ addr = first + before /\ first \in Nat /\ before \in Nat /\ size \in Nat
          /\ needs = Size(count) /\ count \in {0, 1} /\ before + needs <= size
      BY <2>6, <2>9, <2>17 DEF op
    <3> HIDE DEF before, count, needs, size
    <3>2. addr \in Nat /\ addr + 4 + 4 * count <= first + size
      BY <3>1 DEF Size, OPCODE_SIZE, UINT_SIZE
    <3> QED BY <3>1, <3>2 DEF count
  <2> HIDE DEF size
  <2>19. /\ first = LoaderStart /\ first \in Nat /\ SymbolsEnd \in Nat /\ size \in Nat
         /\ SymbolsEnd <= first /\ first <= SymbolsEnd + 3 /\ end = SymbolsEnd + size
    BY <2>6 DEF size
  <2>20. Holds(addr, Byte(op, 0))
    <3>1. addr < end
      BY <2>14, <2>19
    <3> QED BY <2>10, <2>11, <2>18, <3>1 DEF StandsAt
  <2>21. ASSUME OperandCount[op] = 1, NEW i \in 0 .. UINT_SIZE - 1
         PROVE  Holds(addr + OPCODE_SIZE + i, Byte(word, i)) \/ LostToPadding(addr + OPCODE_SIZE + i)
    <3> DEFINE b == addr + OPCODE_SIZE + i
    <3>1. b \in DOMAIN block /\ block[b] = Byte(word, i)
      <4>1. instr.vals # <<>> /\ Last(instr.vals) = word
        BY <2>11, <2>13, <2>21
      <4> QED BY <2>10, <4>1 DEF StandsAt
    <3>2. b \in Nat /\ b < first + size
      <4>1. i \in 0 .. 3 /\ b = addr + 4 + i
        BY DEF OPCODE_SIZE, UINT_SIZE
      <4>2. addr + 8 <= first + size
        BY <2>14, <2>21
      <4> HIDE DEF b
      <4> QED BY <2>14, <2>19, <4>1, <4>2
    <3> HIDE DEF b
    <3>3. b < end \/ b \in end .. end + (LoaderStart - SymbolsEnd) - 1
      BY <2>19, <3>2
    <3> QED BY <2>18, <3>1, <3>3 DEF LostToPadding, end, b
  <2> QED BY <2>9, <2>12, <2>20, <2>21 DEF op
<1> HIDE DEF Inv
<1> QED BY <1>1, <1>2, <1>3, AsmInvHolds, PTL DEF Spec

=============================================================================
