---------------------------- MODULE StreamProofs ----------------------------
(***************************************************************************)
(* Machine-checked proofs about StreamPipeline. Every chunk that is        *)
(* anywhere on its way has a place in the stream: the k-th is the k-th of  *)
(* the source, or the final one right after what the source has sent       *)
(* (InPlace, for both channels in OuterFlow and InnerFlow). With that go   *)
(* how many chunks there are on the way while nothing has been dropped     *)
(* (Counted, Whole), and who may still send, close or drop (Roles). The    *)
(* words of texts (Fields) and the text of chunks (Joined) are defined by  *)
(* recursive functions; what they give for every text is proved by         *)
(* induction over sets of sequences (SeqSetInduction).                     *)
(***************************************************************************)
EXTENDS StreamPipeline, SequenceTheorems, FiniteSetTheorems, TLAPS

-----------------------------------------------------------------------------
(* Induction over data.                                                    *)

\* A set of naturals with 0 and the successor of each of its members is all of
\* Nat: else adding one maps the members up to a natural that is missing, which
\* are finitely many, into themselves without 0.
LEMMA NatSetInduction ==
  ASSUME NEW S \in SUBSET Nat, 0 \in S, \A n \in S : n + 1 \in S
  PROVE  S = Nat
<1>1. SUFFICES ASSUME NEW x \in Nat, x \notin S PROVE FALSE
  OBVIOUS
<1> DEFINE A == {n \in S : n <= x}
           f == [n \in A |-> n + 1]
<1>2. A \in SUBSET Nat /\ \A n \in A : n <= x
  OBVIOUS
<1>3. 0 \in A
  OBVIOUS
<1>4. \A n \in A : n + 1 \in A /\ n + 1 # 0
  BY <1>1
<1>5. f \in [A -> A \ {0}]
  BY <1>4
<1>6. \A m, n \in A : m # n => f[m] # f[n]
  BY <1>2
<1> HIDE DEF A, f
<1>7. IsFiniteSet(A)
  BY <1>2, FS_BoundedSetOfNaturals
<1>8. /\ IsFiniteSet(A \ {0})
      /\ Cardinality(A \ {0}) = Cardinality(A) - 1
  BY <1>3, <1>7, FS_RemoveElement
<1>9. Cardinality(A) \in Nat
  BY <1>7, FS_CardinalityType
<1>10. Cardinality(A \ {0}) < Cardinality(A)
  BY <1>8, <1>9
<1>11. QED
  BY <1>5, <1>6, <1>7, <1>8, <1>10, FS_PigeonHole

\* A sequence of n + 1 elements is one of n elements and a last one.
HasLast(A, s, n) == \E t \in Seq(A) : \E x \in A : Len(t) = n /\ s = Append(t, x)

LEMMA FrontAndLast ==
  ASSUME NEW A, NEW s \in Seq(A), NEW n \in Nat, Len(s) = n + 1
  PROVE  HasLast(A, s, n)
<1> DEFINE t == SubSeq(s, 1, n)
           x == s[n + 1]
<1>1. /\ t \in Seq(A) /\ Len(t) = n /\ \A i \in 1..n : t[i] = s[i]
  <2>1. \A i \in 1..n : s[i] \in A
    OBVIOUS
  <2>2. QED
    BY <2>1, SubSeqProperties
<1>2. x \in A
  OBVIOUS
<1> DEFINE u == Append(t, x)
<1> HIDE DEF t, x
<1>3. /\ u \in Seq(A) /\ Len(u) = Len(t) + 1
      /\ \A i \in 1..Len(t) : u[i] = t[i]
      /\ u[Len(t) + 1] = x
  BY <1>1, <1>2, AppendProperties
<1> HIDE DEF u
<1>4. \A i \in 1..n + 1 : u[i] = s[i]
  BY <1>1, <1>3 DEF x
<1>5. s = u
  BY <1>1, <1>3, <1>4, SeqEqual
<1>6. QED
  BY <1>1, <1>2, <1>5 DEF u, HasLast

\* The same of sequences and Append. What an operator does for every sequence is
\* proved with the set of those for which it does it.
LEMMA SeqSetInduction ==
  ASSUME NEW A, NEW S \in SUBSET Seq(A), <<>> \in S,
         \A s \in S, x \in A : Append(s, x) \in S
  PROVE  S = Seq(A)
<1> DEFINE T == {n \in Nat : \A s \in Seq(A) : Len(s) = n => s \in S}
<1>1. 0 \in T
  BY EmptySeq
<1>2. ASSUME NEW n \in T PROVE n + 1 \in T
  <2>1. SUFFICES ASSUME NEW s \in Seq(A), Len(s) = n + 1 PROVE s \in S
    OBVIOUS
  <2>2. n \in Nat
    OBVIOUS
  <2>3. \A u \in Seq(A) : Len(u) = n => u \in S
    OBVIOUS
  <2> HIDE DEF T
  <2>4. HasLast(A, s, n)
    BY <2>1, <2>2, FrontAndLast
  <2>5. PICK t \in Seq(A) : \E x \in A : Len(t) = n /\ s = Append(t, x)
    BY <2>4 DEF HasLast
  <2>6. QED
    BY <2>3, <2>5
<1>3. T = Nat
  <2>1. T \in SUBSET Nat
    OBVIOUS
  <2> HIDE DEF T
  <2>2. QED
    BY <1>1, <1>2, <2>1, NatSetInduction
<1>4. QED
  BY <1>3, LenProperties

-----------------------------------------------------------------------------
(* The words of a text.                                                    *)

\* Scan's recursive function exists, for whatever text, and a longer text
\* continues it.
Pass(f, text) == f = [i \in 0..Len(text) |-> IF i = 0 THEN NoWords ELSE Reads(f[i - 1], text[i])]

LEMMA ScanIsPass ==
  ASSUME NEW text
  PROVE  Scan(text) = (CHOOSE f : Pass(f, text))[Len(text)]
BY DEF Scan, Pass

LEMMA PassExists ==
  ASSUME NEW text \in Seq(Symbols)
  PROVE  \E f : Pass(f, text)
<1> DEFINE P(f, n) == /\ DOMAIN f = 0..n /\ f = [i \in 0..n |-> f[i]]
                      /\ f[0] = NoWords /\ \A i \in 1..n : f[i] = Reads(f[i - 1], text[i])
           S == {n \in Nat : \E f : P(f, n)}
<1>1. 0 \in S
  <2>1. P([i \in 0..0 |-> NoWords], 0)
    OBVIOUS
  <2>2. QED
    BY <2>1
<1>2. ASSUME NEW n \in S PROVE n + 1 \in S
  <2>1. PICK f : P(f, n)
    OBVIOUS
  <2> DEFINE g == [i \in 0..n + 1 |-> IF i = n + 1 THEN Reads(f[n], text[n + 1]) ELSE f[i]]
  <2>2. n \in Nat
    OBVIOUS
  <2>3. DOMAIN g = 0..n + 1 /\ g = [i \in 0..n + 1 |-> g[i]]
    OBVIOUS
  <2>4. g[0] = NoWords
    BY <2>1, <2>2
  <2>5. ASSUME NEW i \in 1..n + 1 PROVE g[i] = Reads(g[i - 1], text[i])
    <3>1. CASE i = n + 1
      <4>1. n \in 0..n + 1 /\ n # n + 1 /\ n + 1 \in 0..n + 1 /\ i - 1 = n
        BY <2>2, <3>1
      <4>2. g[n] = f[n] /\ g[n + 1] = Reads(f[n], text[n + 1])
        BY <4>1
      <4> HIDE DEF g, P
      <4>3. QED
        BY <3>1, <4>1, <4>2
    <3>2. CASE i # n + 1
      <4>1. i \in 1..n /\ i - 1 \in 0..n + 1 /\ i - 1 # n + 1 /\ i \in 0..n + 1
        BY <2>2, <3>2
      <4>2. g[i] = f[i] /\ g[i - 1] = f[i - 1]
        BY <3>2, <4>1
      <4>3. f[i] = Reads(f[i - 1], text[i])
        BY <2>1, <4>1
      <4> HIDE DEF g, P
      <4>4. QED
        BY <4>2, <4>3
    <3>3. QED
      BY <3>1, <3>2
  <2>6. P(g, n + 1)
    <3> HIDE DEF g
    <3>1. QED
      BY <2>3, <2>4, <2>5
  <2> HIDE DEF g, P
  <2>7. QED
    BY <2>2, <2>6
<1>3. S = Nat
  <2>1. S \in SUBSET Nat
    OBVIOUS
  <2> HIDE DEF S
  <2>2. QED
    BY <1>1, <1>2, <2>1, NatSetInduction
<1>4. Len(text) \in Nat
  OBVIOUS
<1>5. PICK f : P(f, Len(text))
  BY <1>3, <1>4
<1>6. Pass(f, text)
  <2>1. ASSUME NEW i \in 0..Len(text), i # 0 PROVE f[i] = Reads(f[i - 1], text[i])
    <3>1. i \in 1..Len(text)
      BY <1>4, <2>1
    <3>2. \A k \in 1..Len(text) : f[k] = Reads(f[k - 1], text[k])
      BY <1>5
    <3> HIDE DEF P, S
    <3>3. QED
      BY <3>1, <3>2
  <2>2. QED
    BY <1>5, <2>1 DEF Pass
<1>7. QED
  BY <1>6

LEMMA PassSteps ==
  ASSUME NEW text \in Seq(Symbols)
  PROVE  \E f : /\ f[0] = NoWords
                /\ \A i \in 1..Len(text) : f[i] = Reads(f[i - 1], text[i])
                /\ Scan(text) = f[Len(text)]
<1> DEFINE f == CHOOSE g : Pass(g, text)
<1>1. Pass(f, text)
  BY PassExists, Zenon
<1>2. Scan(text) = f[Len(text)]
  BY ScanIsPass, Zenon
<1> HIDE DEF f
<1>3. Len(text) \in Nat
  OBVIOUS
<1>4. f[0] = NoWords
  BY <1>1, <1>3 DEF Pass
<1>5. ASSUME NEW i \in 1..Len(text) PROVE f[i] = Reads(f[i - 1], text[i])
  <2>1. i \in 0..Len(text) /\ i # 0
    BY <1>3
  <2>2. QED
    BY <1>1, <2>1 DEF Pass
<1>6. QED
  BY <1>2, <1>4, <1>5

LEMMA ScanEmpty == Scan(<<>>) = NoWords
<1>1. <<>> \in Seq(Symbols) /\ Len(<<>>) = 0
  BY EmptySeq
<1>2. QED
  BY <1>1, PassSteps

LEMMA ScanAppend ==
  ASSUME NEW text \in Seq(Symbols), NEW x \in Symbols
  PROVE  Scan(Append(text, x)) = Reads(Scan(text), x)
<1> DEFINE longer == Append(text, x)
           n == Len(text)
<1>1. /\ longer \in Seq(Symbols) /\ Len(longer) = n + 1 /\ n \in Nat
      /\ \A i \in 1..n : longer[i] = text[i]
      /\ longer[n + 1] = x
  BY AppendProperties, LenProperties
<1>2. PICK f : /\ f[0] = NoWords
               /\ \A i \in 1..n : f[i] = Reads(f[i - 1], text[i])
               /\ Scan(text) = f[n]
  BY PassSteps
<1>3. PICK g : /\ g[0] = NoWords
               /\ \A i \in 1..n + 1 : g[i] = Reads(g[i - 1], longer[i])
               /\ Scan(longer) = g[n + 1]
  <2> HIDE DEF longer
  <2>1. QED
    BY <1>1, PassSteps
<1> DEFINE S == {i \in Nat : i <= n => f[i] = g[i]}
<1> HIDE DEF longer, n
<1>4. 0 \in S
  BY <1>2, <1>3
<1>5. ASSUME NEW i \in S PROVE i + 1 \in S
  <2>1. SUFFICES ASSUME i + 1 <= n PROVE f[i + 1] = g[i + 1]
    OBVIOUS
  <2>2. i \in Nat /\ i + 1 \in 1..n /\ i + 1 \in 1..n + 1 /\ i + 1 - 1 = i /\ i <= n
    BY <1>1, <2>1
  <2>3. f[i] = g[i]
    BY <2>2
  <2>4. f[i + 1] = Reads(f[i], text[i + 1]) /\ g[i + 1] = Reads(g[i], longer[i + 1])
    BY <1>2, <1>3, <2>2
  <2>5. QED
    BY <1>1, <2>2, <2>3, <2>4
<1>6. S = Nat
  <2>1. S \in SUBSET Nat
    OBVIOUS
  <2> HIDE DEF S
  <2>2. QED
    BY <1>4, <1>5, <2>1, NatSetInduction
<1>7. f[n] = g[n]
  BY <1>1, <1>6
<1>8. n + 1 \in 1..n + 1 /\ n + 1 - 1 = n
  BY <1>1
<1>9. g[n + 1] = Reads(g[n], x)
  BY <1>1, <1>3, <1>8
<1>10. QED
  BY <1>2, <1>3, <1>7, <1>9 DEF longer, n

-----------------------------------------------------------------------------
(* The text of a sequence of texts: FlattenSeq's recursive function.       *)

Glued(f, texts) ==
  f = [i \in 1..Len(texts) |-> IF i = 1 THEN texts[i] ELSE f[i - 1] \o texts[i]]

Glues(f, texts, i) == f[i + 1] = f[i] \o texts[i + 1]

LEMMA FlattenIsGlued ==
  ASSUME NEW texts, Len(texts) # 0
  PROVE  FlattenSeq(texts) = (CHOOSE f : Glued(f, texts))[Len(texts)]
BY DEF FlattenSeq, Glued

LEMMA FlattenEmpty == FlattenSeq(<<>>) = <<>>
BY EmptySeq DEF FlattenSeq

LEMMA GluedExists ==
  ASSUME NEW texts \in Seq(Seq(Symbols))
  PROVE  \E f : Glued(f, texts)
<1> DEFINE S == {t \in Seq(Seq(Symbols)) : \E f : Glued(f, t)}
<1>1. <<>> \in S
  <2>1. Glued([i \in {} |-> <<>>], <<>>)
    BY EmptySeq DEF Glued
  <2>2. QED
    BY <2>1
<1>2. ASSUME NEW t \in S, NEW x \in Seq(Symbols) PROVE Append(t, x) \in S
  <2>1. PICK f : Glued(f, t)
    OBVIOUS
  <2> DEFINE n == Len(t)
             u == Append(t, x)
             g == [i \in 1..n + 1 |-> IF i = n + 1 THEN (IF i = 1 THEN x ELSE f[n] \o x) ELSE f[i]]
  <2>2. /\ u \in Seq(Seq(Symbols)) /\ Len(u) = n + 1 /\ n \in Nat
        /\ \A i \in 1..n : u[i] = t[i]
        /\ u[n + 1] = x
    BY AppendProperties, LenProperties
  <2> HIDE DEF u
  <2>3. ASSUME NEW i \in 1..n + 1
        PROVE  g[i] = IF i = 1 THEN u[i] ELSE g[i - 1] \o u[i]
    <3>1. CASE i = n + 1
      <4>1. g[i] = IF i = 1 THEN x ELSE f[n] \o x
        BY <3>1
      <4>2. ASSUME i # 1 PROVE g[i - 1] = f[n]
        <5>1. i - 1 = n /\ n \in 1..n + 1 /\ n # n + 1
          BY <2>2, <3>1, <4>2
        <5> HIDE DEF n
        <5>2. QED
          BY <5>1
      <4> HIDE DEF g, n
      <4>3. QED
        BY <2>2, <3>1, <4>1, <4>2
    <3>2. CASE i # n + 1
      <4>1. i \in 1..n
        BY <2>2, <3>2
      <4>2. g[i] = f[i]
        BY <3>2
      <4>3. f[i] = IF i = 1 THEN t[i] ELSE f[i - 1] \o t[i]
        BY <2>1, <4>1 DEF Glued
      <4>4. ASSUME i # 1 PROVE g[i - 1] = f[i - 1]
        <5>1. i - 1 \in 1..n + 1 /\ i - 1 # n + 1
          BY <2>2, <4>1, <4>4
        <5> HIDE DEF n
        <5>2. QED
          BY <5>1
      <4> HIDE DEF g, n
      <4>5. QED
        BY <2>2, <4>1, <4>2, <4>3, <4>4
    <3>3. QED
      BY <3>1, <3>2
  <2>4. g = [i \in 1..n + 1 |-> g[i]]
    OBVIOUS
  <2>5. Glued(g, u)
    <3> HIDE DEF g, n
    <3>1. QED
      BY <2>2, <2>3, <2>4 DEF Glued
  <2>6. QED
    BY <2>2, <2>5 DEF u
<1>3. S = Seq(Seq(Symbols))
  <2>1. S \in SUBSET Seq(Seq(Symbols))
    OBVIOUS
  <2> HIDE DEF S
  <2>2. QED
    BY <1>1, <1>2, <2>1, SeqSetInduction
<1>4. QED
  BY <1>3

LEMMA GluedSteps ==
  ASSUME NEW texts \in Seq(Seq(Symbols)), texts # <<>>
  PROVE  \E f : /\ f[1] = texts[1]
                /\ \A i \in 1..Len(texts) - 1 : Glues(f, texts, i)
                /\ FlattenSeq(texts) = f[Len(texts)]
<1> DEFINE f == CHOOSE g : Glued(g, texts)
<1>1. Len(texts) \in Nat \ {0}
  BY EmptySeq
<1>2. Glued(f, texts)
  BY GluedExists, Zenon
<1>3. FlattenSeq(texts) = f[Len(texts)]
  BY <1>1, FlattenIsGlued, Zenon
<1> HIDE DEF f
<1>4. f[1] = texts[1]
  BY <1>1, <1>2 DEF Glued
<1>5. ASSUME NEW i \in 1..Len(texts) - 1 PROVE Glues(f, texts, i)
  <2>1. PICK k \in 1..Len(texts) : k = i + 1 /\ k # 1 /\ k - 1 = i
    BY <1>1
  <2>2. f[k] = f[k - 1] \o texts[k]
    BY <1>2, <2>1 DEF Glued
  <2>3. f[k] = f[i] \o texts[k]
    BY <2>1, <2>2
  <2>4. QED
    BY <2>1, <2>3 DEF Glues
<1>6. QED
  BY <1>3, <1>4, <1>5

LEMMA FlattenAppend ==
  ASSUME NEW texts \in Seq(Seq(Symbols)), NEW t \in Seq(Symbols)
  PROVE  FlattenSeq(Append(texts, t)) = FlattenSeq(texts) \o t
<1> DEFINE longer == Append(texts, t)
           n == Len(texts)
<1>1. /\ longer \in Seq(Seq(Symbols)) /\ Len(longer) = n + 1 /\ n \in Nat
      /\ \A i \in 1..n : longer[i] = texts[i]
      /\ longer[n + 1] = t
  BY AppendProperties, LenProperties
<1>2. longer # <<>>
  <2> HIDE DEF longer, n
  <2>1. QED
    BY <1>1, EmptySeq
<1>3. PICK g : /\ g[1] = longer[1]
               /\ \A i \in 1..n : Glues(g, longer, i)
               /\ FlattenSeq(longer) = g[n + 1]
  <2> HIDE DEF longer, n
  <2>1. \E g : /\ g[1] = longer[1]
               /\ \A i \in 1..Len(longer) - 1 : Glues(g, longer, i)
               /\ FlattenSeq(longer) = g[Len(longer)]
    BY <1>1, <1>2, GluedSteps
  <2>2. Len(longer) = n + 1 /\ Len(longer) - 1 = n
    BY <1>1
  <2>3. QED
    BY <2>1, <2>2
<1>4. CASE texts = <<>>
  <2>1. n = 0
    BY <1>4, EmptySeq
  <2>2. FlattenSeq(longer) = t
    <3> HIDE DEF longer, n
    <3>1. QED
      BY <1>1, <1>3, <2>1
  <2>3. <<>> \o t = t
    BY ConcatEmptySeq
  <2>4. QED
    BY <1>4, <2>2, <2>3, FlattenEmpty
<1>5. CASE texts # <<>>
  <2>1. PICK f : /\ f[1] = texts[1]
                 /\ \A i \in 1..n - 1 : Glues(f, texts, i)
                 /\ FlattenSeq(texts) = f[n]
    BY <1>5, GluedSteps
  <2>2. n \in Nat \ {0}
    BY <1>5, EmptySeq
  <2> DEFINE S == {i \in Nat : i \in 1..n => f[i] = g[i]}
  <2> HIDE DEF longer, n
  <2>3. 0 \in S
    OBVIOUS
  <2>4. ASSUME NEW i \in S PROVE i + 1 \in S
    <3>1. SUFFICES ASSUME i + 1 \in 1..n PROVE f[i + 1] = g[i + 1]
      OBVIOUS
    <3>2. CASE i = 0
      <4>1. 1 \in 1..n
        BY <2>2
      <4>2. QED
        BY <1>1, <1>3, <2>1, <3>2, <4>1
    <3>3. CASE i # 0
      <4>1. i \in 1..n /\ i \in 1..n - 1
        BY <2>2, <3>1, <3>3
      <4>2. f[i] = g[i]
        BY <4>1
      <4>3. Glues(f, texts, i) /\ Glues(g, longer, i)
        BY <1>3, <2>1, <4>1
      <4>4. longer[i + 1] = texts[i + 1]
        BY <1>1, <3>1
      <4> HIDE DEF S
      <4>5. QED
        BY <4>2, <4>3, <4>4 DEF Glues
    <3>4. QED
      BY <3>2, <3>3
  <2>5. S = Nat
    <3>1. S \in SUBSET Nat
      OBVIOUS
    <3> HIDE DEF S
    <3>2. QED
      BY <2>3, <2>4, <3>1, NatSetInduction
  <2>6. f[n] = g[n]
    BY <2>2, <2>5
  <2>7. n \in 1..n
    BY <2>2
  <2>8. Glues(g, longer, n)
    BY <1>3, <2>7
  <2>9. QED
    BY <1>1, <1>3, <2>1, <2>6, <2>8 DEF longer, Glues
<1>6. QED
  BY <1>4, <1>5

LEMMA FlattenType ==
  ASSUME NEW texts \in Seq(Seq(Symbols))
  PROVE  FlattenSeq(texts) \in Seq(Symbols)
<1> DEFINE S == {t \in Seq(Seq(Symbols)) : FlattenSeq(t) \in Seq(Symbols)}
<1>1. <<>> \in S
  BY FlattenEmpty, EmptySeq
<1>2. ASSUME NEW t \in S, NEW x \in Seq(Symbols) PROVE Append(t, x) \in S
  <2>1. Append(t, x) \in Seq(Seq(Symbols))
    BY AppendProperties
  <2>2. FlattenSeq(Append(t, x)) = FlattenSeq(t) \o x
    BY FlattenAppend
  <2>3. FlattenSeq(t) \o x \in Seq(Symbols)
    BY ConcatProperties
  <2>4. QED
    BY <2>1, <2>2, <2>3
<1>3. S = Seq(Seq(Symbols))
  <2>1. S \in SUBSET Seq(Seq(Symbols))
    OBVIOUS
  <2> HIDE DEF S
  <2>2. QED
    BY <1>1, <1>2, <2>1, SeqSetInduction
<1>4. QED
  BY <1>3

-----------------------------------------------------------------------------
(* What the scan of a text gives: words of letters only.                   *)

Letters == Symbols \ Blanks
Words   == {w \in Seq(Letters) : w # <<>>}
States  == [words : Seq(Words), word : Seq(Letters)]

LEMMA LettersAreSymbols ==
  ASSUME NEW w \in Seq(Letters)
  PROVE  w \in Seq(Symbols)
BY DEF Letters

LEMMA ReadsLetter ==
  ASSUME NEW s \in States, NEW x, x \notin Blanks
  PROVE  Reads(s, x) = [words |-> s.words, word |-> Append(s.word, x)]
<1>1. Reads(s, x) = [s EXCEPT !.word = Append(s.word, x)]
  BY DEF Reads
<1> DEFINE v == Append(s.word, x)
<1> HIDE DEF v
<1>2. [s EXCEPT !.word = v] = [words |-> s.words, word |-> v]
  BY DEF States
<1>3. QED
  BY <1>1, <1>2 DEF v

LEMMA EndedType ==
  ASSUME NEW s \in States
  PROVE  Ended(s) \in Seq(Words)
<1>1. s.words \in Seq(Words) /\ s.word \in Seq(Letters)
  BY DEF States
<1>2. s.word # <<>> => s.word \in Words
  BY <1>1 DEF Words
<1>3. QED
  BY <1>1, <1>2, AppendProperties DEF Ended

LEMMA ScanType ==
  ASSUME NEW text \in Seq(Symbols)
  PROVE  Scan(text) \in States
<1> DEFINE S == {t \in Seq(Symbols) : Scan(t) \in States}
<1>1. <<>> \in S
  <2>1. <<>> \in Seq(Words) /\ <<>> \in Seq(Letters) /\ <<>> \in Seq(Symbols)
    BY EmptySeq
  <2>2. NoWords \in States
    BY <2>1 DEF NoWords, States
  <2>3. QED
    BY <2>1, <2>2, ScanEmpty
<1>2. ASSUME NEW t \in S, NEW x \in Symbols PROVE Append(t, x) \in S
  <2>1. Append(t, x) \in Seq(Symbols)
    BY AppendProperties
  <2>2. Scan(Append(t, x)) = Reads(Scan(t), x)
    BY ScanAppend
  <2>3. ASSUME NEW s \in States PROVE Reads(s, x) \in States
    <3>1. s.words \in Seq(Words) /\ s.word \in Seq(Letters)
      BY DEF States
    <3>2. CASE x \in Blanks
      <4>1. Reads(s, x) = [words |-> Ended(s), word |-> <<>>]
        BY <3>2 DEF Reads
      <4>2. Ended(s) \in Seq(Words) /\ <<>> \in Seq(Letters)
        BY EndedType, EmptySeq
      <4>3. QED
        BY <4>1, <4>2 DEF States
    <3>3. CASE x \notin Blanks
      <4>1. Reads(s, x) = [words |-> s.words, word |-> Append(s.word, x)]
        BY <3>3, ReadsLetter
      <4>2. x \in Letters
        BY <3>3 DEF Letters
      <4>3. Append(s.word, x) \in Seq(Letters)
        BY <3>1, <4>2, AppendProperties
      <4>4. QED
        BY <3>1, <4>1, <4>3 DEF States
    <3>4. QED
      BY <3>2, <3>3
  <2>4. QED
    BY <2>1, <2>2, <2>3
<1>3. S = Seq(Symbols)
  <2>1. S \in SUBSET Seq(Symbols)
    OBVIOUS
  <2> HIDE DEF S
  <2>2. QED
    BY <1>1, <1>2, <2>1, SeqSetInduction
<1>4. QED
  BY <1>3

LEMMA FieldsAreWords ==
  ASSUME NEW text \in Seq(Symbols)
  PROVE  Fields(text) \in Seq(Words)
BY ScanType, EndedType DEF Fields

LEMMA AppendToConcat ==
  ASSUME NEW A, NEW s \in Seq(A), NEW t \in Seq(A), NEW x \in A
  PROVE  s \o Append(t, x) = Append(s \o t, x)
<1>1. <<x>> \in Seq(A) /\ s \o t \in Seq(A)
  BY ConcatProperties
<1>2. Append(t, x) = t \o <<x>> /\ Append(s \o t, x) = (s \o t) \o <<x>>
  BY <1>1, AppendIsConcat
<1>3. QED
  BY <1>1, <1>2, ConcatAssociative

\* Letters lengthen the word under way.
LEMMA ScanLetters ==
  ASSUME NEW text \in Seq(Symbols), NEW w \in Seq(Letters)
  PROVE  Scan(text \o w) = [words |-> Scan(text).words, word |-> Scan(text).word \o w]
<1> DEFINE s == Scan(text)
           S == {v \in Seq(Letters) : Scan(text \o v) = [words |-> s.words, word |-> s.word \o v]}
<1>1. s.words \in Seq(Words) /\ s.word \in Seq(Letters) /\ s = [words |-> s.words, word |-> s.word]
  BY ScanType DEF States
<1> HIDE DEF s
<1>2. <<>> \in S
  <2>1. text \o <<>> = text /\ s.word \o <<>> = s.word /\ <<>> \in Seq(Letters)
    BY <1>1, ConcatEmptySeq, EmptySeq
  <2>2. QED
    BY <1>1, <2>1 DEF s
<1>3. ASSUME NEW v \in S, NEW x \in Letters PROVE Append(v, x) \in S
  <2>1. v \in Seq(Letters) /\ Scan(text \o v) = [words |-> s.words, word |-> s.word \o v]
    OBVIOUS
  <2>2. x \in Symbols /\ x \notin Blanks /\ v \in Seq(Symbols)
    BY <2>1, LettersAreSymbols DEF Letters
  <2>3. text \o Append(v, x) = Append(text \o v, x)
    BY <2>2, AppendToConcat
  <2>4. s.word \o Append(v, x) = Append(s.word \o v, x)
    BY <1>1, <2>1, AppendToConcat
  <2>5. text \o v \in Seq(Symbols)
    BY <2>2, ConcatProperties
  <2>6. Scan(Append(text \o v, x)) = Reads(Scan(text \o v), x)
    BY <2>2, <2>5, ScanAppend
  <2>7. Reads(Scan(text \o v), x) = [words |-> s.words, word |-> Append(s.word \o v, x)]
    <3>1. Scan(text \o v) \in States
      BY <2>5, ScanType
    <3>2. QED
      BY <2>1, <2>2, <3>1, ReadsLetter
  <2>8. Append(v, x) \in Seq(Letters)
    BY <2>1, AppendProperties
  <2>9. QED
    BY <2>3, <2>4, <2>6, <2>7, <2>8
<1>4. S = Seq(Letters)
  <2>1. S \in SUBSET Seq(Letters)
    OBVIOUS
  <2> HIDE DEF S
  <2>2. QED
    BY <1>2, <1>3, <2>1, SeqSetInduction
<1>5. QED
  BY <1>4 DEF s

\* A sequence given by its elements.
LEMMA GivenByElements ==
  ASSUME NEW S, NEW n \in Nat, NEW f \in [1..n -> S]
  PROVE  f \in Seq(S) /\ Len(f) = n /\ DOMAIN f = 1..n
OBVIOUS

LEMMA OneBlank == <<"_">> \in Seq(Symbols)
<1>1. \A S : \A x \in S : <<x>> \in Seq(S)
  OBVIOUS
<1>2. QED
  BY <1>1, StreamAssumption

-----------------------------------------------------------------------------
(* Words with blanks around them.                                          *)

\* The texts of the chunks that a list of words is sent as.
BlankAfter(words)  == [i \in DOMAIN words |-> words[i] \o <<"_">>]
BlankBefore(words) == [i \in DOMAIN words |-> IF i = 1 THEN words[i] ELSE <<"_">> \o words[i]]

LEMMA WordIsText ==
  ASSUME NEW w \in Words
  PROVE  w \in Seq(Letters) /\ w \in Seq(Symbols) /\ w # <<>>
BY LettersAreSymbols DEF Words

LEMMA BlankAfterType ==
  ASSUME NEW words \in Seq(Words)
  PROVE  BlankAfter(words) \in Seq(Seq(Symbols))
<1>1. DOMAIN words = 1..Len(words) /\ Len(words) \in Nat
  OBVIOUS
<1>2. ASSUME NEW i \in DOMAIN words PROVE words[i] \o <<"_">> \in Seq(Symbols)
  <2>1. words[i] \in Words
    BY <1>1
  <2>2. QED
    BY <2>1, WordIsText, OneBlank, ConcatProperties
<1>3. BlankAfter(words) \in [1..Len(words) -> Seq(Symbols)]
  BY <1>1, <1>2 DEF BlankAfter
<1>4. QED
  BY <1>1, <1>3, GivenByElements

LEMMA BlankBeforeType ==
  ASSUME NEW words \in Seq(Words)
  PROVE  BlankBefore(words) \in Seq(Seq(Symbols))
<1> DEFINE T(i) == IF i = 1 THEN words[i] ELSE <<"_">> \o words[i]
<1>1. DOMAIN words = 1..Len(words) /\ Len(words) \in Nat
  OBVIOUS
<1>2. ASSUME NEW i \in DOMAIN words PROVE T(i) \in Seq(Symbols)
  <2>1. words[i] \in Words
    BY <1>1
  <2>2. words[i] \in Seq(Symbols)
    BY <2>1, WordIsText
  <2>3. QED
    BY <2>2, OneBlank, ConcatProperties
<1>3. BlankBefore(words) = [i \in 1..Len(words) |-> T(i)]
  BY <1>1 DEF BlankBefore
<1> HIDE DEF T
<1>4. BlankBefore(words) \in [1..Len(words) -> Seq(Symbols)]
  BY <1>1, <1>2, <1>3
<1>5. QED
  BY <1>1, <1>4, GivenByElements

\* Both grow with the list.
LEMMA OneMoreWord ==
  ASSUME NEW words \in Seq(Words), NEW w \in Words
  PROVE  /\ BlankAfter(Append(words, w)) = Append(BlankAfter(words), w \o <<"_">>)
         /\ BlankBefore(Append(words, w)) =
              Append(BlankBefore(words), IF words = <<>> THEN w ELSE <<"_">> \o w)
<1> DEFINE longer == Append(words, w)
           n == Len(words)
           last == w \o <<"_">>
           next == IF words = <<>> THEN w ELSE <<"_">> \o w
           a == Append(BlankAfter(words), last)
           b == Append(BlankBefore(words), next)
<1>1. /\ longer \in Seq(Words) /\ Len(longer) = n + 1 /\ n \in Nat
      /\ \A i \in 1..n : longer[i] = words[i]
      /\ longer[n + 1] = w
  BY AppendProperties, LenProperties
<1>2. words = <<>> <=> n = 0
  BY EmptySeq
<1>3. last \in Seq(Symbols) /\ next \in Seq(Symbols)
  BY WordIsText, OneBlank, ConcatProperties
<1>4. /\ BlankAfter(words) \in Seq(Seq(Symbols)) /\ BlankBefore(words) \in Seq(Seq(Symbols))
      /\ BlankAfter(longer) \in Seq(Seq(Symbols)) /\ BlankBefore(longer) \in Seq(Seq(Symbols))
  <2> HIDE DEF longer
  <2>1. QED
    BY <1>1, BlankAfterType, BlankBeforeType
<1>5. DOMAIN words = 1..n /\ DOMAIN longer = 1..n + 1
  <2> HIDE DEF longer
  <2>1. QED
    BY <1>1
<1> HIDE DEF longer, last, next, n
<1>6. Len(BlankAfter(words)) = n /\ Len(BlankAfter(longer)) = n + 1
  BY <1>1, <1>5 DEF BlankAfter
<1>7. Len(BlankBefore(words)) = n /\ Len(BlankBefore(longer)) = n + 1
  BY <1>1, <1>5 DEF BlankBefore
<1>8. /\ a \in Seq(Seq(Symbols)) /\ Len(a) = n + 1
      /\ \A i \in 1..n : a[i] = BlankAfter(words)[i]
      /\ a[n + 1] = last
  BY <1>3, <1>4, <1>6, AppendProperties
<1>9. /\ b \in Seq(Seq(Symbols)) /\ Len(b) = n + 1
      /\ \A i \in 1..n : b[i] = BlankBefore(words)[i]
      /\ b[n + 1] = next
  BY <1>3, <1>4, <1>7, AppendProperties
<1> HIDE DEF a, b
<1>10. ASSUME NEW i \in 1..n + 1 PROVE BlankAfter(longer)[i] = a[i] /\ BlankBefore(longer)[i] = b[i]
  <2>1. /\ BlankAfter(longer)[i] = longer[i] \o <<"_">>
        /\ BlankBefore(longer)[i] = IF i = 1 THEN longer[i] ELSE <<"_">> \o longer[i]
    BY <1>5 DEF BlankAfter, BlankBefore
  <2>2. CASE i = n + 1
    <3>1. i = 1 <=> words = <<>>
      BY <1>1, <1>2, <2>2
    <3>2. QED
      BY <1>1, <1>8, <1>9, <2>1, <2>2, <3>1 DEF last, next
  <2>3. CASE i # n + 1
    <3>1. i \in 1..n
      BY <1>1, <2>3
    <3>2. /\ BlankAfter(words)[i] = words[i] \o <<"_">>
          /\ BlankBefore(words)[i] = IF i = 1 THEN words[i] ELSE <<"_">> \o words[i]
      BY <1>5, <3>1 DEF BlankAfter, BlankBefore
    <3>3. QED
      BY <1>1, <1>8, <1>9, <2>1, <3>1, <3>2
  <2>4. QED
    BY <2>2, <2>3
<1>11. BlankAfter(longer) = a
  BY <1>4, <1>6, <1>8, <1>10, SeqEqual
<1>12. BlankBefore(longer) = b
  BY <1>4, <1>7, <1>9, <1>10, SeqEqual
<1>13. QED
  BY <1>11, <1>12 DEF a, b, longer, last, next

LEMMA BlankIsBlank == "_" \in Symbols /\ "_" \in Blanks
BY StreamAssumption DEF Blanks

LEMMA AroundBlank ==
  ASSUME NEW s \in Seq(Symbols), NEW t \in Seq(Symbols)
  PROVE  /\ s \o (t \o <<"_">>) = Append(s \o t, "_")
         /\ s \o (<<"_">> \o t) = Append(s, "_") \o t
<1> DEFINE blank == <<"_">>
<1>1. blank \in Seq(Symbols) /\ s \o t \in Seq(Symbols)
  BY OneBlank, ConcatProperties
<1>2. Append(s \o t, "_") = (s \o t) \o blank /\ Append(s, "_") = s \o blank
  BY <1>1, BlankIsBlank, AppendIsConcat
<1> HIDE DEF blank
<1>3. (s \o t) \o blank = s \o (t \o blank)
  BY <1>1, ConcatAssociative
<1>4. (s \o blank) \o t = s \o (blank \o t)
  BY <1>1, ConcatAssociative
<1>5. QED
  BY <1>2, <1>3, <1>4 DEF blank

LEMMA NoWordsNoTexts ==
  BlankAfter(<<>>) = <<>> /\ BlankBefore(<<>>) = <<>> /\ <<>> \in Seq(Words)
<1>1. <<>> \in Seq(Words) /\ DOMAIN <<>> = {}
  BY EmptySeq
<1> DEFINE b == BlankBefore(<<>>)
<1>2. b \in Seq(Seq(Symbols))
  BY <1>1, BlankBeforeType
<1>3. DOMAIN b = {}
  BY <1>1 DEF BlankBefore
<1> HIDE DEF b
<1>4. b = <<>>
  BY <1>2, <1>3, EmptySeq
<1>5. BlankAfter(<<>>) = <<>>
  BY EmptySeq DEF BlankAfter
<1>6. QED
  BY <1>1, <1>4, <1>5 DEF b

\* The words of a list with a blank after each, or before all but the first,
\* are the list.
LEMMA WordsAfterBlanks ==
  ASSUME NEW words \in Seq(Words)
  PROVE  Scan(FlattenSeq(BlankAfter(words))) = [words |-> words, word |-> <<>>]
<1> DEFINE S == {ws \in Seq(Words) : Scan(FlattenSeq(BlankAfter(ws))) = [words |-> ws, word |-> <<>>]}
<1>1. <<>> \in S
  BY NoWordsNoTexts, FlattenEmpty, ScanEmpty DEF NoWords
<1>2. ASSUME NEW ws \in S, NEW w \in Words PROVE Append(ws, w) \in S
  <2> DEFINE t == FlattenSeq(BlankAfter(ws))
  <2>1. ws \in Seq(Words) /\ Scan(t) = [words |-> ws, word |-> <<>>]
    OBVIOUS
  <2>2. w \in Seq(Letters) /\ w \in Seq(Symbols) /\ w # <<>>
    BY WordIsText
  <2>3. t \in Seq(Symbols)
    BY <2>1, BlankAfterType, FlattenType
  <2> HIDE DEF t
  <2>4. FlattenSeq(BlankAfter(Append(ws, w))) = t \o (w \o <<"_">>)
    <3>1. BlankAfter(Append(ws, w)) = Append(BlankAfter(ws), w \o <<"_">>)
      BY <2>1, OneMoreWord
    <3>2. BlankAfter(ws) \in Seq(Seq(Symbols)) /\ w \o <<"_">> \in Seq(Symbols)
      BY <2>1, <2>2, BlankAfterType, OneBlank, ConcatProperties
    <3>3. QED
      BY <3>1, <3>2, FlattenAppend DEF t
  <2>5. t \o w \in Seq(Symbols)
    BY <2>2, <2>3, ConcatProperties
  <2>6. t \o (w \o <<"_">>) = Append(t \o w, "_")
    BY <2>2, <2>3, AroundBlank
  <2>7. Scan(t \o w) = [words |-> ws, word |-> w]
    <3>1. Scan(t \o w) = [words |-> Scan(t).words, word |-> Scan(t).word \o w]
      BY <2>2, <2>3, ScanLetters
    <3>2. <<>> \o w = w
      BY <2>2, ConcatEmptySeq
    <3>3. QED
      BY <2>1, <3>1, <3>2
  <2>8. Scan(Append(t \o w, "_")) = Reads(Scan(t \o w), "_")
    BY <2>5, BlankIsBlank, ScanAppend
  <2>9. Reads(Scan(t \o w), "_") = [words |-> Append(ws, w), word |-> <<>>]
    <3> DEFINE s == [words |-> ws, word |-> w]
    <3>1. Ended(s) = Append(ws, w)
      BY <2>2 DEF Ended
    <3>2. Reads(s, "_") = [words |-> Ended(s), word |-> <<>>]
      BY BlankIsBlank DEF Reads
    <3> HIDE DEF s
    <3>3. Scan(t \o w) = s
      BY <2>7 DEF s
    <3>4. QED
      BY <3>1, <3>2, <3>3
  <2>10. Append(ws, w) \in Seq(Words)
    BY <2>1, AppendProperties
  <2>11. QED
    BY <2>4, <2>6, <2>8, <2>9, <2>10
<1>3. S = Seq(Words)
  <2>1. S \in SUBSET Seq(Words)
    OBVIOUS
  <2> HIDE DEF S
  <2>2. QED
    BY <1>1, <1>2, <2>1, SeqSetInduction
<1>4. QED
  BY <1>3

LEMMA WordsBetweenBlanks ==
  ASSUME NEW words \in Seq(Words)
  PROVE  Ended(Scan(FlattenSeq(BlankBefore(words)))) = words
<1> DEFINE S == {ws \in Seq(Words) : Ended(Scan(FlattenSeq(BlankBefore(ws)))) = ws}
<1>1. <<>> \in S
  BY NoWordsNoTexts, FlattenEmpty, ScanEmpty DEF NoWords, Ended
<1>2. ASSUME NEW ws \in S, NEW w \in Words PROVE Append(ws, w) \in S
  <2> DEFINE t == FlattenSeq(BlankBefore(ws))
             u == IF ws = <<>> THEN t ELSE Append(t, "_")
  <2>1. ws \in Seq(Words) /\ Ended(Scan(t)) = ws
    OBVIOUS
  <2>2. w \in Seq(Letters) /\ w \in Seq(Symbols) /\ w # <<>>
    BY WordIsText
  <2>3. t \in Seq(Symbols)
    BY <2>1, BlankBeforeType, FlattenType
  <2>4. ws = <<>> => t = <<>>
    BY NoWordsNoTexts, FlattenEmpty
  <2> HIDE DEF t
  <2>5. u \in Seq(Symbols)
    BY <2>3, BlankIsBlank, AppendProperties
  <2>6. FlattenSeq(BlankBefore(Append(ws, w))) = u \o w
    <3> DEFINE next == IF ws = <<>> THEN w ELSE <<"_">> \o w
    <3>1. BlankBefore(Append(ws, w)) = Append(BlankBefore(ws), next)
      BY <2>1, OneMoreWord
    <3>2. BlankBefore(ws) \in Seq(Seq(Symbols)) /\ next \in Seq(Symbols)
      BY <2>1, <2>2, BlankBeforeType, OneBlank, ConcatProperties
    <3> HIDE DEF next
    <3>3. FlattenSeq(BlankBefore(Append(ws, w))) = t \o next
      BY <3>1, <3>2, FlattenAppend DEF t
    <3>4. t \o next = u \o w
      <4>1. CASE ws = <<>>
        BY <4>1 DEF next
      <4>2. CASE ws # <<>>
        <5>1. next = <<"_">> \o w /\ u = Append(t, "_")
          BY <4>2 DEF next
        <5>2. QED
          BY <2>2, <2>3, <5>1, AroundBlank
      <4>3. QED
        BY <4>1, <4>2
    <3>5. QED
      BY <3>3, <3>4
  <2>7. Scan(u) = [words |-> ws, word |-> <<>>]
    <3>1. CASE ws = <<>>
      BY <2>4, <3>1, ScanEmpty DEF NoWords
    <3>2. CASE ws # <<>>
      <4>1. Scan(Append(t, "_")) = Reads(Scan(t), "_")
        BY <2>3, BlankIsBlank, ScanAppend
      <4>2. QED
        BY <2>1, <3>2, <4>1, BlankIsBlank DEF Reads
    <3>3. QED
      BY <3>1, <3>2
  <2> HIDE DEF u
  <2>8. Scan(u \o w) = [words |-> ws, word |-> w]
    <3>1. Scan(u \o w) = [words |-> Scan(u).words, word |-> Scan(u).word \o w]
      BY <2>2, <2>5, ScanLetters
    <3>2. <<>> \o w = w
      BY <2>2, ConcatEmptySeq
    <3>3. QED
      BY <2>7, <3>1, <3>2
  <2>9. Ended(Scan(u \o w)) = Append(ws, w)
    BY <2>2, <2>8 DEF Ended
  <2>10. Append(ws, w) \in Seq(Words)
    BY <2>1, AppendProperties
  <2>11. QED
    BY <2>6, <2>9, <2>10
<1>3. S = Seq(Words)
  <2>1. S \in SUBSET Seq(Words)
    OBVIOUS
  <2> HIDE DEF S
  <2>2. QED
    BY <1>1, <1>2, <2>1, SeqSetInduction
<1>4. QED
  BY <1>3

-----------------------------------------------------------------------------
(* The chunks of a source.                                                 *)

LEMMA FieldsType ==
  ASSUME NEW text \in Seq(Symbols)
  PROVE  Fields(text) \in Seq(Seq(Symbols))
<1>1. Fields(text) \in Seq(Words)
  BY FieldsAreWords
<1>2. Words \subseteq Seq(Symbols)
  BY WordIsText
<1>3. QED
  BY <1>1, <1>2

\* What a sequence of texts becomes when each is sent as a chunk.
LEMMA ChunksOf ==
  ASSUME NEW words \in Seq(Seq(Symbols)), NEW chunks,
         DOMAIN chunks = DOMAIN words, chunks = [i \in DOMAIN words |-> chunks[i]],
         \A i \in DOMAIN words : \E t \in Seq(Symbols) : chunks[i] = Text(t)
  PROVE  chunks \in Seq(Chunks) /\ \A i \in 1..Len(chunks) : ~chunks[i].last
<1>1. DOMAIN words = 1..Len(words) /\ Len(words) \in Nat
  OBVIOUS
<1>2. ASSUME NEW i \in DOMAIN words PROVE chunks[i] \in Chunks /\ ~chunks[i].last
  <2>1. PICK t \in Seq(Symbols) : chunks[i] = Text(t)
    OBVIOUS
  <2>2. Text(t) \in Chunks /\ ~Text(t).last
    BY DEF Text, Chunks
  <2>3. QED
    BY <2>1, <2>2
<1>3. chunks \in [1..Len(words) -> Chunks]
  BY <1>1, <1>2
<1>4. Len(chunks) = Len(words) /\ chunks \in Seq(Chunks)
  BY <1>1, <1>3, GivenByElements
<1>5. QED
  BY <1>1, <1>2, <1>4

LEMMA ReplayType ==
  ASSUME NEW text \in Seq(Symbols)
  PROVE  /\ ReplayChunks(text) \in Seq(Chunks)
         /\ \A i \in 1..Len(ReplayChunks(text)) : ~ReplayChunks(text)[i].last
<1> DEFINE words == Fields(text)
           T(i) == IF i = 1 THEN words[i] ELSE <<"_">> \o words[i]
<1>1. words \in Seq(Seq(Symbols))
  BY FieldsType
<1>2. ReplayChunks(text) = [i \in DOMAIN words |-> Text(T(i))]
  BY DEF ReplayChunks
<1>3. ASSUME NEW i \in DOMAIN words PROVE T(i) \in Seq(Symbols)
  <2>1. words[i] \in Seq(Symbols)
    BY <1>1
  <2>2. QED
    BY <2>1, OneBlank, ConcatProperties
<1> HIDE DEF words, T
<1>4. QED
  BY <1>1, <1>2, <1>3, ChunksOf

LEMMA SimulatedType ==
  ASSUME NEW text \in Seq(Symbols)
  PROVE  /\ SimulatedChunks(text) \in Seq(Chunks)
         /\ \A i \in 1..Len(SimulatedChunks(text)) : ~SimulatedChunks(text)[i].last
<1> DEFINE words == Fields(text)
           T(i) == words[i] \o <<"_">>
<1>1. words \in Seq(Seq(Symbols))
  BY FieldsType
<1>2. SimulatedChunks(text) = [i \in DOMAIN words |-> Text(T(i))]
  BY DEF SimulatedChunks
<1>3. ASSUME NEW i \in DOMAIN words PROVE T(i) \in Seq(Symbols)
  <2>1. words[i] \in Seq(Symbols)
    BY <1>1
  <2>2. QED
    BY <2>1, OneBlank, ConcatProperties
<1> HIDE DEF words, T
<1>4. QED
  BY <1>1, <1>2, <1>3, ChunksOf

LEMMA LiveType ==
  ASSUME NEW answer \in Seq(Seq(Symbols))
  PROVE  /\ LiveChunks(answer) \in Seq(Chunks)
         /\ \A i \in 1..Len(LiveChunks(answer)) : ~LiveChunks(answer)[i].last
<1>1. LiveChunks(answer) = [i \in DOMAIN answer |-> Text(answer[i])]
  BY DEF LiveChunks
<1>2. \A i \in DOMAIN answer : answer[i] \in Seq(Symbols)
  OBVIOUS
<1>3. QED
  BY <1>1, <1>2, ChunksOf

\* Whatever its path, a source is a sequence of chunks of which none is final.
LEMMA SourceType ==
  ASSUME req \in Requests, path = "cache" => stored \in CachedTexts
  PROVE  /\ Source \in Seq(Chunks) /\ Len(Source) \in Nat
         /\ \A i \in 1..Len(Source) : Source[i] \in Chunks /\ ~Source[i].last
<1>1. CASE path = "cache"
  <2>1. Source = ReplayChunks(stored) /\ stored \in Seq(Symbols)
    BY <1>1, StreamAssumption DEF Source
  <2>2. QED
    BY <2>1, ReplayType, LenProperties, ElementOfSeq
<1>2. CASE path # "cache" /\ req.native
  <2>1. Source = LiveChunks(req.answer) /\ req.answer \in Seq(Seq(Symbols))
    BY <1>2, StreamAssumption DEF Source, Requests
  <2>2. QED
    BY <2>1, LiveType, LenProperties, ElementOfSeq
<1>3. CASE path # "cache" /\ ~req.native
  <2>1. Source = SimulatedChunks(req.answer[1])
    BY <1>3 DEF Source
  <2>2. req.answer[1] \in Seq(Symbols)
    <3>1. PICK t \in WholeTexts : req.answer = <<t>>
      BY <1>3 DEF Requests
    <3>2. req.answer[1] = t
      BY <3>1
    <3>3. QED
      BY <3>2, StreamAssumption
  <2>3. QED
    BY <2>1, <2>2, SimulatedType, LenProperties, ElementOfSeq
<1>4. QED
  BY <1>1, <1>2, <1>3

\* The same of the next state.
SourceHasLength ==
  req \in Requests /\ (path = "cache" => stored \in CachedTexts) => Len(Source) \in Nat

LEMMA SourcePrimed == SourceHasLength'
<1>1. SourceHasLength
  BY SourceType DEF SourceHasLength
<1>2. QED
  BY <1>1, PTL

-----------------------------------------------------------------------------
(* The words of what a source sends.                                       *)

\* The texts of the chunks a client has are those of their source: the final
\* chunk has none.
Texts(cs) == [i \in DOMAIN cs |-> cs[i].text]

LEMMA TextsType ==
  ASSUME NEW cs \in Seq(Chunks)
  PROVE  Texts(cs) \in Seq(Seq(Symbols)) /\ Len(Texts(cs)) = Len(cs)
<1>1. DOMAIN cs = 1..Len(cs) /\ Len(cs) \in Nat
  OBVIOUS
<1>2. ASSUME NEW i \in DOMAIN cs PROVE cs[i].text \in Seq(Symbols)
  <2>1. cs[i] \in Chunks
    BY <1>1
  <2>2. QED
    BY <2>1 DEF Chunks
<1>3. Texts(cs) \in [1..Len(cs) -> Seq(Symbols)]
  BY <1>1, <1>2 DEF Texts
<1>4. QED
  BY <1>1, <1>3, GivenByElements

LEMMA FinalHasNoText ==
  ASSUME NEW cs \in Seq(Chunks)
  PROVE  Joined(Append(cs, FinalChunk)) = Joined(cs)
<1> DEFINE longer == Append(cs, FinalChunk)
           t == Append(Texts(cs), <<>>)
           n == Len(cs)
<1>1. FinalChunk \in Chunks /\ FinalChunk.text = <<>> /\ <<>> \in Seq(Symbols)
  BY EmptySeq DEF FinalChunk, Chunks
<1>2. /\ longer \in Seq(Chunks) /\ Len(longer) = n + 1 /\ n \in Nat
      /\ \A i \in 1..n : longer[i] = cs[i]
      /\ longer[n + 1] = FinalChunk
  BY <1>1, AppendProperties, LenProperties
<1>3. DOMAIN cs = 1..n /\ DOMAIN longer = 1..n + 1
  <2> HIDE DEF longer
  <2>1. QED
    BY <1>2
<1> HIDE DEF longer, n
<1>4. /\ Texts(cs) \in Seq(Seq(Symbols)) /\ Len(Texts(cs)) = n
      /\ Texts(longer) \in Seq(Seq(Symbols)) /\ Len(Texts(longer)) = n + 1
  BY <1>2, TextsType DEF n
<1>5. /\ t \in Seq(Seq(Symbols)) /\ Len(t) = n + 1
      /\ \A i \in 1..n : t[i] = Texts(cs)[i]
      /\ t[n + 1] = <<>>
  BY <1>1, <1>4, AppendProperties
<1> HIDE DEF t
<1>6. ASSUME NEW i \in 1..n + 1 PROVE Texts(longer)[i] = t[i]
  <2>1. Texts(longer)[i] = longer[i].text
    BY <1>3 DEF Texts
  <2>2. CASE i = n + 1
    BY <1>1, <1>2, <1>5, <2>1, <2>2
  <2>3. CASE i # n + 1
    <3>1. i \in 1..n
      BY <1>2, <2>3
    <3>2. Texts(cs)[i] = cs[i].text
      BY <1>3, <3>1 DEF Texts
    <3>3. QED
      BY <1>2, <1>5, <2>1, <3>1, <3>2
  <2>4. QED
    BY <2>2, <2>3
<1>7. Texts(longer) = t
  BY <1>4, <1>5, <1>6, SeqEqual
<1>8. FlattenSeq(t) = FlattenSeq(Texts(cs)) \o <<>>
  BY <1>1, <1>4, FlattenAppend DEF t
<1>9. FlattenSeq(Texts(cs)) \in Seq(Symbols)
  BY <1>4, FlattenType
<1>10. FlattenSeq(t) = FlattenSeq(Texts(cs))
  BY <1>8, <1>9, ConcatEmptySeq
<1>11. QED
  BY <1>7, <1>10 DEF Joined, Texts, longer

\* The words of what each source sends are those of what it sends them from.
LEMMA ReplayKeepsWords ==
  ASSUME NEW text \in Seq(Symbols)
  PROVE  Fields(Joined(ReplayChunks(text))) = Fields(text)
<1> DEFINE words == Fields(text)
           cs == ReplayChunks(text)
<1>1. words \in Seq(Words)
  BY FieldsAreWords
<1>2. cs = [i \in DOMAIN words |-> Text(IF i = 1 THEN words[i] ELSE <<"_">> \o words[i])]
  BY DEF ReplayChunks
<1> HIDE DEF words, cs
<1>3. DOMAIN cs = DOMAIN words
  BY <1>2
<1>4. \A i \in DOMAIN words : cs[i].text = IF i = 1 THEN words[i] ELSE <<"_">> \o words[i]
  BY <1>2 DEF Text
<1>5. [i \in DOMAIN cs |-> cs[i].text] = BlankBefore(words)
  BY <1>3, <1>4 DEF BlankBefore
<1>6. Joined(cs) = FlattenSeq(BlankBefore(words))
  BY <1>5 DEF Joined
<1>7. Fields(Joined(cs)) = words
  BY <1>1, <1>6, WordsBetweenBlanks DEF Fields
<1>8. QED
  BY <1>7 DEF words, cs

LEMMA SimulationKeepsWords ==
  ASSUME NEW text \in Seq(Symbols)
  PROVE  Fields(Joined(SimulatedChunks(text))) = Fields(text)
<1> DEFINE words == Fields(text)
           cs == SimulatedChunks(text)
<1>1. words \in Seq(Words)
  BY FieldsAreWords
<1>2. cs = [i \in DOMAIN words |-> Text(words[i] \o <<"_">>)]
  BY DEF SimulatedChunks
<1> HIDE DEF words, cs
<1>3. DOMAIN cs = DOMAIN words
  BY <1>2
<1>4. \A i \in DOMAIN words : cs[i].text = words[i] \o <<"_">>
  BY <1>2 DEF Text
<1>5. [i \in DOMAIN cs |-> cs[i].text] = BlankAfter(words)
  BY <1>3, <1>4 DEF BlankAfter
<1>6. Joined(cs) = FlattenSeq(BlankAfter(words))
  BY <1>5 DEF Joined
<1>7. Scan(Joined(cs)) = [words |-> words, word |-> <<>>]
  BY <1>1, <1>6, WordsAfterBlanks
<1>8. Fields(Joined(cs)) = words
  BY <1>7 DEF Fields, Ended
<1>9. QED
  BY <1>8 DEF words, cs

LEMMA LiveKeepsText ==
  ASSUME NEW answer \in Seq(Seq(Symbols))
  PROVE  Joined(LiveChunks(answer)) = FlattenSeq(answer)
<1> DEFINE cs == LiveChunks(answer)
<1>1. cs = [i \in DOMAIN answer |-> Text(answer[i])]
  BY DEF LiveChunks
<1> HIDE DEF cs
<1>2. DOMAIN cs = DOMAIN answer /\ \A i \in DOMAIN answer : cs[i].text = answer[i]
  BY <1>1 DEF Text
<1>3. answer = [i \in DOMAIN answer |-> answer[i]]
  OBVIOUS
<1>4. [i \in DOMAIN cs |-> cs[i].text] = answer
  BY <1>2, <1>3
<1>5. QED
  BY <1>4 DEF Joined, cs

LEMMA OneText ==
  ASSUME NEW t \in Seq(Symbols)
  PROVE  FlattenSeq(<<t>>) = t
<1>1. <<>> \in Seq(Seq(Symbols)) /\ <<>> \o t = t
  BY EmptySeq, ConcatEmptySeq
<1>2. FlattenSeq(Append(<<>>, t)) = t
  BY <1>1, FlattenAppend, FlattenEmpty
<1>3. Append(<<>>, t) = <<t>>
  OBVIOUS
<1>4. QED
  BY <1>2, <1>3

-----------------------------------------------------------------------------
(* The inductive invariant.                                                *)

Done == mgr \in {"closing", "reporting", "returned"}

\* Who runs, what it may still do to the channels, and what has been left alone
\* by those that have not begun.
Roles ==
  /\ mgr = "lookup" => path = "none"
  /\ mgr = "replaying" => path = "cache"
  /\ mgr \in {"streaming", "closing"} => path = "provider"
  /\ outcome = "none" <=> ~Done
  /\ mgr = "reporting" => req.transport = "ws"
  /\ path = "none" => outcome # "nil"
  /\ forwarder # "none" <=> path = "provider" /\ req.cached
  /\ innerClosed => Done
  /\ outerClosed => IF forwarder = "none" THEN Done ELSE forwarder = "ended"
  /\ forwarder = "ended" => outerClosed

Cached ==
  /\ path # "provider" => stored \in CachedTexts \union {NoText}
  /\ path = "cache" => stored \in CachedTexts

Untouched ==
  /\ path = "none" => pos = 0 /\ outer = <<>> /\ delivered = <<>>
  /\ forwarder = "none" => held = <<>> /\ full = <<>> /\ inner = <<>>
  /\ forwarder = "ended" => held = <<>>
  /\ handler = "closed" => outer = <<>> /\ outerClosed

\* The place of a chunk in the stream.
InPlace(c, k) == IF c.last THEN c = FinalChunk /\ k = pos + 1 /\ Done
                 ELSE k <= pos /\ c = Source[k]

\* What the client has, and what the handler has before it as long as it writes.
OuterFlow ==
  /\ \A k \in 1..Len(delivered) : InPlace(delivered[k], k)
  /\ ~gone => \A k \in 1..Len(outer) : InPlace(outer[k], Len(delivered) + k)

\* What the forwarder has passed on, holds and has before it.
InnerFlow ==
  forwarder = "running" =>
    /\ Len(full) <= pos /\ \A k \in 1..Len(full) : full[k] = Source[k]
    /\ \A k \in 1..Len(held) : InPlace(held[k], Len(full) + k)
    /\ \A k \in 1..Len(inner) : InPlace(inner[k], Len(full) + Len(held) + k)
    /\ ~Done => Len(full) + Len(held) + Len(inner) = pos

\* Nothing has been dropped: while the forwarder runs, or there is none.
Arrived == Len(delivered) + Len(outer)
Pending == Len(held) + Len(inner)

Counted ==
  ~gone =>
    /\ forwarder # "ended" =>
         /\ outcome = "none" => Arrived + Pending = pos
         /\ outcome = "nil" => Arrived + Pending = pos + 1
    /\ forwarder = "running" =>
         Arrived = Len(full) \/ (Arrived = Len(full) + 1 /\ Pending = 0 /\ Done)

\* And when it has ended at a client of gRPC or SSE that stays: the context of
\* such a request ends with its handler or its client.
Whole ==
  req.transport # "ws" /\ ~gone =>
    /\ handler \in {"ranging", "closed"} /\ (ctxDone => handler = "closed")
    /\ forwarder = "ended" =>
         Pending = 0 /\ Done /\ (outcome = "nil" => Arrived = pos + 1)

StreamInv == /\ TypeOK /\ Roles /\ Cached /\ Untouched /\ pos <= Len(Source)
             /\ OuterFlow /\ InnerFlow /\ Counted /\ Whole

-----------------------------------------------------------------------------
(* The steps on each part.                                                 *)

LEMMA RolesStep ==
  ASSUME TypeOK, Roles, Untouched, [Next]_vars
  PROVE  Roles'
<1> USE DEF Done, TypeOK, Roles, Requests, mgrVars, innerVars, fwdVars, outerVars, handlerVars
<1>1. ASSUME Manage PROVE Roles'
  <2>1. CASE Hit \/ Miss \/ NoProvider
    BY <2>1 DEF Hit, Miss, NoProvider, Return
  <2>2. CASE Replay \/ ReplayEnds \/ ReplayGivesUp
    BY <2>2 DEF Replay, ReplayEnds, ReplayGivesUp, Return
  <2>3. CASE Produce
    BY <2>3 DEF Produce, ProviderSends
  <2>4. CASE UpstreamEnds
    BY <2>4 DEF UpstreamEnds, ProviderSends
  <2>5. CASE UpstreamCloses \/ UpstreamFails
    BY <2>5 DEF UpstreamCloses, UpstreamFails, ProviderSends, Return
  <2>6. CASE Report
    BY <2>6 DEF Report
  <2>7. QED
    BY <1>1, <2>1, <2>2, <2>3, <2>4, <2>5, <2>6 DEF Manage
<1>2. ASSUME ForwardStep PROVE Roles'
  BY <1>2 DEF ForwardStep, Receive, Forward, GiveUp, ForwarderEnds
<1>3. ASSUME Handle \/ Leave \/ Timeout \/ UNCHANGED vars PROVE Roles'
  BY <1>3 DEF Handle, Write, WriteFails, SeesClosed, SeesContext, Leave, Timeout, vars
<1>4. QED
  BY <1>1, <1>2, <1>3 DEF Next

LEMMA CachedStep ==
  ASSUME Roles, Cached, [Next]_vars
  PROVE  Cached'
<1> USE DEF Roles, Cached, mgrVars, innerVars, fwdVars, outerVars, handlerVars
<1>1. ASSUME Manage PROVE Cached'
  BY <1>1 DEF Manage, Hit, Miss, NoProvider, Replay, ReplayEnds, ReplayGivesUp, Produce,
     UpstreamEnds, UpstreamCloses, UpstreamFails, Report
<1>2. ASSUME ForwardStep PROVE Cached'
  BY <1>2 DEF ForwardStep, Receive, Forward, GiveUp, ForwarderEnds
<1>3. ASSUME Handle \/ Leave \/ Timeout \/ UNCHANGED vars PROVE Cached'
  BY <1>3 DEF Handle, Write, WriteFails, SeesClosed, SeesContext, Leave, Timeout, vars
<1>4. QED
  BY <1>1, <1>2, <1>3 DEF Next

\* What is sent from where it is sent from.
LEMMA SourceFrame ==
  ASSUME Roles, [Next]_vars, path # "none"
  PROVE  /\ Source' = Source /\ path' = path /\ req' = req
         /\ pos' = pos \/ (pos' = pos + 1 /\ ~Done /\ pos < Len(Source))
         /\ Done => Done' /\ pos' = pos
<1> USE DEF Roles, Done, mgrVars, innerVars, fwdVars, outerVars, handlerVars
<1>1. /\ path' = path /\ req' = req /\ (path = "cache" => stored' = stored)
      /\ pos' = pos \/ (pos' = pos + 1 /\ ~Done /\ pos < Len(Source))
      /\ Done => Done' /\ pos' = pos
  <2>1. CASE Manage
    BY <2>1 DEF Manage, Hit, Miss, NoProvider, Replay, ReplayEnds, ReplayGivesUp, Produce,
       UpstreamEnds, UpstreamCloses, UpstreamFails, Return, Report
  <2>2. CASE ForwardStep
    BY <2>2 DEF ForwardStep, Receive, Forward, GiveUp, ForwarderEnds
  <2>3. CASE Handle \/ Leave \/ Timeout \/ UNCHANGED vars
    BY <2>3 DEF Handle, Write, WriteFails, SeesClosed, SeesContext, Leave, Timeout, vars
  <2>4. QED
    BY <2>1, <2>2, <2>3 DEF Next
<1>2. Source' = Source
  BY <1>1 DEF Source
<1>3. QED
  BY <1>1, <1>2

LEMMA Longer ==
  ASSUME NEW s \in Seq(Chunks), NEW c \in Chunks, NEW n \in Nat, Len(s) < n
  PROVE  Append(s, c) \in Seq(Chunks) /\ Len(Append(s, c)) <= n
<1>1. Append(s, c) \in Seq(Chunks) /\ Len(Append(s, c)) = Len(s) + 1 /\ Len(s) \in Nat
  BY AppendProperties, LenProperties
<1>2. QED
  BY <1>1

\* A provider that closes its channel sends nothing more.
LEMMA ClosesInSilence ==
  ASSUME TypeOK, UpstreamCloses \/ UpstreamFails
  PROVE  /\ inner' = inner /\ outer' = outer
         /\ innerClosed' \in BOOLEAN /\ outerClosed' \in BOOLEAN
<1>1. inner \in Seq(Chunks) /\ outer \in Seq(Chunks) /\ {innerClosed, outerClosed} \subseteq BOOLEAN
  BY DEF TypeOK
<1>2. ProviderSends(<<>>, TRUE)
  BY DEF UpstreamCloses, UpstreamFails
<1>3. (inner' = inner \/ inner' = inner \o <<>>) /\ (outer' = outer \/ outer' = outer \o <<>>)
  BY <1>2 DEF ProviderSends, innerVars, outerVars
<1>4. innerClosed' \in BOOLEAN /\ outerClosed' \in BOOLEAN
  BY <1>1, <1>2 DEF ProviderSends, ProviderCloses, innerVars, outerVars
<1>5. QED
  BY <1>1, <1>3, <1>4, ConcatEmptySeq

LEMMA TypeStep ==
  ASSUME StreamInv, [Next]_vars
  PROVE  TypeOK'
<1>18. /\ inner \in Seq(Chunks) /\ outer \in Seq(Chunks) /\ held \in Seq(Chunks)
      /\ full \in Seq(Chunks) /\ delivered \in Seq(Chunks)
  BY DEF StreamInv, TypeOK
<1>19. Len(inner) <= Capacity /\ Len(outer) <= Capacity /\ Len(held) <= 1 /\ Capacity \in Nat \ {0}
  BY StreamAssumption DEF StreamInv, TypeOK
<1> USE DEF TypeOK, StreamInv, mgrVars, innerVars, fwdVars, outerVars, handlerVars
<1>1. Source \in Seq(Chunks) /\ \A i \in 1..Len(Source) : Source[i] \in Chunks
  BY SourceType DEF Cached
<1>2. FinalChunk \in Chunks
  BY EmptySeq DEF FinalChunk, Chunks
<1>3. req' = req
  BY DEF Next, Manage, Hit, Miss, NoProvider, Replay, ReplayEnds, ReplayGivesUp, Produce,
     UpstreamEnds, UpstreamCloses,
     UpstreamFails, Report, ForwardStep, Receive, Forward, GiveUp, ForwarderEnds, Handle,
     Write, WriteFails, SeesClosed, SeesContext, Leave, Timeout, vars
<1>4. CASE Hit \/ Miss \/ NoProvider \/ ReplayGivesUp \/ Report
  BY <1>4 DEF Hit, Miss, NoProvider, ReplayGivesUp, Report, Return
<1>5. CASE Replay
  <2>1. Source[pos + 1] \in Chunks
    BY <1>1, <1>5, SourceType DEF Replay, Cached
  <2>2. outer' \in Seq(Chunks) /\ Len(outer') <= Capacity
    <3>1. outer' = Append(outer, Source[pos + 1]) /\ Len(outer) < Capacity
      BY <1>5 DEF Replay, Room
    <3>2. QED
      BY <1>18, <1>19, <2>1, <3>1, Longer
  <2>3. QED
    BY <1>5, <2>2 DEF Replay
<1>6. CASE ReplayEnds
  <2>1. outer' \in Seq(Chunks) /\ Len(outer') <= Capacity
    <3>1. outer' = Append(outer, FinalChunk) /\ Len(outer) < Capacity
      BY <1>6 DEF ReplayEnds, Room
    <3>2. QED
      BY <1>18, <1>19, <1>2, <3>1, Longer
  <2>2. QED
    BY <1>6, <2>1 DEF ReplayEnds, Return
<1>7. ASSUME NEW chunks \in Seq(Chunks), NEW closes \in BOOLEAN, Len(chunks) <= 1,
             Room(Sink), ProviderSends(chunks, closes)
      PROVE  /\ inner' \in Seq(Chunks) /\ outer' \in Seq(Chunks)
             /\ Len(inner') <= Capacity /\ Len(outer') <= Capacity
             /\ innerClosed' \in BOOLEAN /\ outerClosed' \in BOOLEAN
  <2>1. innerClosed' \in BOOLEAN /\ outerClosed' \in BOOLEAN
    BY <1>7 DEF ProviderSends, ProviderCloses
  <2>2. CASE req.cached
    <3>1. inner' = inner \o chunks /\ outer' = outer /\ Len(inner) < Capacity
      BY <1>7, <2>2 DEF ProviderSends, Room, Sink
    <3>2. inner' \in Seq(Chunks) /\ Len(inner') = Len(inner) + Len(chunks)
      BY <1>18, <3>1, ConcatProperties
    <3>3. QED
      BY <1>7, <1>18, <1>19, <2>1, <3>1, <3>2, LenProperties
  <2>3. CASE ~req.cached
    <3>1. outer' = outer \o chunks /\ inner' = inner /\ Len(outer) < Capacity
      BY <1>7, <2>3 DEF ProviderSends, Room, Sink
    <3>2. outer' \in Seq(Chunks) /\ Len(outer') = Len(outer) + Len(chunks)
      BY <1>18, <3>1, ConcatProperties
    <3>3. QED
      BY <1>7, <1>18, <1>19, <2>1, <3>1, <3>2, LenProperties
  <2>4. QED
    BY <2>2, <2>3
<1>8. CASE Produce
  <2>1. Source[pos + 1] \in Chunks
    BY <1>1, <1>8, SourceType DEF Produce, Cached
  <2>2. <<Source[pos + 1]>> \in Seq(Chunks) /\ Len(<<Source[pos + 1]>>) <= 1
    BY <2>1
  <2>3. ProviderSends(<<Source[pos + 1]>>, FALSE) /\ Room(Sink)
    BY <1>8 DEF Produce
  <2>4. /\ inner' \in Seq(Chunks) /\ outer' \in Seq(Chunks)
        /\ Len(inner') <= Capacity /\ Len(outer') <= Capacity
        /\ innerClosed' \in BOOLEAN /\ outerClosed' \in BOOLEAN
    BY <1>7, <2>2, <2>3
  <2>5. QED
    BY <1>3, <1>8, <2>4 DEF Produce
<1>9. CASE UpstreamEnds
  <2>1. <<FinalChunk>> \in Seq(Chunks) /\ Len(<<FinalChunk>>) <= 1
    BY <1>2
  <2>2. ProviderSends(<<FinalChunk>>, FALSE) /\ Room(Sink)
    BY <1>9 DEF UpstreamEnds
  <2>3. /\ inner' \in Seq(Chunks) /\ outer' \in Seq(Chunks)
        /\ Len(inner') <= Capacity /\ Len(outer') <= Capacity
        /\ innerClosed' \in BOOLEAN /\ outerClosed' \in BOOLEAN
    BY <1>7, <2>1, <2>2
  <2>4. QED
    BY <1>3, <1>9, <2>3 DEF UpstreamEnds
<1>10. CASE UpstreamCloses \/ UpstreamFails
  <2>1. inner' = inner /\ outer' = outer /\ innerClosed' \in BOOLEAN /\ outerClosed' \in BOOLEAN
    BY <1>10, ClosesInSilence
  <2>2. \E result \in {"none", "nil", "error"} : Return(result)
    BY <1>10 DEF UpstreamCloses, UpstreamFails
  <2>3. QED
    BY <1>3, <1>10, <2>1, <2>2 DEF UpstreamCloses, UpstreamFails, Return
<1>11. CASE Receive
  <2>1. Head(inner) \in Chunks /\ Tail(inner) \in Seq(Chunks) /\ Len(Tail(inner)) <= Len(inner)
    BY <1>11, HeadTailProperties DEF Receive
  <2>2. held' \in Seq(Chunks) /\ Len(held') <= 1 /\ inner' \in Seq(Chunks) /\ Len(inner') <= Capacity
    <3>1. held' = <<Head(inner)>> /\ inner' = Tail(inner)
      BY <1>11 DEF Receive
    <3>2. \A c \in Chunks : <<c>> \in Seq(Chunks) /\ Len(<<c>>) = 1
      OBVIOUS
    <3>3. Len(inner') \in Nat /\ Len(inner) \in Nat
      BY <1>18, <2>1, <3>1, LenProperties
    <3>4. QED
      BY <1>19, <2>1, <3>1, <3>2, <3>3
  <2>3. QED
    BY <1>3, <1>11, <2>2 DEF Receive
<1>12. CASE Forward
  <2>1. Head(held) \in Chunks
    BY <1>12, HeadTailProperties DEF Forward, Nothing
  <2>2. outer' \in Seq(Chunks) /\ Len(outer') <= Capacity
    <3>1. outer' = Append(outer, Head(held)) /\ Len(outer) < Capacity
      BY <1>12 DEF Forward, Room
    <3>2. QED
      BY <1>18, <1>19, <2>1, <3>1, Longer
  <2>3. full' \in Seq(Chunks)
    BY <1>12, <2>1 DEF Forward
  <2>4. held' = <<>>
    BY <1>12 DEF Forward, AfterSend, Nothing
  <2>5. QED
    BY <1>3, <1>12, <2>2, <2>3, <2>4 DEF Forward
<1>13. CASE GiveUp \/ ForwarderEnds
  <2>1. held' = <<>> /\ UNCHANGED <<inner, outer, full, delivered>>
    BY <1>13 DEF GiveUp, ForwarderEnds, Nothing
  <2>2. held' \in Seq(Chunks) /\ Len(held') = 0
    BY <2>1, EmptySeq
  <2>3. /\ {inner', outer', held', full', delivered'} \subseteq Seq(Chunks)
        /\ Len(inner') <= Capacity /\ Len(outer') <= Capacity /\ Len(held') <= 1
    BY <1>18, <1>19, <2>1, <2>2
  <2>4. /\ forwarder' = "ended" /\ outerClosed' = TRUE
        /\ UNCHANGED <<mgrVars, innerClosed, handler, gone, ctxDone>>
    BY <1>13 DEF GiveUp, ForwarderEnds
  <2>5. QED
    BY <1>3, <2>3, <2>4
<1>14. CASE Write
  <2>1. /\ Head(outer) \in Chunks /\ Tail(outer) \in Seq(Chunks)
        /\ Len(Tail(outer)) <= Len(outer)
    BY <1>14, HeadTailProperties DEF Write
  <2>2. /\ delivered' \in Seq(Chunks) /\ outer' \in Seq(Chunks) /\ Len(outer') <= Capacity
    <3>1. delivered' = Append(delivered, Head(outer)) /\ outer' = Tail(outer)
      BY <1>14 DEF Write
    <3>2. delivered' \in Seq(Chunks)
      BY <1>18, <2>1, <3>1, AppendProperties
    <3>3. Len(outer') \in Nat /\ Len(outer) \in Nat
      BY <1>18, <2>1, <3>1, LenProperties
    <3>4. QED
      BY <1>19, <2>1, <3>1, <3>2, <3>3
  <2>3. QED
    BY <1>3, <1>14, <2>2 DEF Write
<1>15. CASE WriteFails
  <2>1. outer' \in Seq(Chunks) /\ Len(outer') <= Capacity
    <3>1. outer' = Tail(outer) /\ outer # <<>>
      BY <1>15 DEF WriteFails
    <3>2. outer' \in Seq(Chunks) /\ Len(outer') = Len(outer) - 1
      BY <1>18, <3>1, HeadTailProperties
    <3>3. Len(outer) \in Nat
      BY <1>18, LenProperties
    <3>4. QED
      BY <1>19, <3>2, <3>3
  <2>2. QED
    BY <1>3, <1>15, <2>1 DEF WriteFails, HandlerEnds
<1>16. CASE SeesClosed \/ SeesContext \/ Leave \/ Timeout \/ UNCHANGED vars
  BY <1>3, <1>16 DEF SeesClosed, SeesContext, Leave, Timeout, HandlerEnds, vars
<1>17. QED
  BY <1>4, <1>5, <1>6, <1>8, <1>9, <1>10, <1>11, <1>12, <1>13, <1>14, <1>15, <1>16
     DEF Next, Manage, ForwardStep, Handle

LEMMA UntouchedStep ==
  ASSUME TypeOK, Roles, Untouched, [Next]_vars
  PROVE  Untouched'
<1> USE DEF TypeOK, Roles, Untouched, Done, mgrVars, innerVars, fwdVars, outerVars, handlerVars
<1>1. CASE Manage
  <2>1. CASE Hit \/ Miss \/ NoProvider \/ Report \/ ReplayGivesUp
    BY <2>1 DEF Hit, Miss, NoProvider, Report, ReplayGivesUp, Return
  <2>2. CASE Replay \/ ReplayEnds
    BY <2>2 DEF Replay, ReplayEnds, Return
  <2>3. CASE Produce \/ UpstreamEnds
    BY <2>3 DEF Produce, UpstreamEnds, ProviderSends
  <2>4. CASE UpstreamCloses \/ UpstreamFails
    <3>1. inner' = inner /\ outer' = outer
      BY <2>4, ClosesInSilence
    <3>2. path = "provider" /\ (outerClosed => outerClosed') /\ path' = path
      BY <2>4 DEF UpstreamCloses, UpstreamFails, ProviderSends, ProviderCloses
    <3>3. QED
      BY <2>4, <3>1, <3>2 DEF UpstreamCloses, UpstreamFails
  <2>5. QED
    BY <1>1, <2>1, <2>2, <2>3, <2>4 DEF Manage
<1>2. CASE ForwardStep
  BY <1>2 DEF ForwardStep, Receive, Forward, GiveUp, ForwarderEnds, Nothing
<1>3. CASE Handle \/ Leave \/ Timeout \/ UNCHANGED vars
  BY <1>3 DEF Handle, Write, WriteFails, SeesClosed, SeesContext, Leave, Timeout, HandlerEnds, vars
<1>4. QED
  BY <1>1, <1>2, <1>3 DEF Next

LEMMA PosStep ==
  ASSUME StreamInv, [Next]_vars
  PROVE  pos' <= Len(Source')
<1>1. CASE path # "none"
  BY <1>1, SourceFrame, SourceType DEF StreamInv, TypeOK, Cached
<1>2. CASE path = "none"
  <2>1. pos' = 0
    BY <1>2 DEF StreamInv, Roles, Untouched, Done, Next, Manage, Hit, Miss, NoProvider, Replay,
       ReplayEnds, ReplayGivesUp, Produce, UpstreamEnds, UpstreamCloses, UpstreamFails, Report, ForwardStep,
       Receive, Forward, GiveUp, ForwarderEnds, Handle, Write, WriteFails, SeesClosed,
       SeesContext, Leave, Timeout, vars, mgrVars
  <2>2. Len(Source') \in Nat
    <3>1. req' \in Requests /\ (path' = "cache" => stored' \in CachedTexts)
      BY TypeStep, CachedStep DEF StreamInv, TypeOK, Cached
    <3>2. QED
      BY <3>1, SourcePrimed DEF SourceHasLength
  <2>3. QED
    BY <2>1, <2>2
<1>3. QED
  BY <1>1, <1>2

-----------------------------------------------------------------------------
(* Where the chunks are after a step.                                      *)

\* InPlace in the state that the step leads to.
PlaceAfter(c, k) == IF c.last THEN c = FinalChunk /\ k = pos' + 1 /\ Done'
                    ELSE k <= pos' /\ c = Source'[k]

LEMMA PlaceKept ==
  ASSUME TypeOK, Roles, [Next]_vars, path # "none", NEW c, NEW k \in Int, InPlace(c, k)
  PROVE  PlaceAfter(c, k)
<1>1. /\ Source' = Source
      /\ pos' = pos \/ pos' = pos + 1
      /\ Done => Done' /\ pos' = pos
  BY SourceFrame
<1>2. pos \in Nat
  BY DEF TypeOK
<1>3. CASE c.last
  BY <1>1, <1>3 DEF InPlace, PlaceAfter
<1>4. CASE ~c.last
  BY <1>1, <1>2, <1>4 DEF InPlace, PlaceAfter
<1>5. QED
  BY <1>3, <1>4

\* A provider or a replay sends a chunk to the channel it was given.
Sends(c) ==
  /\ outcome = "none"
  /\ \/ c = Source[pos + 1] /\ pos < Len(Source) /\ pos' = pos + 1 /\ outcome' = "none"
     \/ c = FinalChunk /\ pos' = pos /\ outcome' \in {"nil", "error"}
  /\ \/ forwarder # "none" /\ inner' = Append(inner, c) /\ outer' = outer
     \/ forwarder = "none" /\ outer' = Append(outer, c) /\ inner' = inner
  /\ UNCHANGED <<delivered, held, full, forwarder, handler, gone>>

\* No chunk moves; StreamGenerate may return with an error.
Idles ==
  /\ UNCHANGED <<pos, outer, delivered, inner, held, full, forwarder>>
  /\ outcome' = outcome \/ (outcome = "none" /\ outcome' = "error")
  /\ gone => gone'

LEMMA Moves ==
  ASSUME StreamInv, [Next]_vars, path # "none"
  PROVE  \/ Idles \/ \E c \in Chunks : Sends(c)
         \/ Receive \/ Forward \/ GiveUp \/ ForwarderEnds \/ Write \/ WriteFails
<1> USE DEF StreamInv, TypeOK, Roles, mgrVars, innerVars, fwdVars, outerVars, handlerVars
<1>1. \A i \in 1..Len(Source) : Source[i] \in Chunks
  BY SourceType DEF Cached
<1>2. Len(Source) \in Nat
  BY SourceType DEF Cached
<1>3. FinalChunk \in Chunks
  BY EmptySeq DEF FinalChunk, Chunks
<1>4. pos < Len(Source) => Source[pos + 1] \in Chunks
  BY <1>1, <1>2
<1>5. \A s \in Seq(Chunks) : \A c \in Chunks : s \o <<c>> = Append(s, c)
  BY AppendIsConcat
<1>6. CASE Hit \/ Miss \/ NoProvider
  BY <1>6 DEF Hit, Miss, NoProvider
<1>7. CASE ReplayGivesUp \/ Report
  BY <1>7 DEF ReplayGivesUp, Report, Return, Idles, Done
<1>8. CASE Replay
  <2>1. Sends(Source[pos + 1])
    BY <1>8 DEF Replay, Sends, Done
  <2>2. QED
    BY <1>4, <1>8, <2>1 DEF Replay
<1>9. CASE ReplayEnds
  <2>1. Sends(FinalChunk)
    BY <1>9 DEF ReplayEnds, Return, Sends, Done
  <2>2. QED
    BY <1>3, <2>1
<1>10. ASSUME NEW c \in Chunks, NEW closes, mgr = "streaming", ProviderSends(<<c>>, closes)
       PROVE  \/ forwarder # "none" /\ inner' = Append(inner, c) /\ outer' = outer
              \/ forwarder = "none" /\ outer' = Append(outer, c) /\ inner' = inner
  <2>1. inner \o <<c>> = Append(inner, c) /\ outer \o <<c>> = Append(outer, c)
    BY <1>5
  <2>2. QED
    BY <1>10, <2>1 DEF ProviderSends
<1>11. CASE Produce
  <2>1. Source[pos + 1] \in Chunks /\ ProviderSends(<<Source[pos + 1]>>, FALSE) /\ mgr = "streaming"
    BY <1>4, <1>11 DEF Produce
  <2>2. \/ forwarder # "none" /\ inner' = Append(inner, Source[pos + 1]) /\ outer' = outer
        \/ forwarder = "none" /\ outer' = Append(outer, Source[pos + 1]) /\ inner' = inner
    BY <1>10, <2>1
  <2>3. Sends(Source[pos + 1])
    BY <1>11, <2>2 DEF Produce, Sends, Done
  <2>4. QED
    BY <2>1, <2>3
<1>12. CASE UpstreamEnds
  <2>1. ProviderSends(<<FinalChunk>>, FALSE) /\ mgr = "streaming"
    BY <1>12 DEF UpstreamEnds
  <2>2. \/ forwarder # "none" /\ inner' = Append(inner, FinalChunk) /\ outer' = outer
        \/ forwarder = "none" /\ outer' = Append(outer, FinalChunk) /\ inner' = inner
    BY <1>3, <1>10, <2>1
  <2>3. Sends(FinalChunk)
    BY <1>12, <2>2 DEF UpstreamEnds, Sends, Done
  <2>4. QED
    BY <1>3, <2>3
<1>13. CASE UpstreamCloses \/ UpstreamFails
  <2>1. inner' = inner /\ outer' = outer
    BY <1>13, ClosesInSilence
  <2>2. QED
    BY <1>13, <2>1 DEF UpstreamCloses, UpstreamFails, Return, Idles, Done
<1>14. CASE SeesClosed \/ SeesContext \/ Leave \/ Timeout \/ UNCHANGED vars
  BY <1>14 DEF SeesClosed, SeesContext, Leave, Timeout, Idles, vars
<1>15. QED
  BY <1>6, <1>7, <1>8, <1>9, <1>11, <1>12, <1>13, <1>14 DEF Next, Manage, ForwardStep, Handle

\* Before StreamGenerate has chosen where the chunks come from there are none.
LEMMA FromNothing ==
  ASSUME StreamInv, [Next]_vars, path = "none"
  PROVE  /\ pos' = 0 /\ outcome' # "nil" /\ forwarder' # "ended"
         /\ outer' = <<>> /\ delivered' = <<>> /\ inner' = <<>> /\ held' = <<>> /\ full' = <<>>
<1> USE DEF StreamInv, TypeOK, Roles, Untouched, mgrVars, innerVars, fwdVars, outerVars, handlerVars
<1>1. /\ pos = 0 /\ outcome # "nil" /\ forwarder = "none"
      /\ outer = <<>> /\ delivered = <<>> /\ inner = <<>> /\ held = <<>> /\ full = <<>>
  OBVIOUS
<1>2. CASE Manage
  BY <1>1, <1>2 DEF Manage, Hit, Miss, NoProvider, Replay, ReplayEnds, ReplayGivesUp, Produce,
     UpstreamEnds, UpstreamCloses, UpstreamFails, Report, Return
<1>3. CASE ForwardStep
  BY <1>1, <1>3 DEF ForwardStep, Receive, Forward, GiveUp, ForwarderEnds
<1>4. CASE Handle \/ Leave \/ Timeout \/ UNCHANGED vars
  BY <1>1, <1>4 DEF Handle, Write, WriteFails, SeesClosed, SeesContext, Leave, Timeout, vars
<1>5. QED
  BY <1>2, <1>3, <1>4 DEF Next

LEMMA AtEnd ==
  ASSUME NEW s \in Seq(Chunks), NEW c \in Chunks
  PROVE  /\ Len(s) \in Nat /\ Len(Append(s, c)) = Len(s) + 1
         /\ \A i \in 1..Len(s) : Append(s, c)[i] = s[i]
         /\ Append(s, c)[Len(s) + 1] = c
BY AppendProperties, LenProperties

LEMMA AtHead ==
  ASSUME NEW s \in Seq(Chunks), s # <<>>
  PROVE  /\ Len(s) \in Nat \ {0} /\ Head(s) = s[1] /\ Head(s) \in Chunks
         /\ Tail(s) \in Seq(Chunks) /\ Len(Tail(s)) = Len(s) - 1
         /\ \A i \in 1..Len(s) - 1 : Tail(s)[i] = s[i + 1]
<1>1. Len(s) \in Nat \ {0}
  BY EmptySeq
<1>2. Tail(s) \in Seq(Chunks) /\ Len(Tail(s)) = Len(s) - 1 /\ Head(s) \in Chunks
  BY HeadTailProperties
<1>3. \A i \in 1..Len(s) - 1 : Tail(s)[i] = s[i + 1]
  BY <1>2, HeadTailProperties
<1>4. Head(s) = s[1]
  BY <1>1
<1>5. QED
  BY <1>1, <1>2, <1>3, <1>4

LEMMA Channels ==
  ASSUME TypeOK
  PROVE  /\ inner \in Seq(Chunks) /\ outer \in Seq(Chunks) /\ held \in Seq(Chunks)
         /\ full \in Seq(Chunks) /\ delivered \in Seq(Chunks)
         /\ Len(inner) \in Nat /\ Len(outer) \in Nat /\ Len(held) \in Nat
         /\ Len(full) \in Nat /\ Len(delivered) \in Nat /\ pos \in Nat
<1>1. /\ inner \in Seq(Chunks) /\ outer \in Seq(Chunks) /\ held \in Seq(Chunks)
      /\ full \in Seq(Chunks) /\ delivered \in Seq(Chunks) /\ pos \in Nat
  BY DEF TypeOK
<1>2. QED
  BY <1>1, LenProperties

\* What is sent takes the place after all that has been sent.
LEMMA SentInPlace ==
  ASSUME StreamInv, [Next]_vars, path # "none", NEW c \in Chunks, Sends(c)
  PROVE  PlaceAfter(c, pos + 1)
<1>1. Source' = Source /\ pos \in Nat /\ Len(Source) \in Nat
  BY SourceFrame, SourceType DEF StreamInv, TypeOK, Cached
<1>2. CASE c = Source[pos + 1] /\ pos < Len(Source) /\ pos' = pos + 1
  <2>1. ~Source[pos + 1].last
    BY <1>1, <1>2, SourceType DEF StreamInv, TypeOK, Cached
  <2>2. QED
    BY <1>1, <1>2, <2>1 DEF PlaceAfter
<1>3. CASE c = FinalChunk /\ pos' = pos /\ outcome' \in {"nil", "error"}
  <2>1. Done' /\ FinalChunk.last
    BY <1>3, RolesStep DEF StreamInv, Roles, Done, FinalChunk
  <2>2. QED
    BY <1>1, <1>3, <2>1 DEF PlaceAfter
<1>4. QED
  BY <1>2, <1>3 DEF Sends

LEMMA OuterStep ==
  ASSUME StreamInv, [Next]_vars
  PROVE  OuterFlow'
<1>1. SUFFICES /\ \A k \in 1..Len(delivered') : PlaceAfter(delivered'[k], k)
               /\ ~gone' => \A k \in 1..Len(outer') : PlaceAfter(outer'[k], Len(delivered') + k)
  BY DEF OuterFlow, InPlace, PlaceAfter
<1>2. CASE path = "none"
  <2>1. Len(delivered') = 0 /\ Len(outer') = 0
    BY <1>2, FromNothing, EmptySeq
  <2>2. QED
    BY <2>1
<1>3. CASE path # "none"
  <2> USE <1>3
  <2>1. /\ inner \in Seq(Chunks) /\ outer \in Seq(Chunks) /\ held \in Seq(Chunks)
        /\ delivered \in Seq(Chunks) /\ Len(outer) \in Nat /\ Len(delivered) \in Nat /\ pos \in Nat
    BY Channels DEF StreamInv
  <2>2. \A k \in 1..Len(delivered) : PlaceAfter(delivered[k], k)
    BY PlaceKept, <2>1 DEF StreamInv, OuterFlow
  <2>3. ~gone => \A k \in 1..Len(outer) : PlaceAfter(outer[k], Len(delivered) + k)
    <3>1. ASSUME ~gone, NEW k \in 1..Len(outer) PROVE PlaceAfter(outer[k], Len(delivered) + k)
      <4>1. InPlace(outer[k], Len(delivered) + k)
        BY <3>1 DEF StreamInv, OuterFlow
      <4>2. QED
        BY <2>1, <4>1, PlaceKept DEF StreamInv
    <3>2. QED
      BY <3>1
  <2>4. CASE UNCHANGED <<outer, delivered>> /\ (gone => gone')
    BY <2>2, <2>3, <2>4
  <2>5. ASSUME NEW c \in Chunks, outer' = Append(outer, c), delivered' = delivered, gone' = gone,
               ~gone => PlaceAfter(c, Len(delivered) + Len(outer) + 1)
        PROVE  /\ \A k \in 1..Len(delivered') : PlaceAfter(delivered'[k], k)
               /\ ~gone' => \A k \in 1..Len(outer') : PlaceAfter(outer'[k], Len(delivered') + k)
    <3>1. /\ Len(outer') = Len(outer) + 1 /\ outer'[Len(outer) + 1] = c
          /\ \A i \in 1..Len(outer) : outer'[i] = outer[i]
      BY <2>1, <2>5, AtEnd
    <3>2. ASSUME ~gone, NEW k \in 1..Len(outer') PROVE PlaceAfter(outer'[k], Len(delivered') + k)
      <4>1. CASE k = Len(outer) + 1
        <5>1. Len(delivered') + k = Len(delivered) + Len(outer) + 1
          BY <2>1, <2>5, <4>1
        <5>2. QED
          BY <2>5, <3>1, <3>2, <4>1, <5>1
      <4>2. CASE k # Len(outer) + 1
        <5>1. k \in 1..Len(outer)
          BY <2>1, <3>1, <4>2
        <5>2. QED
          BY <2>3, <2>5, <3>1, <3>2, <5>1
      <4>3. QED
        BY <4>1, <4>2
    <3>3. QED
      BY <2>2, <2>5, <3>2
  <2>6. ASSUME NEW c \in Chunks, Sends(c)
        PROVE  /\ \A k \in 1..Len(delivered') : PlaceAfter(delivered'[k], k)
               /\ ~gone' => \A k \in 1..Len(outer') : PlaceAfter(outer'[k], Len(delivered') + k)
    <3>1. CASE forwarder # "none"
      BY <2>4, <2>6, <3>1 DEF Sends
    <3>2. CASE forwarder = "none"
      <4>1. outer' = Append(outer, c) /\ delivered' = delivered /\ gone' = gone /\ outcome = "none"
        BY <2>6, <3>2 DEF Sends
      <4>2. ASSUME ~gone PROVE Len(delivered) + Len(outer) = pos
        <5>1. held = <<>> /\ inner = <<>>
          BY <3>2 DEF StreamInv, Untouched
        <5>2. Len(held) = 0 /\ Len(inner) = 0
          BY <5>1, EmptySeq
        <5>3. QED
          BY <2>1, <3>2, <4>1, <4>2, <5>2 DEF StreamInv, Counted, Arrived, Pending
      <4>3. PlaceAfter(c, pos + 1)
        BY <2>6, SentInPlace
      <4>4. QED
        BY <2>5, <4>1, <4>2, <4>3
    <3>3. QED
      BY <3>1, <3>2
  <2>7. CASE Forward
    <3>1. /\ forwarder = "running" /\ held # <<>> /\ outer' = Append(outer, Head(held))
          /\ delivered' = delivered /\ gone' = gone
      BY <2>7 DEF Forward, Nothing, handlerVars
    <3>2. /\ Len(held) \in Nat \ {0} /\ Head(held) = held[1] /\ Head(held) \in Chunks
      BY <2>1, <3>1, AtHead
    <3>3. Len(full) \in Nat /\ InPlace(held[1], Len(full) + 1)
      BY <3>1, <3>2, Channels DEF StreamInv, InnerFlow
    <3>4. PlaceAfter(Head(held), Len(full) + 1)
      BY <3>2, <3>3, PlaceKept DEF StreamInv
    <3>5. ASSUME ~gone PROVE Len(delivered) + Len(outer) = Len(full)
      <4>1. Pending # 0
        BY <3>2, Channels DEF Pending, StreamInv
      <4>2. QED
        BY <3>1, <3>5, <4>1 DEF StreamInv, Counted, Arrived
    <3>6. QED
      BY <2>5, <3>1, <3>2, <3>4, <3>5
  <2>8. CASE Write
    <3>1. /\ outer # <<>> /\ ~gone /\ delivered' = Append(delivered, Head(outer))
          /\ outer' = Tail(outer)
      BY <2>8 DEF Write
    <3>2. /\ Len(outer) \in Nat \ {0} /\ Head(outer) = outer[1] /\ Head(outer) \in Chunks
          /\ Len(outer') = Len(outer) - 1 /\ \A i \in 1..Len(outer) - 1 : outer'[i] = outer[i + 1]
      BY <2>1, <3>1, AtHead
    <3>3. /\ Len(delivered') = Len(delivered) + 1 /\ delivered'[Len(delivered) + 1] = outer[1]
          /\ \A i \in 1..Len(delivered) : delivered'[i] = delivered[i]
      BY <2>1, <3>1, <3>2, AtEnd
    <3>4. PlaceAfter(outer[1], Len(delivered) + 1)
      BY <2>3, <3>1, <3>2
    <3>5. ASSUME NEW k \in 1..Len(delivered') PROVE PlaceAfter(delivered'[k], k)
      <4>1. CASE k = Len(delivered) + 1
        BY <3>3, <3>4, <4>1
      <4>2. CASE k # Len(delivered) + 1
        <5>1. k \in 1..Len(delivered)
          BY <2>1, <3>3, <4>2
        <5>2. QED
          BY <2>2, <3>3, <5>1
      <4>3. QED
        BY <4>1, <4>2
    <3>6. ASSUME NEW k \in 1..Len(outer') PROVE PlaceAfter(outer'[k], Len(delivered') + k)
      <4>1. k + 1 \in 1..Len(outer) /\ k \in 1..Len(outer) - 1
        BY <3>2
      <4>2. PlaceAfter(outer[k + 1], Len(delivered) + (k + 1))
        BY <2>3, <3>1, <4>1
      <4>3. Len(delivered) + (k + 1) = Len(delivered') + k
        BY <2>1, <3>3
      <4>4. QED
        BY <3>2, <4>1, <4>2, <4>3
    <3>7. QED
      BY <3>5, <3>6
  <2>9. CASE WriteFails
    BY <2>2, <2>9 DEF WriteFails
  <2>10. CASE Idles \/ Receive \/ GiveUp \/ ForwarderEnds
    BY <2>4, <2>10 DEF Idles, Receive, GiveUp, ForwarderEnds, outerVars, handlerVars
  <2>11. QED
    BY <2>6, <2>7, <2>8, <2>9, <2>10, Moves
<1>4. QED
  BY <1>2, <1>3

\* Behind a final chunk that the forwarder holds there is nothing.
LEMMA HeldLast ==
  ASSUME StreamInv, forwarder = "running", held # <<>>, Head(held).last
  PROVE  /\ Head(held) = held[1] /\ Len(held) = 1
         /\ Len(full) = pos /\ Len(inner) = 0 /\ Done
<1>1. /\ held \in Seq(Chunks) /\ Len(inner) \in Nat /\ Len(full) \in Nat /\ pos \in Nat
  BY Channels DEF StreamInv
<1>2. Len(held) \in Nat \ {0} /\ Head(held) = held[1]
  BY <1>1, AtHead
<1>3. Len(held) = 1
  <2>1. Len(held) <= 1
    BY DEF StreamInv, TypeOK
  <2>2. \A n \in Nat \ {0} : n <= 1 => n = 1
    OBVIOUS
  <2>3. QED
    BY <1>2, <2>1, <2>2
<1>4. /\ \A k \in 1..Len(held) : InPlace(held[k], Len(full) + k)
      /\ \A k \in 1..Len(inner) : InPlace(inner[k], Len(full) + Len(held) + k)
  BY DEF StreamInv, InnerFlow
<1>5. Len(full) = pos /\ Done
  BY <1>1, <1>2, <1>3, <1>4 DEF InPlace
<1>6. Len(inner) = 0
  <2>1. SUFFICES ASSUME Len(inner) # 0 PROVE FALSE
    OBVIOUS
  <2>2. InPlace(inner[1], Len(full) + Len(held) + 1)
    BY <1>1, <1>4, <2>1
  <2>3. QED
    BY <1>1, <1>3, <1>5, <2>2 DEF InPlace
<1>7. QED
  BY <1>2, <1>3, <1>5, <1>6

LEMMA InnerStep ==
  ASSUME StreamInv, [Next]_vars
  PROVE  InnerFlow'
<1>1. SUFFICES ASSUME forwarder' = "running"
               PROVE  /\ Len(full') <= pos' /\ \A k \in 1..Len(full') : full'[k] = Source'[k]
                      /\ \A k \in 1..Len(held') : PlaceAfter(held'[k], Len(full') + k)
                      /\ \A k \in 1..Len(inner') :
                           PlaceAfter(inner'[k], Len(full') + Len(held') + k)
                      /\ ~Done' => Len(full') + Len(held') + Len(inner') = pos'
  BY DEF InnerFlow, InPlace, PlaceAfter
<1>2. CASE path = "none"
  <2>1. Len(full') = 0 /\ Len(held') = 0 /\ Len(inner') = 0 /\ pos' = 0
    BY <1>2, FromNothing, EmptySeq
  <2>2. QED
    BY <2>1
<1>3. CASE path # "none"
  <2> USE <1>3
  <2>1. /\ inner \in Seq(Chunks) /\ held \in Seq(Chunks) /\ full \in Seq(Chunks)
        /\ Len(inner) \in Nat /\ Len(held) \in Nat /\ Len(full) \in Nat /\ pos \in Nat
    BY Channels DEF StreamInv
  <2>2. /\ Source' = Source /\ (pos' = pos \/ pos' = pos + 1)
        /\ Done => Done' /\ pos' = pos
    BY SourceFrame DEF StreamInv
  <2>3. CASE forwarder # "running"
    <3>1. path # "none" => forwarder' = forwarder \/ forwarder' = "ended"
      BY DEF StreamInv, Roles, Next, Manage, Hit, Miss, NoProvider, Replay, ReplayEnds,
         ReplayGivesUp, Produce, UpstreamEnds, UpstreamCloses, UpstreamFails, Report, ForwardStep, Receive,
         Forward, GiveUp, ForwarderEnds, Handle, Write, WriteFails, SeesClosed, SeesContext,
         Leave, Timeout, vars, mgrVars, innerVars, fwdVars, outerVars, handlerVars
    <3>2. QED
      BY <1>1, <2>3, <3>1
  <2>4. CASE forwarder = "running"
    <3>1. /\ Len(full) <= pos /\ \A k \in 1..Len(full) : full[k] = Source[k]
          /\ \A k \in 1..Len(held) : InPlace(held[k], Len(full) + k)
          /\ \A k \in 1..Len(inner) : InPlace(inner[k], Len(full) + Len(held) + k)
          /\ ~Done => Len(full) + Len(held) + Len(inner) = pos
      BY <2>4 DEF StreamInv, InnerFlow
    <3>2. Len(full) <= pos' /\ \A k \in 1..Len(full) : full[k] = Source'[k]
      <4>1. Len(full) <= pos'
        BY <2>1, <2>2, <3>1
      <4>2. \A k \in 1..Len(full) : full[k] = Source'[k]
        BY <2>2, <3>1
      <4>3. QED
        BY <4>1, <4>2
    <3>3. \A k \in 1..Len(held) : PlaceAfter(held[k], Len(full) + k)
      <4>1. \A k \in 1..Len(held) : Len(full) + k \in Int
        BY <2>1
      <4>2. QED
        BY <3>1, <4>1, PlaceKept DEF StreamInv
    <3>4. \A k \in 1..Len(inner) : PlaceAfter(inner[k], Len(full) + Len(held) + k)
      <4>1. \A k \in 1..Len(inner) : Len(full) + Len(held) + k \in Int
        BY <2>1
      <4>2. QED
        BY <3>1, <4>1, PlaceKept DEF StreamInv
    <3>5. CASE UNCHANGED <<full, held, inner>> /\ pos' = pos
      BY <2>2, <3>1, <3>2, <3>3, <3>4, <3>5
    <3>6. ASSUME NEW c \in Chunks, Sends(c)
          PROVE  /\ Len(full') <= pos' /\ \A k \in 1..Len(full') : full'[k] = Source'[k]
                 /\ \A k \in 1..Len(held') : PlaceAfter(held'[k], Len(full') + k)
                 /\ \A k \in 1..Len(inner') :
                      PlaceAfter(inner'[k], Len(full') + Len(held') + k)
                 /\ ~Done' => Len(full') + Len(held') + Len(inner') = pos'
      <4>1. /\ inner' = Append(inner, c) /\ full' = full /\ held' = held /\ outcome = "none"
            /\ pos' = pos + 1 \/ (pos' = pos /\ outcome' # "none")
        BY <2>4, <3>6 DEF Sends
      <4>2. /\ Len(inner') = Len(inner) + 1 /\ inner'[Len(inner) + 1] = c
            /\ \A i \in 1..Len(inner) : inner'[i] = inner[i]
        BY <2>1, <4>1, AtEnd
      <4>3. ~Done /\ Len(full) + Len(held) + Len(inner) = pos
        BY <3>1, <4>1 DEF StreamInv, Roles
      <4>4. PlaceAfter(c, pos + 1)
        BY <3>6, SentInPlace
      <4>5. ASSUME NEW k \in 1..Len(inner')
            PROVE  PlaceAfter(inner'[k], Len(full) + Len(held) + k)
        <5>1. CASE k = Len(inner) + 1
          <6>1. Len(full) + Len(held) + k = pos + 1
            BY <2>1, <4>3, <5>1
          <6>2. QED
            BY <4>2, <4>4, <5>1, <6>1
        <5>2. CASE k # Len(inner) + 1
          <6>1. k \in 1..Len(inner)
            BY <2>1, <4>2, <5>2
          <6>2. QED
            BY <3>4, <4>2, <6>1
        <5>3. QED
          BY <5>1, <5>2
      <4>6. outcome' # "none" => Done'
        BY RolesStep DEF StreamInv, Roles
      <4>7. ~Done' => Len(full) + Len(held) + Len(inner') = pos'
        <5>1. ASSUME ~Done' PROVE pos' = pos + 1
          BY <4>1, <4>6, <5>1
        <5>2. Len(full) + Len(held) + Len(inner') = pos + 1
          BY <2>1, <4>2, <4>3
        <5>3. QED
          BY <5>1, <5>2
      <4>8. QED
        BY <3>2, <3>3, <4>1, <4>5, <4>7
    <3>7. CASE Receive
      <4>1. /\ held = <<>> /\ inner # <<>> /\ held' = <<Head(inner)>> /\ inner' = Tail(inner)
            /\ full' = full /\ pos' = pos /\ (Done' <=> Done)
        BY <3>7 DEF Receive, Nothing, mgrVars, Done
      <4>2. /\ Len(inner) \in Nat \ {0} /\ Head(inner) = inner[1]
            /\ Len(inner') = Len(inner) - 1 /\ \A i \in 1..Len(inner) - 1 : inner'[i] = inner[i + 1]
        BY <2>1, <4>1, AtHead
      <4>3. Len(held) = 0 /\ Len(held') = 1 /\ held'[1] = inner[1]
        BY <4>1, <4>2, EmptySeq
      <4>4. PlaceAfter(held'[1], Len(full) + 1)
        BY <2>1, <3>4, <4>2, <4>3
      <4>5. ASSUME NEW k \in 1..Len(inner')
            PROVE  PlaceAfter(inner'[k], Len(full) + Len(held') + k)
        <5>1. k + 1 \in 1..Len(inner) /\ k \in 1..Len(inner) - 1
          BY <4>2
        <5>2. PlaceAfter(inner[k + 1], Len(full) + Len(held) + (k + 1))
          BY <3>4, <5>1
        <5>3. Len(full) + Len(held) + (k + 1) = Len(full) + Len(held') + k
          BY <2>1, <4>3
        <5>4. QED
          BY <4>2, <5>1, <5>2, <5>3
      <4>6. ~Done => Len(full) + Len(held') + Len(inner') = pos
        <5>1. Len(full) + Len(held') + Len(inner') = Len(full) + Len(held) + Len(inner)
          BY <2>1, <4>2, <4>3
        <5>2. QED
          BY <3>1, <5>1
      <4>7. \A k \in 1..Len(held') : k = 1
        BY <4>3
      <4>8. \A k \in 1..Len(held') : PlaceAfter(held'[k], Len(full) + k)
        BY <4>4, <4>7
      <4>9. ~Done' => Len(full') + Len(held') + Len(inner') = pos'
        BY <4>1, <4>6
      <4>10. QED
        BY <3>2, <4>1, <4>5, <4>8, <4>9
    <3>8. CASE Forward
      <4>1. /\ held # <<>> /\ held' = <<>> /\ inner' = inner /\ pos' = pos /\ (Done' <=> Done)
            /\ full' = IF Head(held).last THEN full ELSE Append(full, Head(held))
        BY <3>8 DEF Forward, AfterSend, Nothing, mgrVars, innerVars, Done
      <4>2. Len(held) \in Nat \ {0} /\ Head(held) = held[1] /\ Head(held) \in Chunks
        <5>1. held # <<>>
          BY <4>1
        <5>2. QED
          BY <2>1, <5>1, AtHead
      <4>3. Len(held) = 1 /\ Len(held') = 0
        <5>1. Len(held) <= 1
          BY DEF StreamInv, TypeOK
        <5>2. Len(held') = 0
          BY <4>1, EmptySeq
        <5>3. \A n \in Nat \ {0} : n <= 1 => n = 1
          OBVIOUS
        <5>4. QED
          BY <4>2, <5>1, <5>2, <5>3
      <4>4. InPlace(held[1], Len(full) + 1)
        BY <3>1, <4>3
      <4>5. CASE ~Head(held).last
        <5>1. Len(full) + 1 <= pos /\ held[1] = Source[Len(full) + 1] /\ full' = Append(full, held[1])
          BY <4>1, <4>2, <4>4, <4>5 DEF InPlace
        <5>2. /\ Len(full') = Len(full) + 1 /\ full'[Len(full) + 1] = held[1]
              /\ \A i \in 1..Len(full) : full'[i] = full[i]
          BY <2>1, <4>2, <5>1, AtEnd
        <5>3. ASSUME NEW k \in 1..Len(full') PROVE full'[k] = Source'[k]
          <6>1. CASE k = Len(full) + 1
            <7>1. full'[k] = Source[k]
              BY <5>1, <5>2, <6>1
            <7>2. QED
              BY <2>2, <7>1
          <6>2. CASE k # Len(full) + 1
            <7>1. k \in 1..Len(full)
              BY <2>1, <5>2, <6>2
            <7>2. QED
              BY <3>2, <5>2, <7>1
          <6>3. QED
            BY <6>1, <6>2
        <5>4. Len(full') <= pos' /\ Len(full') + Len(held') = Len(full) + Len(held)
          <6>1. pos' = pos
            BY <4>1
          <6>2. Len(full') <= pos
            BY <2>1, <5>1, <5>2
          <6>3. Len(full') + Len(held') = Len(full) + Len(held)
            BY <2>1, <4>3, <5>2
          <6>4. QED
            BY <6>1, <6>2, <6>3
        <5>5. \A k \in 1..Len(inner') : PlaceAfter(inner'[k], Len(full') + Len(held') + k)
          <6>1. inner' = inner
            BY <4>1
          <6>2. QED
            BY <3>4, <5>4, <6>1
        <5>6. ~Done' => Len(full') + Len(held') + Len(inner') = pos'
          <6>1. inner' = inner /\ pos' = pos
            BY <4>1
          <6>2. Done' <=> Done
            BY <4>1
          <6>3. QED
            BY <3>1, <5>4, <6>1, <6>2
        <5>7. \A k \in 1..Len(held') : PlaceAfter(held'[k], Len(full') + k)
          BY <4>3
        <5>8. QED
          BY <5>3, <5>4, <5>5, <5>6, <5>7
      <4>6. CASE Head(held).last
        <5>1. full' = full /\ Done
          BY <2>4, <4>1, <4>6, HeldLast
        <5>2. Len(inner) = 0
          BY <2>4, <4>1, <4>6, HeldLast
        <5>3. QED
          BY <3>2, <4>1, <4>3, <5>1, <5>2
      <4>7. QED
        BY <4>5, <4>6
    <3>9. CASE GiveUp \/ ForwarderEnds
      BY <1>1, <3>9 DEF GiveUp, ForwarderEnds
    <3>10. CASE Idles \/ Write \/ WriteFails
      BY <3>5, <3>10 DEF Idles, Write, WriteFails, mgrVars, innerVars, fwdVars
    <3>11. QED
      BY <3>6, <3>7, <3>8, <3>9, <3>10, Moves
  <2>5. QED
    BY <2>3, <2>4
<1>4. QED
  BY <1>2, <1>3

LEMMA CountedStep ==
  ASSUME StreamInv, [Next]_vars
  PROVE  Counted'
<1> DEFINE A == Len(delivered') + Len(outer')
           P == Len(held') + Len(inner')
<1>1. SUFFICES ASSUME ~gone', forwarder' # "ended"
               PROVE  /\ outcome' = "none" => A + P = pos'
                      /\ outcome' = "nil" => A + P = pos' + 1
                      /\ forwarder' = "running" =>
                           A = Len(full') \/ (A = Len(full') + 1 /\ P = 0 /\ Done')
  BY DEF Counted, Arrived, Pending
<1>2. CASE path = "none"
  <2>1. /\ Len(delivered') = 0 /\ Len(outer') = 0 /\ Len(held') = 0 /\ Len(inner') = 0
        /\ Len(full') = 0 /\ pos' = 0 /\ outcome' # "nil"
    BY <1>2, FromNothing, EmptySeq
  <2>2. QED
    BY <2>1
<1>3. CASE path # "none"
  <2> USE <1>3
  <2>1. /\ inner \in Seq(Chunks) /\ outer \in Seq(Chunks) /\ held \in Seq(Chunks)
        /\ full \in Seq(Chunks) /\ delivered \in Seq(Chunks)
    BY Channels DEF StreamInv
  <2>2. /\ Len(inner) \in Nat /\ Len(outer) \in Nat /\ Len(held) \in Nat
        /\ Len(full) \in Nat /\ Len(delivered) \in Nat /\ pos \in Nat
    BY Channels DEF StreamInv
  <2>3. Done => Done'
    BY SourceFrame DEF StreamInv
  <2> DEFINE a == Len(delivered) + Len(outer)
             p == Len(held) + Len(inner)
  <2>4. ~gone /\ forwarder # "ended" =>
          /\ outcome = "none" => a + p = pos
          /\ outcome = "nil" => a + p = pos + 1
          /\ forwarder = "running" =>
               a = Len(full) \/ (a = Len(full) + 1 /\ p = 0 /\ Done)
    BY DEF StreamInv, Counted, Arrived, Pending
  <2>5. a \in Nat /\ p \in Nat
    BY <2>2
  <2>6. CASE Idles
    <3>1. /\ A = a /\ P = p /\ pos' = pos /\ full' = full /\ forwarder' = forwarder
          /\ outcome' = outcome \/ (outcome = "none" /\ outcome' = "error")
          /\ ~gone
      BY <1>1, <2>6 DEF Idles
    <3> HIDE DEF A, P, a, p
    <3>2. QED
      BY <1>1, <2>3, <2>4, <3>1
  <2>7. ASSUME NEW c \in Chunks, Sends(c)
        PROVE  /\ outcome' = "none" => A + P = pos'
               /\ outcome' = "nil" => A + P = pos' + 1
               /\ forwarder' = "running" =>
                    A = Len(full') \/ (A = Len(full') + 1 /\ P = 0 /\ Done')
    <3>1. /\ forwarder' = forwarder /\ full' = full /\ ~gone /\ outcome = "none"
          /\ \/ pos' = pos + 1 /\ outcome' = "none"
             \/ pos' = pos /\ outcome' \in {"nil", "error"}
          /\ ~Done
      BY <1>1, <2>7 DEF Sends, StreamInv, Roles
    <3>2. CASE forwarder # "none"
      <4>1. Len(inner') = Len(inner) + 1 /\ outer' = outer /\ delivered' = delivered /\ held' = held
        BY <2>1, <2>7, <3>2, AtEnd DEF Sends
      <4>2. A = a /\ P = p + 1
        BY <2>2, <4>1
      <4> HIDE DEF A, P, a, p
      <4>3. QED
        BY <1>1, <2>2, <2>4, <2>5, <3>1, <4>2
    <3>3. CASE forwarder = "none"
      <4>1. Len(outer') = Len(outer) + 1 /\ inner' = inner /\ delivered' = delivered /\ held' = held
        BY <2>1, <2>7, <3>3, AtEnd DEF Sends
      <4>2. A = a + 1 /\ P = p
        BY <2>2, <4>1
      <4> HIDE DEF A, P, a, p
      <4>3. QED
        BY <1>1, <2>2, <2>4, <2>5, <3>1, <3>3, <4>2
    <3>4. QED
      BY <3>2, <3>3
  <2>8. CASE Receive
    <3>1. /\ inner # <<>> /\ held = <<>> /\ held' = <<Head(inner)>> /\ inner' = Tail(inner)
          /\ outer' = outer /\ delivered' = delivered /\ full' = full /\ pos' = pos
          /\ outcome' = outcome /\ forwarder' = forwarder /\ ~gone
      BY <1>1, <2>8 DEF Receive, Nothing, mgrVars, outerVars, handlerVars
    <3>2. Len(inner) \in Nat \ {0} /\ Len(inner') = Len(inner) - 1 /\ Len(held) = 0 /\ Len(held') = 1
      BY <2>1, <3>1, AtHead, EmptySeq
    <3>3. A = a /\ P = p
      BY <2>2, <3>1, <3>2
    <3> HIDE DEF A, P, a, p
    <3>4. QED
      BY <1>1, <2>3, <2>4, <3>1, <3>3
  <2>9. CASE Forward
    <3>1. /\ held # <<>> /\ held' = <<>> /\ outer' = Append(outer, Head(held)) /\ inner' = inner
          /\ delivered' = delivered /\ full' = IF Head(held).last THEN full ELSE Append(full, Head(held))
          /\ pos' = pos /\ outcome' = outcome /\ forwarder' = forwarder /\ forwarder = "running" /\ ~gone
      BY <1>1, <2>9 DEF Forward, AfterSend, Nothing, mgrVars, innerVars, handlerVars
    <3>2. held # <<>> /\ Head(held) \in Chunks /\ Len(held) \in Nat \ {0}
      BY <2>1, <3>1, AtHead
    <3>3. Len(held) = 1
      <4>1. Len(held) <= 1
        BY DEF StreamInv, TypeOK
      <4>2. \A n \in Nat \ {0} : n <= 1 => n = 1
        OBVIOUS
      <4>3. QED
        BY <3>2, <4>1, <4>2
    <3>4. Len(outer') = Len(outer) + 1 /\ Len(held') = 0
      BY <2>1, <3>1, <3>2, AtEnd, EmptySeq
    <3>5. A = a + 1 /\ P = p - 1 /\ p # 0
      BY <2>2, <3>1, <3>3, <3>4
    <3>6. a = Len(full) /\ (outcome = "none" => a + p = pos) /\ (outcome = "nil" => a + p = pos + 1)
      BY <2>4, <3>1, <3>5
    <3>7. CASE Head(held).last
      <4>1. Len(inner) = 0 /\ Done
        BY <3>1, <3>7, HeldLast
      <4>2. p = 1
        BY <3>3, <4>1
      <4>3. full' = full
        BY <3>1, <3>7
      <4> HIDE DEF A, P, a, p
      <4>4. P = 0 /\ A = Len(full') + 1
        BY <3>5, <3>6, <4>2, <4>3
      <4>5. A + P = a + p
        BY <2>5, <3>5
      <4>6. QED
        BY <2>3, <3>1, <3>6, <4>1, <4>4, <4>5
    <3>8. CASE ~Head(held).last
      <4>1. Len(full') = Len(full) + 1
        BY <2>1, <3>1, <3>2, <3>8, AtEnd
      <4> HIDE DEF A, P, a, p
      <4>2. A = Len(full')
        BY <3>5, <3>6, <4>1
      <4>3. A + P = a + p
        BY <2>5, <3>5
      <4>4. QED
        BY <3>1, <3>6, <4>2, <4>3
    <3>9. QED
      BY <3>7, <3>8
  <2>10. CASE Write
    <3>1. /\ outer # <<>> /\ delivered' = Append(delivered, Head(outer)) /\ outer' = Tail(outer)
          /\ held' = held /\ inner' = inner /\ full' = full /\ pos' = pos
          /\ outcome' = outcome /\ forwarder' = forwarder /\ ~gone
      BY <2>10 DEF Write, mgrVars, innerVars, fwdVars
    <3>2. /\ Len(outer) \in Nat \ {0} /\ Len(outer') = Len(outer) - 1
          /\ Len(delivered') = Len(delivered) + 1
      BY <2>1, <3>1, AtHead, AtEnd
    <3>3. A = a /\ P = p
      BY <2>2, <3>1, <3>2
    <3> HIDE DEF A, P, a, p
    <3>4. QED
      BY <1>1, <2>3, <2>4, <3>1, <3>3
  <2>11. CASE GiveUp \/ ForwarderEnds \/ WriteFails
    BY <1>1, <2>11 DEF GiveUp, ForwarderEnds, WriteFails
  <2>12. QED
    BY <2>6, <2>7, <2>8, <2>9, <2>10, <2>11, Moves
<1>4. QED
  BY <1>2, <1>3

\* The context of a gRPC or SSE request ends with its handler or its client.
LEMMA ContextStep ==
  ASSUME StreamInv, [Next]_vars, req'.transport # "ws", ~gone'
  PROVE  /\ req.transport # "ws" /\ ~gone
         /\ handler' \in {"ranging", "closed"} /\ (ctxDone' => handler' = "closed")
<1> USE DEF StreamInv, TypeOK, Roles, Whole, mgrVars, innerVars, fwdVars, outerVars, handlerVars
<1>1. CASE Manage
  <2>1. CASE Hit \/ Miss \/ Replay \/ Produce \/ UpstreamEnds
    <3>1. req' = req /\ handler' = handler /\ gone' = gone /\ ctxDone' = ctxDone
      BY <2>1 DEF Hit, Miss, Replay, Produce, UpstreamEnds
    <3>2. QED
      BY <3>1
  <2>4. CASE Report
    <3>1. req.transport = "ws" /\ req' = req
      BY <2>4 DEF Report
    <3>2. QED
      BY <3>1
  <2>2. CASE NoProvider \/ ReplayEnds \/ ReplayGivesUp \/ UpstreamCloses \/ UpstreamFails
    <3>1. req' = req /\ gone' = gone /\ handler' = handler
      BY <2>2 DEF NoProvider, ReplayEnds, ReplayGivesUp, UpstreamCloses, UpstreamFails
    <3>2. \E result \in {"none", "nil", "error"} : Return(result)
      BY <2>2 DEF NoProvider, ReplayEnds, ReplayGivesUp, UpstreamCloses, UpstreamFails
    <3>3. ctxDone' = ctxDone
      BY <3>1, <3>2 DEF Return, CancelsOnReturn
    <3>4. QED
      BY <3>1, <3>3
  <2>3. QED
    BY <1>1, <2>1, <2>2, <2>4 DEF Manage
<1>2. CASE ForwardStep
  BY <1>2 DEF ForwardStep, Receive, Forward, GiveUp, ForwarderEnds
<1>3. CASE Handle
  BY <1>3 DEF Handle, Write, WriteFails, SeesClosed, SeesContext, HandlerEnds
<1>4. CASE Leave \/ Timeout \/ UNCHANGED vars
  BY <1>4 DEF Leave, Timeout, vars
<1>5. QED
  BY <1>1, <1>2, <1>3, <1>4 DEF Next

LEMMA WholeStep ==
  ASSUME StreamInv, [Next]_vars
  PROVE  Whole'
<1> DEFINE A == Len(delivered') + Len(outer')
           P == Len(held') + Len(inner')
<1>1. SUFFICES ASSUME req'.transport # "ws", ~gone', forwarder' = "ended"
               PROVE  P = 0 /\ Done' /\ (outcome' = "nil" => A = pos' + 1)
  BY ContextStep DEF Whole, Arrived, Pending
<1>2. /\ req.transport # "ws" /\ ~gone
  BY <1>1, ContextStep
<1>3. path # "none"
  BY <1>1, FromNothing
<1>4. /\ outer \in Seq(Chunks) /\ delivered \in Seq(Chunks)
      /\ Len(inner) \in Nat /\ Len(outer) \in Nat /\ Len(held) \in Nat
      /\ Len(delivered) \in Nat /\ pos \in Nat
  BY Channels DEF StreamInv
<1>5. Done => Done'
  BY <1>3, SourceFrame DEF StreamInv
<1>6. forwarder = "ended" => /\ Len(held) + Len(inner) = 0 /\ Done /\ outcome # "none"
                             /\ outcome = "nil" => Len(delivered) + Len(outer) = pos + 1
  BY <1>2 DEF StreamInv, Roles, Whole, Arrived, Pending
<1>7. forwarder = "running" /\ outcome = "nil" =>
        (Len(delivered) + Len(outer)) + (Len(held) + Len(inner)) = pos + 1
  BY <1>2 DEF StreamInv, Counted, Arrived, Pending
<1>8. CASE Idles
  BY <1>1, <1>5, <1>6, <1>8 DEF Idles
<1>9. ASSUME NEW c \in Chunks, Sends(c) PROVE FALSE
  BY <1>1, <1>6, <1>9 DEF Sends
<1>10. CASE Receive \/ Forward
  BY <1>1, <1>10 DEF Receive, Forward
<1>11. CASE GiveUp
  <2>1. ctxDone /\ forwarder = "running"
    BY <1>11 DEF GiveUp, ForwarderGivesUp
  <2>2. handler = "closed"
    BY <1>2, <2>1 DEF StreamInv, Whole
  <2>3. QED
    BY <2>1, <2>2 DEF StreamInv, Roles, Untouched
<1>12. CASE ForwarderEnds
  <2>1. /\ forwarder = "running" /\ held = <<>> /\ inner = <<>> /\ innerClosed
        /\ held' = held /\ inner' = inner /\ outer' = outer /\ delivered' = delivered
        /\ pos' = pos /\ outcome' = outcome
    BY <1>12 DEF ForwarderEnds, Nothing, mgrVars, innerVars, handlerVars
  <2>2. Done
    BY <2>1 DEF StreamInv, Roles
  <2>3. Len(held) = 0 /\ Len(inner) = 0
    BY <2>1, EmptySeq
  <2>4. QED
    BY <1>4, <1>5, <1>7, <2>1, <2>2, <2>3
<1>13. CASE Write
  <2>1. /\ outer # <<>> /\ delivered' = Append(delivered, Head(outer)) /\ outer' = Tail(outer)
        /\ held' = held /\ inner' = inner /\ pos' = pos
        /\ outcome' = outcome /\ forwarder' = forwarder
    BY <1>13 DEF Write, mgrVars, innerVars, fwdVars
  <2>2. /\ Len(outer) \in Nat \ {0} /\ Len(outer') = Len(outer) - 1
        /\ Len(delivered') = Len(delivered) + 1
    BY <1>4, <2>1, AtHead, AtEnd
  <2>3. A = Len(delivered) + Len(outer)
    BY <1>4, <2>2
  <2> HIDE DEF A
  <2>4. QED
    BY <1>1, <1>5, <1>6, <2>1, <2>3
<1>14. CASE WriteFails
  BY <1>2, <1>14 DEF WriteFails
<1>15. QED
  BY <1>3, <1>8, <1>9, <1>10, <1>11, <1>12, <1>13, <1>14, Moves

LEMMA StreamInit == Init => StreamInv
<1> SUFFICES ASSUME Init PROVE StreamInv
  OBVIOUS
<1> USE DEF Init
<1>1. Len(<<>>) = 0 /\ <<>> \in Seq(Chunks)
  BY EmptySeq
<1>2. TypeOK
  <2>1. {inner, outer, held, full, delivered} \subseteq Seq(Chunks)
    BY <1>1 DEF Nothing
  <2>2. Len(inner) <= Capacity /\ Len(outer) <= Capacity /\ Len(held) <= 1
    <3>1. Capacity \in Nat
      BY StreamAssumption
    <3>2. Len(inner) = 0 /\ Len(outer) = 0 /\ Len(held) = 0
      BY <1>1 DEF Nothing
    <3>3. QED
      BY <3>1, <3>2
  <2>3. QED
    BY <2>1, <2>2 DEF TypeOK
<1>3. Roles
  BY DEF Roles, Done
<1>4. Cached
  BY DEF Cached
<1>5. Untouched
  BY DEF Untouched, Nothing
<1>6. pos <= Len(Source)
  <2>1. Len(Source) \in Nat
    BY <1>2, SourceType DEF TypeOK
  <2>2. QED
    BY <2>1
<1>7. OuterFlow
  BY <1>1 DEF OuterFlow
<1>8. InnerFlow
  BY DEF InnerFlow
<1>9. Counted
  BY <1>1 DEF Counted, Arrived, Pending, Nothing
<1>10. Whole
  BY DEF Whole
<1>11. QED
  BY <1>2, <1>3, <1>4, <1>5, <1>6, <1>7, <1>8, <1>9, <1>10 DEF StreamInv

\* The invariant behind all that follows.
THEOREM StreamInductive == Spec => []StreamInv
<1>1. Init => StreamInv
  BY StreamInit
<1>2. StreamInv /\ [Next]_vars => StreamInv'
  <2> SUFFICES ASSUME StreamInv, [Next]_vars PROVE StreamInv'
    OBVIOUS
  <2>1. TypeOK' /\ Untouched' /\ (pos <= Len(Source))'
    BY TypeStep, UntouchedStep, PosStep DEF StreamInv
  <2>2. Roles' /\ Cached'
    BY RolesStep, CachedStep DEF StreamInv
  <2>3. OuterFlow' /\ InnerFlow' /\ Counted' /\ Whole'
    BY OuterStep, InnerStep, CountedStep, WholeStep
  <2>4. QED
    BY <2>1, <2>2, <2>3 DEF StreamInv
<1>3. QED
  BY <1>1, <1>2, PTL DEF Spec

-----------------------------------------------------------------------------
(* What the runs check, for every channel capacity, text and fault.        *)

\* The variables of a stream keep to their types, and both channels to their
\* capacity (TypeOK).
THEOREM StreamTypes == Spec => []TypeOK
<1>1. StreamInv => TypeOK
  BY DEF StreamInv
<1>2. QED
  BY <1>1, StreamInductive, PTL

\* No client sees a hole, a repetition or a chunk after the final one, whatever
\* is cut, cancelled or dropped on the way (InOrder).
THEOREM ChunksInOrder == Spec => []InOrder
<1>1. StreamInv => InOrder
  <2> SUFFICES ASSUME StreamInv, NEW i \in DOMAIN delivered
               PROVE  IF delivered[i].last THEN i = Len(delivered)
                      ELSE i <= Len(Source) /\ delivered[i] = Source[i]
    BY DEF InOrder
  <2>1. delivered \in Seq(Chunks) /\ Len(delivered) \in Nat /\ pos \in Nat
    BY Channels DEF StreamInv
  <2>2. Len(Source) \in Nat /\ pos <= Len(Source)
    BY SourceType DEF StreamInv, TypeOK, Cached
  <2>3. i \in 1..Len(delivered)
    BY <2>1
  <2>4. \A k \in 1..Len(delivered) : InPlace(delivered[k], k)
    BY DEF StreamInv, OuterFlow
  <2>5. CASE delivered[i].last
    <3>1. i = pos + 1
      BY <2>3, <2>4, <2>5 DEF InPlace
    <3>2. Len(delivered) <= pos + 1
      <4>1. InPlace(delivered[Len(delivered)], Len(delivered))
        BY <2>1, <2>3, <2>4
      <4>2. QED
        BY <2>1, <4>1 DEF InPlace
    <3>3. QED
      BY <2>1, <2>3, <2>5, <3>1, <3>2
  <2>6. CASE ~delivered[i].last
    <3>1. i <= pos /\ delivered[i] = Source[i]
      BY <2>3, <2>4, <2>6 DEF InPlace
    <3>2. i <= Len(Source)
      BY <2>1, <2>2, <2>3, <3>1
    <3>3. QED
      BY <2>6, <3>1, <3>2
  <2>7. QED
    BY <2>5, <2>6
<1>2. QED
  BY <1>1, StreamInductive, PTL

\* A client that stays has all chunks of a stream that ended well, unless a
\* WebSocket's context ended while the forwarder held one.
LEMMA AllDelivered ==
  ASSUME StreamInv, handler = "closed", ~gone, outcome = "nil", pos = Len(Source),
         req.transport # "ws" \/ forwarder = "none"
  PROVE  delivered = Append(Source, FinalChunk)
<1>1. delivered \in Seq(Chunks) /\ Len(delivered) \in Nat /\ pos \in Nat
  BY Channels DEF StreamInv
<1>2. Source \in Seq(Chunks)
  BY SourceType DEF StreamInv, TypeOK, Cached
<1>3. outer = <<>> /\ outerClosed
  BY DEF StreamInv, Untouched
<1>4. Len(outer) = 0
  BY <1>3, EmptySeq
<1>5. Arrived = pos + 1
  <2>1. CASE forwarder = "none"
    <3>1. Len(held) = 0 /\ Len(inner) = 0
      BY <2>1, EmptySeq DEF StreamInv, Untouched
    <3>2. Arrived + Pending = pos + 1
      BY <2>1 DEF StreamInv, Counted
    <3>3. QED
      BY <1>1, <1>4, <3>1, <3>2 DEF Arrived, Pending
  <2>2. CASE forwarder # "none"
    BY <1>3, <2>2 DEF StreamInv, Roles, Whole
  <2>3. QED
    BY <2>1, <2>2
<1>6. Len(delivered) = pos + 1
  BY <1>1, <1>4, <1>5 DEF Arrived
<1>7. \A k \in 1..Len(delivered) : InPlace(delivered[k], k)
  BY DEF StreamInv, OuterFlow
<1>8. delivered[pos + 1] = FinalChunk
  BY <1>1, <1>6, <1>7 DEF InPlace
<1>9. \A k \in 1..pos : delivered[k] = Source[k]
  BY <1>1, <1>6, <1>7 DEF InPlace
<1> DEFINE all == Append(Source, FinalChunk)
<1>10. /\ all \in Seq(Chunks) /\ Len(all) = pos + 1
       /\ \A k \in 1..pos : all[k] = Source[k]
       /\ all[pos + 1] = FinalChunk
  <2>1. FinalChunk \in Chunks
    BY EmptySeq DEF FinalChunk, Chunks
  <2>2. QED
    BY <1>2, <2>1, AppendProperties
<1> HIDE DEF all
<1>11. \A k \in 1..pos + 1 : delivered[k] = all[k]
  BY <1>1, <1>8, <1>9, <1>10
<1>12. delivered = all
  BY <1>1, <1>6, <1>10, <1>11, SeqEqual
<1>13. QED
  BY <1>12 DEF all

\* A gRPC or SSE client that stays has the whole of an answer that ended well,
\* however far behind the provider the forwarder is when StreamGenerate
\* returns (CompleteUnlessWS).
THEOREM CompleteStreams == Spec => []CompleteUnlessWS
<1>1. StreamInv => CompleteUnlessWS
  <2> SUFFICES ASSUME StreamInv, req.transport # "ws", handler = "closed", ~gone,
                      outcome = "nil", pos = Len(Source)
               PROVE  /\ delivered # <<>> /\ Last(delivered).last
                      /\ Front(delivered) = Source
    BY DEF CompleteUnlessWS, Complete
  <2>1. delivered = Append(Source, FinalChunk)
    BY AllDelivered
  <2>2. Source \in Seq(Chunks) /\ FinalChunk \in Chunks /\ FinalChunk.last
    BY SourceType, EmptySeq DEF StreamInv, TypeOK, Cached, FinalChunk, Chunks
  <2>3. /\ delivered \in Seq(Chunks) /\ delivered # <<>> /\ Len(delivered) = Len(Source) + 1
        /\ \A k \in 1..Len(Source) : delivered[k] = Source[k]
        /\ delivered[Len(Source) + 1] = FinalChunk
    BY <2>1, <2>2, AppendProperties
  <2>4. Len(Source) \in Nat
    BY <2>2, LenProperties
  <2>5. Front(delivered) = SubSeq(delivered, 1, Len(Source))
    BY <2>3, <2>4 DEF Front
  <2>6. /\ SubSeq(delivered, 1, Len(Source)) \in Seq(Chunks)
        /\ Len(SubSeq(delivered, 1, Len(Source))) = Len(Source)
        /\ \A k \in 1..Len(Source) : SubSeq(delivered, 1, Len(Source))[k] = delivered[k]
    <3>1. \A k \in 1..Len(Source) : delivered[k] \in Chunks
      BY <2>3, <2>4
    <3>2. QED
      BY <2>3, <2>4, <3>1, SubSeqProperties
  <2>7. SubSeq(delivered, 1, Len(Source)) = Source
    BY <2>2, <2>3, <2>6, SeqEqual
  <2>8. QED
    BY <2>2, <2>3, <2>5, <2>7 DEF Last
<1>2. QED
  BY <1>1, StreamInductive, PTL

\* A replay has ended once the handler's channel is closed: no other return of
\* the replay closes it.
Replayed == path = "cache" /\ outerClosed => outcome = "nil" /\ pos = Len(Source)

LEMMA ReplayedStep ==
  ASSUME StreamInv, Replayed, [Next]_vars
  PROVE  Replayed'
<1> USE DEF mgrVars, innerVars, fwdVars, outerVars, handlerVars
<1>1. SUFFICES ASSUME path' = "cache", outerClosed'
               PROVE  outcome' = "nil" /\ pos' = Len(Source)'
  BY DEF Replayed
<1>2. CASE path = "none"
  <2>1. Hit
    BY <1>1, <1>2 DEF Next, Manage, Miss, NoProvider, Replay, ReplayEnds, ReplayGivesUp, Produce,
       UpstreamEnds, UpstreamCloses, UpstreamFails, Report, ForwardStep, Receive, Forward,
       GiveUp, ForwarderEnds,
       Handle, Write, WriteFails, SeesClosed, SeesContext, Leave, Timeout, vars
  <2>2. outerClosed /\ mgr = "lookup"
    BY <1>1, <2>1 DEF Hit
  <2>3. QED
    BY <1>2, <2>2 DEF StreamInv, Roles, Done
<1>3. CASE path # "none"
  <2>1. Source' = Source /\ path = "cache" /\ (Done => pos' = pos)
    BY <1>1, <1>3, SourceFrame DEF StreamInv
  <2>2. forwarder = "none" /\ mgr \notin {"streaming", "closing"}
    BY <2>1 DEF StreamInv, Roles, TypeOK
  <2>3. CASE outerClosed
    <3>1. Done /\ outcome = "nil" /\ pos = Len(Source)
      BY <2>1, <2>2, <2>3 DEF StreamInv, Roles, Replayed
    <3>2. outcome' = outcome
      BY <2>2, <3>1 DEF Done, Next, Manage, Hit, Miss, NoProvider, Replay, ReplayEnds, ReplayGivesUp,
         Produce, UpstreamEnds, UpstreamCloses, UpstreamFails, Report, ForwardStep, Receive,
         Forward, GiveUp,
         ForwarderEnds, Handle, Write, WriteFails, SeesClosed, SeesContext, Leave, Timeout, vars
    <3>3. QED
      BY <2>1, <3>1, <3>2
  <2>4. CASE ~outerClosed
    <3>1. ReplayEnds
      BY <1>1, <2>2, <2>4 DEF Next, Manage, Hit, Miss, NoProvider, Replay, ReplayGivesUp, Produce,
         UpstreamEnds, UpstreamCloses, UpstreamFails, Report, ForwardStep, Receive, Forward,
         GiveUp, ForwarderEnds,
         Handle, Write, WriteFails, SeesClosed, SeesContext, Leave, Timeout, vars
    <3>2. outcome' = "nil" /\ pos = Len(Source) /\ pos' = pos
      BY <3>1 DEF ReplayEnds, Return
    <3>3. QED
      BY <2>1, <3>2
  <2>5. QED
    BY <2>3, <2>4
<1>4. QED
  BY <1>2, <1>3

\* No word of an answer is lost, split or glued to the next one, for whatever
\* text: neither when a cached answer is cut into words and sent again with
\* single blanks, nor when a whole answer is sent word by word (WordsKept).
THEOREM WordsSurvive == Spec => []WordsKept
<1>1. Init => Replayed
  BY DEF Init, Replayed
<1>2. StreamInv /\ Replayed /\ [Next]_vars => Replayed'
  BY ReplayedStep
<1>3. StreamInv /\ Replayed => WordsKept
  <2> SUFFICES ASSUME StreamInv, Replayed, handler = "closed", ~gone
               PROVE  /\ path = "cache" => Fields(Joined(delivered)) = Fields(stored)
                      /\ path = "provider" /\ req.transport # "ws" /\ outcome = "nil"
                           /\ pos = Len(Source) =>
                           Fields(Joined(delivered)) = Fields(FlattenSeq(req.answer))
    BY DEF WordsKept
  <2>1. Source \in Seq(Chunks)
    BY SourceType DEF StreamInv, TypeOK, Cached
  <2>2. CASE path = "cache"
    <3>1. outerClosed /\ forwarder = "none"
      BY <2>2 DEF StreamInv, Untouched, Roles
    <3>2. outcome = "nil" /\ pos = Len(Source)
      BY <2>2, <3>1 DEF Replayed
    <3>3. delivered = Append(Source, FinalChunk)
      BY <3>1, <3>2, AllDelivered
    <3>4. Joined(delivered) = Joined(Source)
      BY <2>1, <3>3, FinalHasNoText
    <3>5. Source = ReplayChunks(stored) /\ stored \in Seq(Symbols)
      BY <2>2, StreamAssumption DEF StreamInv, Cached, Source
    <3>6. QED
      BY <2>2, <3>4, <3>5, ReplayKeepsWords
  <2>3. ASSUME path = "provider", req.transport # "ws", outcome = "nil", pos = Len(Source)
        PROVE  Fields(Joined(delivered)) = Fields(FlattenSeq(req.answer))
    <3>1. Joined(delivered) = Joined(Source)
      BY <2>1, <2>3, AllDelivered, FinalHasNoText
    <3>2. CASE req.native
      <4>1. Source = LiveChunks(req.answer) /\ req.answer \in Seq(Seq(Symbols))
        BY <2>3, <3>2, StreamAssumption DEF Source, StreamInv, TypeOK, Requests
      <4>2. QED
        BY <3>1, <4>1, LiveKeepsText
    <3>3. CASE ~req.native
      <4>1. Source = SimulatedChunks(req.answer[1])
        BY <2>3, <3>3 DEF Source
      <4>2. PICK t \in WholeTexts : req.answer = <<t>>
        BY <3>3 DEF StreamInv, TypeOK, Requests
      <4>3. t \in Seq(Symbols) /\ req.answer[1] = t
        <5>1. t \in Seq(Symbols)
          BY StreamAssumption
        <5>2. req.answer[1] = t
          BY <4>2
        <5>3. QED
          BY <5>1, <5>2
      <4>4. FlattenSeq(req.answer) = t
        BY <4>2, <4>3, OneText
      <4>5. QED
        BY <3>1, <4>1, <4>3, <4>4, SimulationKeepsWords
    <3>4. QED
      BY <3>2, <3>3
  <2>4. QED
    BY <2>2, <2>3
<1>4. QED
  BY <1>1, <1>2, <1>3, StreamInductive, PTL DEF Spec

-----------------------------------------------------------------------------
(* The refinement of StreamPromise.                                        *)

Parts == [text : Seq(Symbols), last : {FALSE}]
Chosen == IF path = "none" THEN <<>> ELSE Source

\* What a source sends it could have been given.
SourceIsParts ==
  req \in Requests /\ (path = "cache" => stored \in CachedTexts) => Source \in Seq(Parts)

LEMMA PartsOnly == SourceIsParts
<1>1. SUFFICES ASSUME req \in Requests, path = "cache" => stored \in CachedTexts
               PROVE  Source \in Seq(Parts)
  BY DEF SourceIsParts
<1>2. /\ Source \in Seq(Chunks) /\ Len(Source) \in Nat
      /\ \A i \in 1..Len(Source) : Source[i] \in Chunks /\ ~Source[i].last
  BY <1>1, SourceType
<1>3. \A c \in Chunks : ~c.last => c \in Parts
  BY DEF Chunks, Parts
<1>4. \A i \in 1..Len(Source) : Source[i] \in Parts
  BY <1>2, <1>3
<1>5. Source = [i \in 1..Len(Source) |-> Source[i]]
  BY <1>2
<1>6. QED
  BY <1>2, <1>4, <1>5

LEMMA PartsPrimed == SourceIsParts'
BY PartsOnly, PTL

LEMMA ChosenKept ==
  ASSUME StreamInv, [Next]_vars, ~Hit, ~Miss
  PROVE  Chosen' = Chosen
<1>1. CASE path = "none"
  <2>1. path' = "none"
    BY <1>1 DEF Next, Manage, NoProvider, Replay, ReplayEnds, ReplayGivesUp, Produce,
       UpstreamEnds, UpstreamCloses, UpstreamFails, Report, ForwardStep, Receive, Forward,
       GiveUp, ForwarderEnds,
       Handle, Write, WriteFails, SeesClosed, SeesContext, Leave, Timeout, vars, mgrVars
  <2>2. QED
    BY <1>1, <2>1 DEF Chosen
<1>2. CASE path # "none"
  BY <1>2, SourceFrame DEF Chosen, StreamInv
<1>3. QED
  BY <1>1, <1>2

\* Only the forwarder stores, and only with the final chunk.
LEMMA StoresAll ==
  ASSUME StreamInv, [Next]_vars, stored' # stored
  PROVE  /\ Forward /\ Done /\ path # "none"
         /\ stored' = Joined(SubSeq(Source, 1, pos))
<1>1. Forward
  BY DEF Next, Manage, Hit, Miss, NoProvider, Replay, ReplayEnds, ReplayGivesUp, Produce,
     UpstreamEnds, UpstreamCloses, UpstreamFails, Report, ForwardStep, Receive, GiveUp, ForwarderEnds,
     Handle, Write, WriteFails, SeesClosed, SeesContext, Leave, Timeout, vars, fwdVars
<1>2. forwarder = "running" /\ held # <<>> /\ Head(held).last /\ stored' = Joined(full)
  BY <1>1 DEF Forward, Caches, Nothing
<1>3. Len(full) = pos /\ Done
  BY <1>2, HeldLast
<1>4. path # "none"
  BY <1>2 DEF StreamInv, Roles
<1>5. full \in Seq(Chunks) /\ pos \in Nat
  BY Channels DEF StreamInv
<1>6. Source \in Seq(Chunks) /\ Len(Source) \in Nat /\ pos <= Len(Source)
  BY SourceType DEF StreamInv, TypeOK, Cached
<1>7. \A k \in 1..pos : full[k] = Source[k]
  BY <1>2, <1>3 DEF StreamInv, InnerFlow
<1>8. /\ SubSeq(Source, 1, pos) \in Seq(Chunks) /\ Len(SubSeq(Source, 1, pos)) = pos
      /\ \A k \in 1..pos : SubSeq(Source, 1, pos)[k] = Source[k]
  <2>1. \A k \in 1..pos : Source[k] \in Chunks
    BY <1>5, <1>6
  <2>2. QED
    BY <1>5, <2>1, SubSeqProperties
<1>9. full = SubSeq(Source, 1, pos)
  BY <1>3, <1>5, <1>7, <1>8, SeqEqual
<1>10. QED
  BY <1>1, <1>2, <1>3, <1>4, <1>9

LEMMA PromiseInit == Init => SP!SPInit
BY DEF Init, SP!SPInit

LEMMA PromiseStep ==
  ASSUME StreamInv, [Next]_vars
  PROVE  [SP!SPNext]_(SP!spVars)
<1> USE DEF mgrVars, innerVars, fwdVars, outerVars, handlerVars
<1>1. CASE Hit \/ Miss
  <2>1. path = "none" /\ pos = 0 /\ delivered = <<>> /\ ~Done
    BY <1>1 DEF Hit, Miss, StreamInv, Roles, Untouched, Done
  <2>2. /\ pos' = pos /\ delivered' = delivered /\ stored' = stored /\ path' # "none" /\ ~Done'
        /\ req' = req
    BY <1>1 DEF Hit, Miss, Done
  <2>3. path' = "cache" => stored' \in CachedTexts
    BY CachedStep DEF Cached, StreamInv
  <2>4. Source' \in Seq(Parts)
    <3>1. req' \in Requests
      BY <2>2 DEF StreamInv, TypeOK
    <3>2. req' \in Requests /\ (path' = "cache" => stored' \in CachedTexts) => Source' \in Seq(Parts)
      BY PartsPrimed DEF SourceIsParts, Requests
    <3>3. QED
      BY <2>3, <3>1, <3>2
  <2>5. SP!Choose
    BY <2>1, <2>2, <2>4 DEF SP!Choose, Done, Parts
  <2>6. QED
    BY <2>5 DEF SP!SPNext
<1>2. CASE Replay \/ Produce
  <2>1. /\ path # "none" /\ ~Done /\ pos < Len(Source) /\ pos' = pos + 1
        /\ delivered' = delivered /\ stored' = stored /\ mgr' = mgr
    BY <1>2 DEF Replay, Produce, StreamInv, Roles, Done
  <2>2. Source' = Source /\ path' = path
    BY <2>1, SourceFrame DEF StreamInv
  <2>3. SP!Send
    BY <2>1, <2>2 DEF SP!Send, Done
  <2>4. QED
    BY <2>3 DEF SP!SPNext
<1>3. CASE NoProvider \/ ReplayEnds \/ ReplayGivesUp \/ UpstreamEnds \/ UpstreamFails
  <2>1. /\ ~Done /\ pos' = pos /\ delivered' = delivered /\ stored' = stored /\ Done'
    BY <1>3 DEF NoProvider, ReplayEnds, ReplayGivesUp, UpstreamEnds, UpstreamFails, Return, Done
  <2>2. ~Hit /\ ~Miss
    BY <2>1 DEF Hit, Miss, Done
  <2>3. Chosen' = Chosen
    BY <2>2, ChosenKept
  <2>4. SP!Stop
    BY <2>1, <2>3 DEF SP!Stop, Done, Chosen
  <2>5. QED
    BY <2>4 DEF SP!SPNext
<1>4. CASE Write
  <2>1. /\ outer # <<>> /\ ~gone /\ delivered' = Append(delivered, Head(outer))
        /\ pos' = pos /\ stored' = stored /\ mgr' = mgr /\ path' = path
    BY <1>4 DEF Write
  <2>2. path # "none"
    BY <2>1 DEF StreamInv, Untouched
  <2>3. Source' = Source
    BY <2>2, SourceFrame DEF StreamInv
  <2>4. /\ Len(outer) \in Nat \ {0} /\ Head(outer) = outer[1]
        /\ Len(delivered) \in Nat /\ pos \in Nat
    BY <2>1, Channels, AtHead DEF StreamInv
  <2>5. InPlace(Head(outer), Len(delivered) + 1)
    BY <2>1, <2>4 DEF StreamInv, OuterFlow
  <2>6. CASE Head(outer).last
    <3>1. Head(outer) = FinalChunk /\ Len(delivered) = pos /\ Done
      BY <2>4, <2>5, <2>6 DEF InPlace
    <3>2. SP!TellFinal
      BY <2>1, <2>2, <2>3, <3>1 DEF SP!TellFinal, Done
    <3>3. QED
      BY <3>2 DEF SP!SPNext
  <2>7. CASE ~Head(outer).last
    <3>1. Head(outer) = Source[Len(delivered) + 1] /\ Len(delivered) < pos
      BY <2>4, <2>5, <2>7 DEF InPlace
    <3>2. SP!Tell
      BY <2>1, <2>2, <2>3, <3>1 DEF SP!Tell
    <3>3. QED
      BY <3>2 DEF SP!SPNext
  <2>8. QED
    BY <2>6, <2>7
<1>5. CASE stored' # stored
  <2>1. /\ Forward /\ Done /\ path # "none" /\ stored' = Joined(SubSeq(Source, 1, pos))
    BY <1>5, StoresAll
  <2>2. pos' = pos /\ mgr' = mgr /\ delivered' = delivered /\ path' = path
    BY <2>1 DEF Forward
  <2>3. Source' = Source
    BY <2>1, SourceFrame DEF StreamInv
  <2>4. SP!Keep
    BY <2>1, <2>2, <2>3 DEF SP!Keep, Done
  <2>5. QED
    BY <2>4 DEF SP!SPNext
<1>6. CASE /\ stored' = stored /\ ~Hit /\ ~Miss
           /\ \/ UpstreamCloses \/ Report \/ ForwardStep \/ WriteFails \/ SeesClosed \/ SeesContext
              \/ Leave \/ Timeout \/ UNCHANGED vars
  <2>1. pos' = pos /\ delivered' = delivered /\ (Done' <=> Done)
    BY <1>6 DEF UpstreamCloses, Return, Report, ForwardStep, Receive, Forward, GiveUp,
       ForwarderEnds, WriteFails, SeesClosed, SeesContext, Leave, Timeout, vars, Done
  <2>2. Chosen' = Chosen
    BY <1>6, ChosenKept
  <2>3. UNCHANGED SP!spVars
    BY <1>6, <2>1, <2>2 DEF SP!spVars, Chosen, Done
  <2>4. QED
    BY <2>3
<1>7. QED
  BY <1>1, <1>2, <1>3, <1>4, <1>5, <1>6 DEF Next, Manage, Handle

\* Between the provider and the client no chunk is lost, repeated, reordered or
\* invented, nothing follows the final one, and Redis gets all that was sent, once
\* it has been, however goroutines and faults take turns (FulfilsStreamPromise).
THEOREM StreamKeepsPromise == Spec => FulfilsStreamPromise
<1>1. StreamInv /\ [Next]_vars => [SP!SPNext]_(SP!spVars)
  BY PromiseStep
<1>2. QED
  BY <1>1, PromiseInit, StreamInductive, PTL DEF Spec, FulfilsStreamPromise, SP!SPSpec
=============================================================================
