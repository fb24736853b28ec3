---------------------------- MODULE AdapterProofs ----------------------------
(***************************************************************************)
(* What holds of the streaming adapters for every set of texts and every   *)
(* response.  The invariant relates what the parser has cut off, what it   *)
(* has in its buffer and what the session has got to the reference, which  *)
(* is defined by recursion; so the numbers are first shown to be inductive *)
(* and the recursive functions to exist.                                   *)
(***************************************************************************)
EXTENDS Adapter, SequenceTheorems, WellFoundedInduction, TLAPS

-----------------------------------------------------------------------------
(* Induction over the numbers, and what it says of the recursive functions.  *)

\* The least of some numbers.
LEMMA LeastElement ==
  ASSUME NEW T \in SUBSET Nat, T # {}
  PROVE  \E m \in T : \A k \in T : m <= k
<1>1. IsWellFoundedOn(OpToRel(<, Nat), Nat)
  BY NatLessThanWellFounded
<1>2. \E m \in T : \A k \in T : ~ (<<k, m>> \in OpToRel(<, Nat))
  BY <1>1, WFMin
<1>3. ASSUME NEW m \in T, NEW k \in T, ~ (<<k, m>> \in OpToRel(<, Nat))
      PROVE  m <= k
  BY <1>3 DEF OpToRel
<1> QED
  BY <1>2, <1>3

\* A set of numbers with 0 and with the successor of each of its members.
LEMMA Induction ==
  ASSUME NEW T \in SUBSET Nat, 0 \in T, \A n \in Nat : n \in T => n + 1 \in T
  PROVE  \A n \in Nat : n \in T
<1> SUFFICES ASSUME Nat \ T # {} PROVE FALSE
  OBVIOUS
<1>1. PICK m \in Nat \ T : \A k \in Nat \ T : m <= k
  BY LeastElement
<1>2. m \in Nat /\ m \notin T /\ m # 0
  OBVIOUS
<1>3. m - 1 \in Nat /\ ~(m <= m - 1) /\ m - 1 + 1 = m
  BY <1>2
<1>4. m - 1 \in T
  BY <1>1, <1>3
<1> QED
  BY <1>2, <1>3, <1>4

\* f is what has been read of the first m tokens of s.
IsReading(s, m, f) ==
  f = [n \in 0 .. m |-> IF n = 0 THEN NothingRead ELSE ReadToken(f[n - 1], s[n])]

\* The reference reader starts with nothing and takes one token after the other.
LEMMA ReadingIs ==
  ASSUME NEW s \in Seq(Tokens)
  PROVE  /\ Reading(s)[0] = NothingRead
         /\ \A n \in 1 .. Len(s) : Reading(s)[n] = ReadToken(Reading(s)[n - 1], s[n])
<1>1. Len(s) \in Nat
  BY LenProperties
<1> DEFINE T == {m \in Nat : \E f : IsReading(s, m, f)}
<1>2. 0 \in T
  <2> DEFINE f == [n \in 0 .. 0 |-> NothingRead]
  <2>1. IsReading(s, 0, f)
    BY DEF IsReading
  <2> QED
    BY <2>1
<1>3. ASSUME NEW m \in Nat, m \in T PROVE m + 1 \in T
  <2>1. PICK f : IsReading(s, m, f)
    BY <1>3
  <2> DEFINE g == [n \in 0 .. m + 1 |->
                     IF n <= m THEN f[n] ELSE ReadToken(f[m], s[m + 1])]
  <2>2. ASSUME NEW n \in 0 .. m + 1
        PROVE  g[n] = IF n = 0 THEN NothingRead ELSE ReadToken(g[n - 1], s[n])
    <3>1. CASE n <= m
      <4>1. f[n] = IF n = 0 THEN NothingRead ELSE ReadToken(f[n - 1], s[n])
        BY <2>1, <3>1 DEF IsReading
      <4>2. n # 0 => n - 1 \in 0 .. m + 1 /\ n - 1 <= m
        BY <3>1
      <4> QED
        BY <3>1, <4>1, <4>2
    <3>2. CASE n = m + 1
      <4>1. m \in 0 .. m + 1 /\ m <= m /\ n - 1 = m /\ n # 0 /\ ~(n <= m)
        BY <3>2
      <4> QED
        BY <3>2, <4>1
    <3> QED
      BY <3>1, <3>2
  <2>3. IsReading(s, m + 1, g)
    <3> DEFINE h == [n \in 0 .. m + 1 |->
                       IF n = 0 THEN NothingRead ELSE ReadToken(g[n - 1], s[n])]
    <3>1. g = h
      BY <2>2
    <3> QED
      BY <3>1 DEF IsReading
  <2> HIDE DEF g
  <2> QED
    BY <2>3
<1>4. Len(s) \in T
  <2> HIDE DEF T
  <2>1. T \in SUBSET Nat
    BY DEF T
  <2> QED
    BY <1>1, <1>2, <1>3, <2>1, Induction
<1> DEFINE f == CHOOSE f : IsReading(s, Len(s), f)
<1>5. IsReading(s, Len(s), f)
  BY <1>4
<1>6. f = Reading(s)
  BY DEF Reading, IsReading
<1>7. IsReading(s, Len(s), Reading(s))
  BY <1>5, <1>6
<1> QED
  BY <1>1, <1>7 DEF IsReading

-----------------------------------------------------------------------------
(* The texts among calls and events.                                       *)

\* f is what the calls or decoded events up to each number have of texts.
IsTexts(s, m, f) ==
  f = [n \in 0 .. m |-> IF n = 0 THEN <<>> ELSE AddText(f[n - 1], s[n])]

\* TextsOf is what its recursive function comes to.
LEMMA TextsIs ==
  ASSUME NEW s, Len(s) \in Nat
  PROVE  \E f : IsTexts(s, Len(s), f) /\ TextsOf(s) = f[Len(s)]
<1> DEFINE T == {m \in Nat : \E f : IsTexts(s, m, f)}
<1>2. 0 \in T
  <2> DEFINE f == [n \in 0 .. 0 |-> <<>>]
  <2>1. IsTexts(s, 0, f)
    BY DEF IsTexts
  <2> QED
    BY <2>1
<1>3. ASSUME NEW m \in Nat, m \in T PROVE m + 1 \in T
  <2>1. PICK f : IsTexts(s, m, f)
    BY <1>3
  <2> DEFINE g == [n \in 0 .. m + 1 |->
                     IF n <= m THEN f[n] ELSE AddText(f[m], s[m + 1])]
  <2>2. ASSUME NEW n \in 0 .. m + 1
        PROVE  g[n] = IF n = 0 THEN <<>> ELSE AddText(g[n - 1], s[n])
    <3>1. CASE n <= m
      <4>1. f[n] = IF n = 0 THEN <<>> ELSE AddText(f[n - 1], s[n])
        BY <2>1, <3>1 DEF IsTexts
      <4>2. n # 0 => n - 1 \in 0 .. m + 1 /\ n - 1 <= m
        BY <3>1
      <4> QED
        BY <3>1, <4>1, <4>2
    <3>2. CASE n = m + 1
      <4>1. m \in 0 .. m + 1 /\ m <= m /\ n - 1 = m /\ n # 0 /\ ~(n <= m)
        BY <3>2
      <4> QED
        BY <3>2, <4>1
    <3> QED
      BY <3>1, <3>2
  <2>3. IsTexts(s, m + 1, g)
    <3> DEFINE h == [n \in 0 .. m + 1 |->
                       IF n = 0 THEN <<>> ELSE AddText(g[n - 1], s[n])]
    <3>1. g = h
      BY <2>2
    <3> QED
      BY <3>1 DEF IsTexts
  <2> HIDE DEF g
  <2> QED
    BY <2>3
<1>4. Len(s) \in T
  <2> HIDE DEF T
  <2>1. T \in SUBSET Nat
    BY DEF T
  <2> QED
    BY <1>2, <1>3, <2>1, Induction
<1> DEFINE f == CHOOSE f : IsTexts(s, Len(s), f)
<1>5. IsTexts(s, Len(s), f)
  BY <1>4
<1>6. TextsOf(s) = f[Len(s)]
  BY DEF TextsOf, IsTexts
<1> HIDE DEF f
<1> QED
  BY <1>5, <1>6

\* One more call or event.
LEMMA TextsAppend ==
  ASSUME NEW S, NEW s \in Seq(S), NEW e \in S
  PROVE  TextsOf(Append(s, e)) = AddText(TextsOf(s), e)
<1> DEFINE r == Append(s, e)
<1>1. /\ Len(s) \in Nat /\ Len(r) = Len(s) + 1 /\ r[Len(s) + 1] = e
      /\ \A n \in 1 .. Len(s) : r[n] = s[n]
  BY AppendProperties, LenProperties
<1>2. PICK f : IsTexts(s, Len(s), f) /\ TextsOf(s) = f[Len(s)]
  BY <1>1, TextsIs
<1> HIDE DEF r
<1>3. PICK g : IsTexts(r, Len(r), g) /\ TextsOf(r) = g[Len(r)]
  BY <1>1, TextsIs
<1>4. /\ f[0] = <<>>
      /\ \A n \in 1 .. Len(s) :
           f[n] = AddText(f[n - 1], s[n])
  BY <1>1, <1>2 DEF IsTexts
<1>5. /\ g[0] = <<>>
      /\ \A n \in 1 .. Len(s) + 1 :
           g[n] = AddText(g[n - 1], r[n])
  <2>1. 1 .. Len(s) + 1 = 1 .. Len(r)
    BY <1>1
  <2>2. g[0] = <<>>
    BY <1>1, <1>3 DEF IsTexts
  <2>3. ASSUME NEW n \in 1 .. Len(r)
        PROVE  g[n] = AddText(g[n - 1], r[n])
    <3>1. n \in 0 .. Len(r) /\ n # 0
      BY <1>1
    <3> QED
      BY <1>3, <3>1 DEF IsTexts
  <2> QED
    BY <2>1, <2>2, <2>3
<1> DEFINE T == {n \in Nat : n <= Len(s) => f[n] = g[n]}
<1>6. 0 \in T
  BY <1>4, <1>5
<1>7. ASSUME NEW n \in Nat, n \in T PROVE n + 1 \in T
  <2> SUFFICES ASSUME n + 1 <= Len(s) PROVE f[n + 1] = g[n + 1]
    OBVIOUS
  <2>1. n + 1 \in 1 .. Len(s) /\ n + 1 \in 1 .. Len(s) + 1 /\ n <= Len(s)
        /\ n + 1 - 1 = n
    BY <1>1
  <2>2. f[n] = g[n]
    BY <1>7, <2>1
  <2>3. r[n + 1] = s[n + 1]
    BY <1>1, <2>1
  <2> QED
    BY <1>4, <1>5, <2>1, <2>2, <2>3
<1>8. Len(s) \in T
  <2>1. T \in SUBSET Nat
    OBVIOUS
  <2> HIDE DEF T
  <2> QED
    BY <1>1, <1>6, <1>7, <2>1, Induction
<1>9. f[Len(s)] = g[Len(s)]
  BY <1>1, <1>8
<1>10. Len(s) + 1 \in 1 .. Len(s) + 1 /\ Len(s) + 1 - 1 = Len(s)
  BY <1>1
<1>11. g[Len(s) + 1] = AddText(g[Len(s)], r[Len(s) + 1])
  BY <1>5, <1>10
<1>12. TextsOf(r) = AddText(f[Len(s)], e)
  BY <1>1, <1>3, <1>9, <1>11
<1> QED
  BY <1>2, <1>12 DEF r

\* No calls, no texts.
LEMMA TextsEmpty == TextsOf(<<>>) = <<>>
<1>1. Len(<<>>) = 0
  BY EmptySeq
<1>2. PICK f : IsTexts(<<>>, 0, f) /\ TextsOf(<<>>) = f[0]
  BY <1>1, TextsIs
<1> QED
  BY <1>2 DEF IsTexts

-----------------------------------------------------------------------------
(* What is read between two breaks.                                        *)

\* The beginnings of a sequence.
LEMMA Beginnings ==
  ASSUME NEW S, NEW b \in Seq(S), NEW j \in Nat, j < Len(b)
  PROVE  /\ SubSeq(b, 1, 0) = <<>>
         /\ SubSeq(b, 1, j + 1) = Append(SubSeq(b, 1, j), b[j + 1])
<1>1. Len(b) \in Nat
  BY LenProperties
<1>2. SubSeq(b, 1, 0) = <<>>
  OBVIOUS
<1>3. /\ SubSeq(b, 1, j) \in Seq(S) /\ Len(SubSeq(b, 1, j)) = j
      /\ \A i \in 1 .. j : SubSeq(b, 1, j)[i] = b[i]
  BY <1>1
<1>4. /\ SubSeq(b, 1, j + 1) \in Seq(S) /\ Len(SubSeq(b, 1, j + 1)) = j + 1
      /\ \A i \in 1 .. j + 1 : SubSeq(b, 1, j + 1)[i] = b[i]
  BY <1>1
<1> DEFINE x == SubSeq(b, 1, j)
           y == SubSeq(b, 1, j + 1)
           z == Append(x, b[j + 1])
<1>5. b[j + 1] \in S
  BY <1>1, ElementOfSeq
<1>6. /\ z \in Seq(S) /\ Len(z) = j + 1 /\ z[j + 1] = b[j + 1]
      /\ \A i \in 1 .. j : z[i] = b[i]
  <2> HIDE DEF x
  <2> QED
    BY <1>3, <1>5, AppendProperties DEF x
<1> HIDE DEF y, z
<1>7. \A i \in 1 .. j + 1 : y[i] = z[i]
  BY <1>4, <1>6 DEF y
<1>8. y = z
  BY <1>4, <1>6, <1>7, SeqEqual DEF y
<1> QED
  BY <1>2, <1>8 DEF y, z

\* A reader that has kept a newline back.
Holding(es, e) == [events |-> es, event |-> e, newline |-> TRUE]
Reader(es, e) == [events |-> es, event |-> e, newline |-> FALSE]

\* After the first m tokens of s the reader is between two events, and b is what
\* follows there.
Between(s, m, es, b) ==
  /\ Reading(s)[m] = Reader(es, <<>>)
  /\ m + Len(b) <= Len(s)
  /\ \A i \in 1 .. Len(b) : b[i] = s[m + i]

\* The reader keeps back the newline at j.
Held(b, j) == j > 0 /\ b[j] = NL
After(es, b, j) ==
  IF Held(b, j) THEN Holding(es, SubSeq(b, 1, j - 1))
  ELSE Reader(es, SubSeq(b, 1, j))

\* What a reader does with a token.
LEMMA ReadTokenIs ==
  ASSUME NEW es, NEW e, NEW t
  PROVE  /\ t # NL => /\ ReadToken(Holding(es, e), t)
                           = Reader(es, Append(Append(e, NL), t))
                      /\ ReadToken(Reader(es, e), t)
                           = Reader(es, Append(e, t))
         /\ t = NL => /\ ReadToken(Holding(es, e), t)
                           = Reader(Append(es, e), <<>>)
                      /\ ReadToken(Reader(es, e), t) = Holding(es, e)
BY DEF ReadToken, Reader, Holding

\* What has been read, when the last token has been kept back and when not.
LEMMA AfterIs ==
  ASSUME NEW es, NEW b, NEW j \in Nat
  PROVE  /\ Held(b, j) => After(es, b, j) = Holding(es, SubSeq(b, 1, j - 1))
         /\ ~Held(b, j) => After(es, b, j) = Reader(es, SubSeq(b, 1, j))
BY DEF After, Held

\* One more token, which does not end the event.
LEMMA ReadTokenOn ==
  ASSUME NEW es, NEW b \in Seq(Tokens), NEW j \in Nat, j < Len(b), j \notin Breaks(b)
  PROVE  ReadToken(After(es, b, j), b[j + 1]) = After(es, b, j + 1)
<1>1. Len(b) \in Nat /\ j + 1 > 0 /\ j + 1 \in Nat
  BY LenProperties
<1>2. SubSeq(b, 1, j + 1) = Append(SubSeq(b, 1, j), b[j + 1])
  BY Beginnings
<1>3. CASE Held(b, j) /\ b[j + 1] # NL
  <2>1. j - 1 \in Nat /\ j - 1 < Len(b) /\ j - 1 + 1 = j /\ b[j] = NL
    BY <1>1, <1>3 DEF Held
  <2>2. SubSeq(b, 1, j - 1 + 1) = Append(SubSeq(b, 1, j - 1), b[j - 1 + 1])
    BY <2>1, Beginnings
  <2>3. SubSeq(b, 1, j + 1) = Append(Append(SubSeq(b, 1, j - 1), NL), b[j + 1])
    BY <1>2, <2>1, <2>2
  <2>4. After(es, b, j + 1) = Reader(es, SubSeq(b, 1, j + 1))
    BY <1>1, <1>3, AfterIs DEF Held
  <2>5. After(es, b, j) = Holding(es, SubSeq(b, 1, j - 1))
    BY <1>3, AfterIs
  <2>6. ReadToken(Holding(es, SubSeq(b, 1, j - 1)), b[j + 1])
          = Reader(es, Append(Append(SubSeq(b, 1, j - 1), NL), b[j + 1]))
    BY <1>3, ReadTokenIs
  <2> QED
    BY <2>3, <2>4, <2>5, <2>6
<1>4. CASE ~Held(b, j) /\ b[j + 1] # NL
  <2>1. After(es, b, j + 1) = Reader(es, SubSeq(b, 1, j + 1))
    BY <1>1, <1>4, AfterIs DEF Held
  <2>2. After(es, b, j) = Reader(es, SubSeq(b, 1, j))
    BY <1>4, AfterIs
  <2>3. ReadToken(Reader(es, SubSeq(b, 1, j)), b[j + 1])
          = Reader(es, Append(SubSeq(b, 1, j), b[j + 1]))
    BY <1>4, ReadTokenIs
  <2> QED
    BY <1>2, <2>1, <2>2, <2>3
<1>5. CASE b[j + 1] = NL
  <2>1. ~Held(b, j)
    BY <1>1, <1>5 DEF Held, Breaks
  <2>2. Held(b, j + 1) /\ j + 1 - 1 = j
    BY <1>1, <1>5 DEF Held
  <2> QED
    BY <1>1, <1>5, <2>1, <2>2, AfterIs, ReadTokenIs
<1> QED
  BY <1>3, <1>4, <1>5

\* From one event to the first break the reader has what lies between.
LEMMA ReadOn ==
  ASSUME NEW s \in Seq(Tokens), NEW m \in Nat, NEW es, NEW b \in Seq(Tokens),
         Between(s, m, es, b), NEW j \in 0 .. Len(b), \A i \in Breaks(b) : j <= i
  PROVE  Reading(s)[m + j] = After(es, b, j)
<1> DEFINE T == {n \in Nat : n <= j => Reading(s)[m + n] = After(es, b, n)}
<1>1. Len(s) \in Nat /\ Len(b) \in Nat
  BY LenProperties
<1>2. 0 \in T
  <2>1. m + 0 = m /\ ~Held(b, 0)
    BY DEF Held
  <2>2. SubSeq(b, 1, 0) = <<>>
    OBVIOUS
  <2> QED
    BY <2>1, <2>2, AfterIs DEF Between
<1>3. ASSUME NEW n \in Nat, n \in T PROVE n + 1 \in T
  <2> SUFFICES ASSUME n + 1 <= j PROVE Reading(s)[m + (n + 1)] = After(es, b, n + 1)
    OBVIOUS
  <2>1. n <= j /\ n < Len(b) /\ n \notin Breaks(b) /\ n + 1 \in 1 .. Len(b)
    BY <1>1
  <2>2. Reading(s)[m + n] = After(es, b, n)
    BY <1>3, <2>1
  <2>3. /\ m + (n + 1) \in 1 .. Len(s) /\ m + (n + 1) - 1 = m + n
        /\ s[m + (n + 1)] = b[n + 1]
    <3>1. s[m + (n + 1)] = b[n + 1]
      BY <2>1 DEF Between
    <3>2. m + Len(b) <= Len(s) /\ n + 1 <= Len(b)
      BY <2>1 DEF Between
    <3> QED
      BY <1>1, <3>1, <3>2
  <2>4. Reading(s)[m + (n + 1)] = ReadToken(Reading(s)[m + n], b[n + 1])
    BY <2>3, ReadingIs
  <2> QED
    BY <2>1, <2>2, <2>4, ReadTokenOn
<1>4. T \in SUBSET Nat
  OBVIOUS
<1>5. j \in T
  <2> HIDE DEF T
  <2> QED
    BY <1>1, <1>2, <1>3, <1>4, Induction
<1> QED
  BY <1>1, <1>5

\* The place of the first break.
LEMMA FirstBreak ==
  ASSUME NEW b \in Seq(Tokens), Breaks(b) # {}
  PROVE  /\ Min(Breaks(b)) \in Breaks(b)
         /\ \A i \in Breaks(b) : Min(Breaks(b)) <= i
<1>1. Breaks(b) \in SUBSET Nat
  BY LenProperties DEF Breaks
<1>2. \E m \in Breaks(b) : \A i \in Breaks(b) : m <= i
  BY <1>1, LeastElement
<1> QED
  BY <1>2 DEF Min

\* An event read token by token is what lies before the first break.
LEMMA ReadEvent ==
  ASSUME NEW s \in Seq(Tokens), NEW m \in Nat, NEW es \in Seq(Seq(Tokens)),
         NEW b \in Seq(Tokens), Between(s, m, es, b), Breaks(b) # {}
  PROVE  LET p == Min(Breaks(b))
         IN /\ p \in 1 .. Len(b) - 1 /\ SubSeq(b, 1, p - 1) \in Seq(Tokens)
            /\ SubSeq(b, p + 2, Len(b)) \in Seq(Tokens)
            /\ Len(SubSeq(b, p + 2, Len(b))) = Len(b) - (p + 1)
            /\ Between(s, m + (p + 1), Append(es, SubSeq(b, 1, p - 1)),
                       SubSeq(b, p + 2, Len(b)))
<1> DEFINE p == Min(Breaks(b))
           c == SubSeq(b, p + 2, Len(b))
<1>1. p \in Breaks(b) /\ \A i \in Breaks(b) : p <= i
  BY FirstBreak
<1> HIDE DEF p
<1>2. /\ Len(b) \in Nat /\ Len(s) \in Nat /\ p \in 1 .. Len(b) - 1
      /\ b[p] = NL /\ b[p + 1] = NL
  BY <1>1, LenProperties DEF Breaks
<1>3. SubSeq(b, 1, p - 1) \in Seq(Tokens)
  BY <1>2
<1>4. /\ c \in Seq(Tokens) /\ Len(c) = Len(b) - (p + 1)
      /\ \A i \in 1 .. Len(c) : c[i] = b[p + 1 + i]
  BY <1>2
<1>5. Reading(s)[m + p] = After(es, b, p)
  <2>1. p \in 0 .. Len(b)
    BY <1>2
  <2> QED
    BY <1>1, <2>1, ReadOn
<1>6. /\ m + (p + 1) \in 1 .. Len(s) /\ m + (p + 1) - 1 = m + p
      /\ s[m + (p + 1)] = NL
  <2>1. p + 1 \in 1 .. Len(b) /\ p + 1 \in Nat
    BY <1>2
  <2>2. m + Len(b) <= Len(s) /\ \A i \in 1 .. Len(b) : b[i] = s[m + i]
    BY DEF Between
  <2>3. s[m + (p + 1)] = NL
    BY <1>2, <2>1, <2>2
  <2>4. m + (p + 1) \in 1 .. Len(s) /\ m + (p + 1) - 1 = m + p
    BY <1>2, <2>1, <2>2
  <2> QED
    BY <2>3, <2>4
<1>7. Reading(s)[m + (p + 1)] = ReadToken(After(es, b, p), NL)
  <2>1. PICK q \in 1 .. Len(s) : q = m + (p + 1)
    BY <1>6
  <2>2. Reading(s)[q] = ReadToken(Reading(s)[q - 1], s[q])
    BY ReadingIs
  <2>3. q - 1 = m + p
    BY <1>2, <2>1
  <2>5. s[q] = NL
    BY <1>6, <2>1
  <2>4. Reading(s)[q] = ReadToken(After(es, b, p), NL)
    BY <1>5, <2>2, <2>3, <2>5
  <2> QED
    BY <2>1, <2>4
<1>8. After(es, b, p) = Holding(es, SubSeq(b, 1, p - 1))
  <2>1. Held(b, p) /\ p \in Nat
    BY <1>2 DEF Held
  <2> QED
    BY <2>1, AfterIs
<1>9. Reading(s)[m + (p + 1)] = Reader(Append(es, SubSeq(b, 1, p - 1)), <<>>)
  BY <1>7, <1>8, ReadTokenIs
<1> HIDE DEF c
<1>10. m + (p + 1) + Len(c) <= Len(s)
  BY <1>2, <1>4 DEF Between
<1>11. ASSUME NEW i \in 1 .. Len(c) PROVE c[i] = s[m + (p + 1) + i]
  <2>1. c[i] = b[p + 1 + i] /\ p + 1 + i \in 1 .. Len(b)
    BY <1>2, <1>4
  <2>2. b[p + 1 + i] = s[m + (p + 1 + i)]
    BY <2>1 DEF Between
  <2>3. m + (p + 1 + i) = m + (p + 1) + i
    BY <1>2, <1>4
  <2> QED
    BY <2>1, <2>2, <2>3
<1>12. Between(s, m + (p + 1), Append(es, SubSeq(b, 1, p - 1)), c)
  BY <1>9, <1>10, <1>11 DEF Between
<1> QED
  BY <1>2, <1>3, <1>4, <1>12 DEF p, c

\* What is left without a break has no further event.
LEMMA ReadRest ==
  ASSUME NEW s \in Seq(Tokens), NEW m \in Nat, NEW es, NEW b \in Seq(Tokens),
         Between(s, m, es, b), Breaks(b) = {}
  PROVE  Reading(s)[m + Len(b)].events = es
<1>1. Len(b) \in 0 .. Len(b)
  BY LenProperties
<1>2. Reading(s)[m + Len(b)] = After(es, b, Len(b))
  BY <1>1, ReadOn
<1> QED
  BY <1>2, <1>1, AfterIs DEF Reader, Holding

-----------------------------------------------------------------------------
(* What the events come to.                                                *)

\* What an event may come to.
Results == Texts \cup {End, Nothing}

\* An event comes to a text, to the end, or to nothing.
LEMMA DecodeType ==
  ASSUME NEW f, NEW e \in Seq(Tokens)
  PROVE  Decode(f, e) \in Results
<1>1. DecodeOpenAI(e) \in Results
  BY DEF DecodeOpenAI, Results
<1>2. DecodeAnthropic(e) \in Results
  BY DEF DecodeAnthropic, Results
<1> QED
  BY <1>1, <1>2 DEF Decode

\* The texts among some calls or decoded events are texts.
LEMMA TextsType ==
  ASSUME NEW s \in Seq(Results)
  PROVE  TextsOf(s) \in Seq(Texts)
<1>1. Len(s) \in Nat /\ \A n \in 1 .. Len(s) : s[n] \in Results
  BY LenProperties, ElementOfSeq
<1>2. PICK f : IsTexts(s, Len(s), f) /\ TextsOf(s) = f[Len(s)]
  BY <1>1, TextsIs
<1>3. f[0] = <<>> /\ \A n \in 1 .. Len(s) : f[n] = AddText(f[n - 1], s[n])
  BY <1>1, <1>2 DEF IsTexts
<1> DEFINE T == {n \in Nat : n <= Len(s) => f[n] \in Seq(Texts)}
<1>4. 0 \in T
  BY <1>3, EmptySeq
<1>5. ASSUME NEW n \in Nat, n \in T PROVE n + 1 \in T
  <2> SUFFICES ASSUME n + 1 <= Len(s) PROVE f[n + 1] \in Seq(Texts)
    OBVIOUS
  <2>1. n + 1 \in 1 .. Len(s) /\ n <= Len(s) /\ n + 1 - 1 = n
    BY <1>1
  <2>2. f[n + 1] = AddText(f[n], s[n + 1])
    BY <1>3, <2>1
  <2>3. f[n] \in Seq(Texts) /\ s[n + 1] \in Results
    BY <1>1, <1>5, <2>1
  <2> QED
    BY <2>2, <2>3, AppendProperties DEF AddText, Results
<1>6. T \in SUBSET Nat
  OBVIOUS
<1>7. Len(s) \in T
  <2> HIDE DEF T
  <2> QED
    BY <1>1, <1>4, <1>5, <1>6, Induction
<1> QED
  BY <1>1, <1>2, <1>7

\* One more event.
LEMMA DecodedAppend ==
  ASSUME NEW f, NEW es \in Seq(Seq(Tokens)), NEW e \in Seq(Tokens)
  PROVE  /\ Decoded(f, es) \in Seq(Results)
         /\ Decoded(f, Append(es, e)) = Append(Decoded(f, es), Decode(f, e))
<1>1. /\ Len(es) \in Nat /\ DOMAIN es = 1 .. Len(es)
      /\ \A i \in 1 .. Len(es) : es[i] \in Seq(Tokens)
  BY LenProperties, ElementOfSeq
<1> DEFINE d == Decoded(f, es)
           es2 == Append(es, e)
           d2 == Decoded(f, es2)
<1>2. /\ es2 \in Seq(Seq(Tokens)) /\ Len(es2) = Len(es) + 1 /\ es2[Len(es) + 1] = e
      /\ DOMAIN es2 = 1 .. Len(es) + 1 /\ \A i \in 1 .. Len(es) : es2[i] = es[i]
  BY <1>1, AppendProperties, LenProperties
<1>3. /\ d \in Seq(Results) /\ Len(d) = Len(es)
      /\ \A i \in 1 .. Len(es) : d[i] = Decode(f, es[i])
  BY <1>1, DecodeType, IsASeq DEF Decoded
<1> HIDE DEF es2
<1>4. \A i \in 1 .. Len(es) + 1 : es2[i] \in Seq(Tokens)
  BY <1>1, <1>2
<1>5. /\ d2 \in Seq(Results) /\ Len(d2) = Len(es) + 1
      /\ \A i \in 1 .. Len(es) + 1 : d2[i] = Decode(f, es2[i])
  BY <1>1, <1>2, <1>4, DecodeType, IsASeq DEF Decoded
<1> DEFINE a == Append(d, Decode(f, e))
<1> HIDE DEF d, d2
<1>6. /\ a \in Seq(Results) /\ Len(a) = Len(es) + 1 /\ a[Len(es) + 1] = Decode(f, e)
      /\ \A i \in 1 .. Len(es) : a[i] = d[i]
  BY <1>3, DecodeType, AppendProperties
<1> HIDE DEF a
<1>7. \A i \in 1 .. Len(es) + 1 : d2[i] = a[i]
  <2> TAKE i \in 1 .. Len(es) + 1
  <2>1. i \in 1 .. Len(es) \/ i = Len(es) + 1
    BY <1>1
  <2> QED
    BY <1>2, <1>3, <1>5, <1>6, <2>1
<1>8. d2 = a
  BY <1>5, <1>6, <1>7, SeqEqual
<1> QED
  BY <1>3, <1>8 DEF a, d, d2, es2

\* An end among one more call or event.
LEMMA HasEndAppend ==
  ASSUME NEW S, NEW s \in Seq(S), NEW d \in S
  PROVE  HasEnd(Append(s, d)) <=> HasEnd(s) \/ d = End
<1> DEFINE r == Append(s, d)
<1>1. /\ Len(s) \in Nat /\ DOMAIN s = 1 .. Len(s) /\ DOMAIN r = 1 .. Len(s) + 1
      /\ r[Len(s) + 1] = d /\ \A i \in 1 .. Len(s) : r[i] = s[i]
  BY AppendProperties, LenProperties
<1> HIDE DEF r
<1>2. \A i \in 1 .. Len(s) + 1 : i \in 1 .. Len(s) \/ i = Len(s) + 1
  BY <1>1
<1>3. 1 .. Len(s) \subseteq 1 .. Len(s) + 1 /\ Len(s) + 1 \in 1 .. Len(s) + 1
  BY <1>1
<1> QED
  BY <1>1, <1>2, <1>3 DEF HasEnd, r

-----------------------------------------------------------------------------
(* The invariant: types, phases, and what is known.                        *)

\* The call without libcurl, which has only reported the end.
NoCurl == pc = "nocurl" \/ (pc = "threw" /\ received = 0)

\* What the parser and the session know of the first tokens of the stream, which
\* amount to the events es, when the parser has the tokens behind in its buffer.
Known(es, m) ==
  /\ m + Len(buffer) = received
  /\ Between(stream, m, es, buffer)
  /\ done = HasEnd(Decoded(format, es))
  /\ ~NoCurl => /\ TextsOf(out) \o messages = TextsOf(Decoded(format, es))
                /\ HasEnd(out) => done
                /\ pc \notin {"feed", "calls"} /\ done => HasEnd(out)

\* When the callback does what.
PhaseInv ==
  /\ pc \in {"init", "nocurl"} => received = 0
  /\ pc = "init" => out = <<>>
  /\ pc \notin {"feed", "calls"} => messages = <<>>
  /\ pc # "feed" => Breaks(buffer) = {}

\* The inductive invariant.
IInv == TypeOK /\ PhaseInv /\ \E es \in Seq(Seq(Tokens)), m \in Nat : Known(es, m)

\* A call that begins.
LEMMA InitIInv == Init => IInv
<1> SUFFICES ASSUME Init PROVE IInv
  OBVIOUS
<1>1. /\ <<>> \in Seq(Seq(Tokens)) /\ <<>> \in Seq(Tokens) /\ <<>> \in Seq(Texts)
      /\ <<>> \in Seq(Texts \cup {End}) /\ Len(<<>>) = 0 /\ <<>> \in Seq(Results)
      /\ DOMAIN <<>> = {}
  BY EmptySeq
<1>2. stream \in Seq(Tokens) /\ Len(stream) \in Nat
  BY AdapterAssumption, LenProperties DEF Init
<1>3. TypeOK /\ PhaseInv
  <2>1. Breaks(<<>>) = {}
    BY <1>1 DEF Breaks
  <2>2. TypeOK
    <3>1. buffer \in Seq(Tokens) /\ messages \in Seq(Texts)
      BY <1>1 DEF Init
    <3>2. out \in Seq(Texts \cup {End})
      BY <1>1 DEF Init
    <3>3. received \in 0 .. Len(stream) /\ stream \in Seq(Tokens)
      BY <1>2 DEF Init
    <3> QED
      BY <3>1, <3>2, <3>3 DEF Init, TypeOK
  <2>3. PhaseInv
    BY <2>1 DEF Init, PhaseInv
  <2> QED
    BY <2>2, <2>3
<1>4. Between(stream, 0, <<>>, <<>>)
  <2>1. Reading(stream)[0] = Reader(<<>>, <<>>)
    BY <1>2, ReadingIs DEF NothingRead, Reader
  <2> QED
    BY <1>1, <1>2, <2>1 DEF Between
<1>5. Decoded(format, <<>>) = <<>>
  BY <1>1 DEF Decoded
<1>6. HasEnd(<<>>) = FALSE
  BY <1>1 DEF HasEnd
<1>7. <<>> \o <<>> = <<>>
  BY <1>1
<1>8. Known(<<>>, 0)
  <2>1. /\ buffer = <<>> /\ out = <<>> /\ messages = <<>> /\ received = 0
        /\ done = FALSE
    BY DEF Init
  <2>2. HasEnd(Decoded(format, <<>>)) = FALSE /\ ~HasEnd(out)
    BY <1>5, <1>6, <2>1
  <2>3. TextsOf(out) \o messages = TextsOf(Decoded(format, <<>>))
    BY <1>5, <1>7, <2>1, TextsEmpty
  <2>4. 0 + Len(buffer) = received /\ Between(stream, 0, <<>>, buffer)
    BY <1>1, <1>4, <2>1
  <2> QED
    BY <2>1, <2>2, <2>3, <2>4 DEF Known
<1> QED
  BY <1>1, <1>3, <1>8 DEF IInv

\* The types.
LEMMA TypeStep == TypeOK /\ [Next]_vars => TypeOK'
<1> SUFFICES ASSUME TypeOK, [Next]_vars PROVE TypeOK'
  OBVIOUS
<1> USE DEF TypeOK
<1>1. Len(stream) \in Nat /\ Len(buffer) \in Nat
  BY LenProperties
<1>2. CASE CurlInitFails
  <2>1. <<End>> \in Seq(Texts \cup {End})
    OBVIOUS
  <2> QED
    BY <1>2, <2>1 DEF CurlInitFails
<1>3. CASE Perform \/ TransferSucceeds \/ Throw
  BY <1>3 DEF Perform, TransferSucceeds, Throw
<1>4. ASSUME NEW n \in 1 .. Len(stream), WriteCallback(n) PROVE TypeOK'
  <2>1. SubSeq(stream, received + 1, received + n) \in Seq(Tokens)
    BY <1>1, <1>4 DEF WriteCallback
  <2>2. buffer \o SubSeq(stream, received + 1, received + n) \in Seq(Tokens)
    BY <2>1, ConcatProperties
  <2>3. received + n \in 0 .. Len(stream) /\ <<>> \in Seq(Texts)
    BY <1>1, <1>4, EmptySeq DEF WriteCallback
  <2> QED
    BY <1>4, <2>2, <2>3 DEF WriteCallback
<1>5. CASE TakeEvent
  <2> DEFINE p == Min(Breaks(buffer))
             e == SubSeq(buffer, 1, p - 1)
             d == Decode(format, e)
  <2>1. p \in 1 .. Len(buffer) - 1
    BY <1>5, FirstBreak DEF TakeEvent, Breaks
  <2> HIDE DEF p
  <2>2. e \in Seq(Tokens) /\ SubSeq(buffer, p + 2, Len(buffer)) \in Seq(Tokens)
    BY <1>1, <2>1
  <2>3. d \in Results
    BY <2>2, DecodeType
  <2> HIDE DEF d
  <2>4. d \notin {End, Nothing} => Append(messages, d) \in Seq(Texts)
    BY <2>3, AppendProperties DEF Results
  <2>5. /\ buffer' = SubSeq(buffer, p + 2, Len(buffer))
        /\ done' = (done \/ d = End)
        /\ messages' = IF d \in {End, Nothing} THEN messages ELSE Append(messages, d)
        /\ UNCHANGED <<format, stream, pc, received, out>>
    BY <1>5 DEF TakeEvent, p, d
  <2> QED
    BY <2>2, <2>4, <2>5
<1>6. CASE FeedReturns
  BY <1>6 DEF FeedReturns, Kept
<1>7. CASE CallText
  <2>1. Head(messages) \in Texts /\ Tail(messages) \in Seq(Texts)
    BY <1>7, HeadTailProperties DEF CallText
  <2>2. Append(out, Head(messages)) \in Seq(Texts \cup {End})
    BY <2>1, AppendProperties
  <2> QED
    BY <1>7, <2>1, <2>2 DEF CallText
<1>8. CASE CallbackReturns
  <2>1. Append(out, End) \in Seq(Texts \cup {End})
    BY AppendProperties
  <2> QED
    BY <1>8, <2>1 DEF CallbackReturns
<1>9. CASE UNCHANGED vars
  BY <1>9 DEF vars
<1> QED
  BY <1>2, <1>3, <1>4, <1>5, <1>6, <1>7, <1>8, <1>9 DEF Next

\* The phases of the callback.
LEMMA PhaseStep == TypeOK /\ PhaseInv /\ [Next]_vars => PhaseInv'
<1> SUFFICES ASSUME TypeOK, PhaseInv, [Next]_vars PROVE PhaseInv'
  OBVIOUS
<1> USE DEF PhaseInv
<1>1. CASE CurlInitFails \/ Perform \/ TransferSucceeds \/ Throw
  BY <1>1 DEF CurlInitFails, Perform, TransferSucceeds, Throw, Breaks
<1>2. ASSUME NEW n \in 1 .. Len(stream), WriteCallback(n) PROVE PhaseInv'
  BY <1>2 DEF WriteCallback
<1>3. CASE TakeEvent
  BY <1>3 DEF TakeEvent
<1>4. CASE FeedReturns
  BY <1>4 DEF FeedReturns, Kept, Breaks
<1>5. CASE CallText
  BY <1>5 DEF CallText, Breaks
<1>6. CASE CallbackReturns
  BY <1>6 DEF CallbackReturns, Breaks
<1>7. CASE UNCHANGED vars
  BY <1>7 DEF vars, Breaks
<1> QED
  BY <1>1, <1>2, <1>3, <1>4, <1>5, <1>6, <1>7 DEF Next

-----------------------------------------------------------------------------
(* The steps keep what is known.                                           *)

\* More tokens have arrived behind what the reader knows.
LEMMA BetweenGrows ==
  ASSUME NEW s \in Seq(Tokens), NEW m \in Nat, NEW es, NEW b \in Seq(Tokens),
         Between(s, m, es, b), NEW n \in 1 .. Len(s), m + Len(b) + n <= Len(s)
  PROVE  LET more == SubSeq(s, m + Len(b) + 1, m + Len(b) + n)
         IN /\ b \o more \in Seq(Tokens) /\ Len(b \o more) = Len(b) + n
            /\ Between(s, m, es, b \o more)
<1> DEFINE more == SubSeq(s, m + Len(b) + 1, m + Len(b) + n)
<1>1. Len(b) \in Nat /\ Len(s) \in Nat
  BY LenProperties
<1>2. /\ more \in Seq(Tokens) /\ Len(more) = n
      /\ \A i \in 1 .. n : more[i] = s[m + Len(b) + i]
  BY <1>1
<1> HIDE DEF more
<1> DEFINE c == b \o more
<1>3. /\ c \in Seq(Tokens) /\ Len(c) = Len(b) + n
      /\ \A i \in 1 .. Len(b) + n :
           c[i] = IF i <= Len(b) THEN b[i] ELSE more[i - Len(b)]
  BY <1>1, <1>2, ConcatProperties
<1> HIDE DEF c
<1>4. ASSUME NEW i \in 1 .. Len(c) PROVE c[i] = s[m + i]
  <2>1. CASE i <= Len(b)
    <3>1. i \in 1 .. Len(b)
      BY <1>1, <1>3, <2>1
    <3> QED
      BY <1>3, <2>1, <3>1 DEF Between
  <2>2. CASE ~(i <= Len(b))
    <3>1. i - Len(b) \in 1 .. n /\ m + Len(b) + (i - Len(b)) = m + i
      BY <1>1, <1>3, <2>2
    <3>2. more[i - Len(b)] = s[m + i]
      BY <1>2, <3>1
    <3> QED
      BY <1>3, <2>2, <3>2
  <2> QED
    BY <2>1, <2>2
<1>5. m + Len(c) <= Len(s)
  BY <1>1, <1>3
<1>6. Between(s, m, es, c)
  BY <1>4, <1>5 DEF Between
<1> QED
  BY <1>3, <1>6 DEF c, more

\* An event has been cut off the buffer.
LEMMA KnownEvent ==
  ASSUME TypeOK, PhaseInv, TakeEvent, NEW es \in Seq(Seq(Tokens)), NEW m \in Nat,
         Known(es, m)
  PROVE  \E es2 \in Seq(Seq(Tokens)), m2 \in Nat : Known(es2, m2)'
<1> DEFINE p == Min(Breaks(buffer))
           e == SubSeq(buffer, 1, p - 1)
           d == Decode(format, e)
           rest == SubSeq(buffer, p + 2, Len(buffer))
           ds == Decoded(format, es)
           es2 == Append(es, e)
           m2 == m + (p + 1)
<1>1. /\ stream \in Seq(Tokens) /\ buffer \in Seq(Tokens) /\ Len(buffer) \in Nat
      /\ Between(stream, m, es, buffer) /\ Breaks(buffer) # {} /\ pc = "feed"
      /\ out \in Seq(Texts \cup {End}) /\ out \in Seq(Results)
      /\ messages \in Seq(Texts)
  BY LenProperties DEF TypeOK, Known, TakeEvent, Results
<1>2. /\ p \in 1 .. Len(buffer) - 1 /\ e \in Seq(Tokens) /\ rest \in Seq(Tokens)
      /\ Len(rest) = Len(buffer) - (p + 1)
      /\ Between(stream, m2, es2, rest)
  BY <1>1, ReadEvent
<1>3. /\ buffer' = rest /\ done' = (done \/ d = End)
      /\ messages' = IF d \in {End, Nothing} THEN messages ELSE Append(messages, d)
      /\ UNCHANGED <<format, stream, pc, received, out>>
  BY DEF TakeEvent
<1>4. ds \in Seq(Results) /\ Decoded(format, es2) = Append(ds, d) /\ d \in Results
  BY <1>2, DecodedAppend, DecodeType
<1>5. es2 \in Seq(Seq(Tokens)) /\ m2 \in Nat
  <2>1. es2 \in Seq(Seq(Tokens))
    BY <1>2
  <2> HIDE DEF p, es2
  <2>2. m2 \in Nat
    BY <1>2
  <2> QED
    BY <2>1, <2>2
<1> HIDE DEF p, e, d, rest, ds, es2
<1>6. m2 + Len(buffer') = received'
  <2>1. m + Len(buffer) = received
    BY DEF Known
  <2>2. Len(buffer') = Len(buffer) - (p + 1) /\ received' = received
    BY <1>2, <1>3
  <2> QED
    BY <1>1, <1>2, <2>1, <2>2
<1> HIDE DEF m2
<1>7. Between(stream', m2, es2, buffer')
  BY <1>2, <1>3
<1>8. done' = HasEnd(Decoded(format', es2))
  <2>1. HasEnd(Append(ds, d)) <=> HasEnd(ds) \/ d = End
    BY <1>4, HasEndAppend
  <2>2. done = HasEnd(ds)
    BY DEF Known, ds
  <2>3. HasEnd(Append(ds, d)) \in BOOLEAN /\ HasEnd(ds) \in BOOLEAN
    BY DEF HasEnd
  <2>4. done' = HasEnd(Append(ds, d))
    BY <1>3, <2>1, <2>2, <2>3
  <2> QED
    BY <1>3, <1>4, <2>4
<1>9. TextsOf(out) \o messages = TextsOf(ds) /\ (HasEnd(out) => done)
  BY <1>1 DEF Known, NoCurl, ds
<1>10. TextsOf(out') \o messages' = TextsOf(Decoded(format', es2))
  <2>1. TextsOf(Append(ds, d)) = AddText(TextsOf(ds), d)
    BY <1>4, TextsAppend
  <2>2. TextsOf(out) \in Seq(Texts)
    BY <1>1, TextsType
  <2>3. TextsOf(out) \o messages' = AddText(TextsOf(out) \o messages, d)
    <3>1. CASE d \in {End, Nothing}
      BY <1>3, <3>1 DEF AddText
    <3>2. CASE d \notin {End, Nothing}
      <4>1. d \in Texts
        BY <1>4, <3>2 DEF Results
      <4>2. TextsOf(out) \o Append(messages, d) = Append(TextsOf(out) \o messages, d)
        BY <1>1, <2>2, <4>1
      <4> QED
        BY <1>3, <3>2, <4>2 DEF AddText
    <3> QED
      BY <3>1, <3>2
  <2>4. TextsOf(out) \o messages' = TextsOf(Decoded(format, es2))
    BY <1>4, <1>9, <2>1, <2>3
  <2> QED
    BY <1>3, <2>4
<1>11. HasEnd(out') => done'
  BY <1>3, <1>9
<1>12. PICK x \in Seq(Seq(Tokens)), k \in Nat : x = es2 /\ k = m2
  BY <1>5
<1>13. Known(x, k)'
  BY <1>1, <1>3, <1>6, <1>7, <1>8, <1>10, <1>11, <1>12 DEF Known
<1> QED
  BY <1>13

\* Every step keeps what is known, or adds an event to it.
LEMMA KnownStep ==
  ASSUME TypeOK, PhaseInv, [Next]_vars, NEW es \in Seq(Seq(Tokens)), NEW m \in Nat,
         Known(es, m)
  PROVE  \E es2 \in Seq(Seq(Tokens)), m2 \in Nat : Known(es2, m2)'
<1>1. /\ stream \in Seq(Tokens) /\ buffer \in Seq(Tokens) /\ Len(buffer) \in Nat
      /\ Len(stream) \in Nat /\ received \in Nat
      /\ out \in Seq(Texts \cup {End}) /\ out \in Seq(Results)
      /\ messages \in Seq(Texts)
  BY LenProperties DEF TypeOK, Results
<1>2. CASE CurlInitFails \/ Perform \/ TransferSucceeds \/ Throw
  <2>1. UNCHANGED <<format, stream, received, buffer, done, messages>>
    BY <1>2 DEF CurlInitFails, Perform, TransferSucceeds, Throw
  <2>2. ~NoCurl' => /\ ~NoCurl /\ UNCHANGED out
                    /\ pc' \in {"transfer", "returned", "threw"}
    BY <1>2 DEF CurlInitFails, Perform, TransferSucceeds, Throw, NoCurl, PhaseInv
  <2>3. pc \notin {"feed", "calls"}
    BY <1>2 DEF CurlInitFails, Perform, TransferSucceeds, Throw
  <2>4. Known(es, m)'
    BY <2>1, <2>2, <2>3 DEF Known
  <2> QED
    BY <2>4
<1>3. ASSUME NEW n \in 1 .. Len(stream), WriteCallback(n)
      PROVE  \E es2 \in Seq(Seq(Tokens)), m2 \in Nat : Known(es2, m2)'
  <2>1. /\ pc = "transfer" /\ received + n <= Len(stream) /\ messages = <<>>
        /\ buffer' = buffer \o SubSeq(stream, received + 1, received + n)
        /\ received' = received + n /\ messages' = <<>> /\ pc' = "feed"
        /\ UNCHANGED <<format, stream, done, out>>
    BY <1>3 DEF WriteCallback, PhaseInv
  <2>2. m + Len(buffer) = received
    BY DEF Known
  <2> DEFINE more == SubSeq(stream, m + Len(buffer) + 1, m + Len(buffer) + n)
  <2>3. Len(buffer \o more) = Len(buffer) + n /\ Between(stream, m, es, buffer \o more)
    <3>1. m + Len(buffer) + n <= Len(stream) /\ Between(stream, m, es, buffer)
      BY <2>1, <2>2 DEF Known
    <3> QED
      BY <1>1, <3>1, BetweenGrows
  <2>7. buffer' = buffer \o more
    BY <2>1, <2>2
  <2> HIDE DEF more
  <2>4. m + Len(buffer') = received' /\ Between(stream', m, es, buffer')
    <3>1. Len(buffer') = Len(buffer) + n /\ Between(stream', m, es, buffer')
      BY <2>1, <2>3, <2>7
    <3>2. n \in Nat /\ Len(buffer) \in Nat /\ received' = received + n
      BY <1>1, <2>1
    <3>3. m + Len(buffer') = received'
      BY <2>2, <3>1, <3>2
    <3> QED
      BY <3>1, <3>3
  <2>5. ~NoCurl /\ UNCHANGED messages
    BY <2>1 DEF NoCurl
  <2>6. Known(es, m)'
    BY <2>1, <2>4, <2>5 DEF Known
  <2> QED
    BY <2>6
<1>4. CASE TakeEvent
  BY <1>4, KnownEvent
<1>5. CASE FeedReturns
  <2>1. Known(es, m)'
    BY <1>5 DEF FeedReturns, Kept, Known, NoCurl
  <2> QED
    BY <2>1
<1>6. CASE CallText
  <2> DEFINE h == Head(messages)
             tail == Tail(messages)
  <2>1. h \in Texts /\ tail \in Seq(Texts) /\ messages = <<h>> \o tail
    BY <1>1, <1>6, HeadTailProperties DEF CallText
  <2>2. h \in Results /\ h \notin {End, Nothing}
    BY <2>1, AdapterAssumption DEF Results
  <2>3. /\ out' = Append(out, h) /\ messages' = tail /\ pc = "calls"
        /\ UNCHANGED <<format, stream, pc, received, buffer, done>>
    BY <1>6 DEF CallText
  <2> HIDE DEF h, tail
  <2>4. TextsOf(out') = Append(TextsOf(out), h)
    BY <1>1, <2>2, <2>3, TextsAppend DEF AddText
  <2>5. TextsOf(out) \in Seq(Texts)
    BY <1>1, TextsType
  <2>6. Append(TextsOf(out), h) \o tail = TextsOf(out) \o (<<h>> \o tail)
    <3>1. <<h>> \in Seq(Texts)
      BY <2>1
    <3>2. Append(TextsOf(out), h) = TextsOf(out) \o <<h>>
      BY <2>1, <2>5, AppendIsConcat
    <3> QED
      BY <2>1, <2>5, <3>1, <3>2, ConcatAssociative
  <2>7. TextsOf(out') \o messages' = TextsOf(out) \o messages
    BY <2>1, <2>3, <2>4, <2>6
  <2>8. HasEnd(out') <=> HasEnd(out)
    BY <1>1, <2>2, <2>3, HasEndAppend
  <2>9. Known(es, m)'
    BY <2>3, <2>7, <2>8 DEF Known, NoCurl
  <2> QED
    BY <2>9
<1>7. CASE CallbackReturns
  <2>1. /\ out' = (IF done THEN Append(out, End) ELSE out) /\ pc' = "transfer"
        /\ pc = "calls"
        /\ UNCHANGED <<format, stream, received, buffer, done, messages>>
    BY <1>7 DEF CallbackReturns
  <2>2. TextsOf(out') = TextsOf(out)
    <3>1. TextsOf(Append(out, End)) = TextsOf(out)
      BY <1>1, TextsAppend DEF AddText
    <3> QED
      BY <2>1, <3>1
  <2>3. (HasEnd(out) => done) => (HasEnd(out') <=> done)
    <3>1. HasEnd(Append(out, End))
      BY <1>1, HasEndAppend
    <3>2. done \in BOOLEAN
      BY DEF TypeOK
    <3> QED
      BY <2>1, <3>1, <3>2
  <2>4. Known(es, m)'
    BY <2>1, <2>2, <2>3 DEF Known, NoCurl
  <2> QED
    BY <2>4
<1>8. CASE UNCHANGED vars
  <2>1. Known(es, m)'
    BY <1>8 DEF vars, Known, NoCurl
  <2> QED
    BY <2>1
<1> QED
  BY <1>2, <1>3, <1>4, <1>5, <1>6, <1>7, <1>8 DEF Next

\* The invariant is inductive.
THEOREM Inductive == Spec => []IInv
<1>1. IInv /\ [Next]_vars => IInv'
  <2> SUFFICES ASSUME IInv, [Next]_vars PROVE IInv'
    OBVIOUS
  <2>1. TypeOK' /\ PhaseInv'
    BY TypeStep, PhaseStep DEF IInv
  <2>2. PICK es \in Seq(Seq(Tokens)), m \in Nat : Known(es, m)
    BY DEF IInv
  <2>3. \E es2 \in Seq(Seq(Tokens)), m2 \in Nat : Known(es2, m2)'
    BY <2>2, KnownStep DEF IInv
  <2> QED
    BY <2>1, <2>3 DEF IInv
<1> QED
  BY <1>1, InitIInv, PTL DEF Spec

\* Adapter.TypeOK: the types of the variables, whatever the responses.
THEOREM TypeCorrect == Spec => []TypeOK
<1>1. IInv => TypeOK
  BY DEF IInv
<1> QED
  BY <1>1, Inductive, PTL

\* Adapter.ReadsAsWhole: however libcurl cuts a response into calls of
\* stream_write_callback, the session gets the texts of its complete events, each
\* once and in order, and the end exactly when it is among them (sse_handler::feed,
\* anthropic_stream_parser::feed, sse_handler.h:28-33).
THEOREM ReadAsWhole == Spec => []ReadsAsWhole
<1>1. IInv => ReadsAsWhole
  <2> SUFFICES ASSUME IInv,
                      \/ pc \in {"transfer", "returned"}
                      \/ pc = "threw" /\ received > 0
               PROVE  /\ TextsOf(out) = TextsOf(Reference)
                      /\ HasEnd(out) = HasEnd(Reference)
    BY DEF ReadsAsWhole
  <2>1. PICK es \in Seq(Seq(Tokens)), m \in Nat : Known(es, m)
    BY DEF IInv
  <2>2. /\ pc \notin {"feed", "calls"} /\ messages = <<>> /\ Breaks(buffer) = {}
        /\ stream \in Seq(Tokens) /\ buffer \in Seq(Tokens) /\ out \in Seq(Results)
        /\ done \in BOOLEAN /\ received \in Nat
    BY DEF IInv, PhaseInv, TypeOK, Results
  <2>3. ~NoCurl
    BY <2>2 DEF NoCurl
  <2>4. Reading(stream)[received].events = es
    BY <2>1, <2>2, ReadRest DEF Known
  <2>5. Reference = Decoded(format, es)
    BY <2>4 DEF Reference
  <2>6. TextsOf(out) \o <<>> = TextsOf(out)
    <3>1. TextsOf(out) \in Seq(Texts)
      BY <2>2, TextsType
    <3> QED
      BY <3>1, ConcatEmptySeq
  <2>7. TextsOf(out) = TextsOf(Reference)
    BY <2>1, <2>2, <2>3, <2>5, <2>6 DEF Known
  <2>8. HasEnd(out) <=> HasEnd(Decoded(format, es))
    BY <2>1, <2>2, <2>3 DEF Known
  <2>9. HasEnd(out) \in BOOLEAN /\ HasEnd(Reference) \in BOOLEAN
    BY DEF HasEnd
  <2> QED
    BY <2>5, <2>7, <2>8, <2>9
<1> QED
  BY <1>1, Inductive, PTL

-----------------------------------------------------------------------------
(* The adapter is a StreamSource.                                          *)

\* The calls as StreamSource sees them.
SaidOf(calls) == [i \in DOMAIN calls |-> IF calls[i] = End THEN "end" ELSE "text"]

\* One more call: a text or the end behind what was said.
LEMMA SaidAppend ==
  ASSUME NEW S, NEW calls \in Seq(S), NEW x \in S
  PROVE  LET k == IF x = End THEN 0 ELSE 1
         IN /\ k \in 0 .. Len(SaidOf(Append(calls, x))) - Len(SaidOf(calls))
            /\ SaidOf(Append(calls, x))
                 = SaidOf(calls) \o [i \in 1 .. k |-> "text"]
                                 \o [i \in 1 .. 1 - k |-> "end"]
<1> DEFINE n == Len(calls)
           c2 == Append(calls, x)
           said == SaidOf(calls)
           said2 == SaidOf(c2)
           W == {"end", "text"}
<1>1. n \in Nat /\ DOMAIN calls = 1 .. n
  BY LenProperties
<1>2. /\ DOMAIN c2 = 1 .. n + 1 /\ c2[n + 1] = x
      /\ \A i \in 1 .. n : c2[i] = calls[i]
  BY <1>1, AppendProperties, LenProperties
<1> HIDE DEF n, c2
<1>3. said \in Seq(W) /\ Len(said) = n
  BY <1>1, IsASeq DEF SaidOf
<1>4. said2 \in Seq(W) /\ Len(said2) = n + 1
  BY <1>1, <1>2, IsASeq DEF SaidOf
<1>5. said2[n + 1] = IF x = End THEN "end" ELSE "text"
  BY <1>1, <1>2 DEF SaidOf
<1>6. \A i \in 1 .. n : said2[i] = said[i]
  BY <1>1, <1>2 DEF SaidOf
<1> HIDE DEF said, said2
<1>7. said2 = Append(said, said2[n + 1])
  <2>1. said2[n + 1] \in W
    BY <1>5
  <2> DEFINE a == Append(said, said2[n + 1])
  <2>2. a \in Seq(W) /\ Len(a) = n + 1 /\ a[n + 1] = said2[n + 1]
        /\ \A i \in 1 .. n : a[i] = said[i]
    BY <1>3, <2>1, AppendProperties
  <2> HIDE DEF a
  <2>3. \A i \in 1 .. n + 1 : a[i] = said2[i]
    <3> TAKE i \in 1 .. n + 1
    <3>1. i \in 1 .. n \/ i = n + 1
      BY <1>1
    <3> QED
      BY <1>6, <2>2, <3>1
  <2>4. a = said2
    BY <1>4, <2>2, <2>3, SeqEqual
  <2> QED
    BY <2>4 DEF a
<1>8. /\ [i \in 1 .. 0 |-> "text"] = <<>> /\ [i \in 1 .. 0 |-> "end"] = <<>>
      /\ [i \in 1 .. 1 |-> "text"] = <<"text">> /\ [i \in 1 .. 1 |-> "end"] = <<"end">>
  OBVIOUS
<1>9. said \o <<>> = said /\ said \o <<"text">> \in Seq(W)
  BY <1>3, ConcatEmptySeq, ConcatProperties
<1>10. (said \o <<"text">>) \o <<>> = said \o <<"text">>
  BY <1>9, ConcatEmptySeq
<1>11. /\ said \o <<"text">> = Append(said, "text")
       /\ said \o <<"end">> = Append(said, "end")
  BY <1>3, AppendIsConcat
<1>12. CASE x = End
  <2>1. said2 = said \o <<>> \o <<"end">>
    BY <1>5, <1>7, <1>9, <1>11, <1>12
  <2>2. 0 \in 0 .. Len(said2) - Len(said) /\ 1 - 0 = 1
    BY <1>1, <1>3, <1>4
  <2> QED
    BY <1>8, <1>12, <2>1, <2>2 DEF said, said2, c2
<1>13. CASE x # End
  <2>1. said2 = said \o <<"text">> \o <<>>
    BY <1>5, <1>7, <1>10, <1>11, <1>13
  <2>2. 1 \in 0 .. Len(said2) - Len(said) /\ 1 - 1 = 0
    BY <1>1, <1>3, <1>4
  <2> QED
    BY <1>8, <1>13, <2>1, <2>2 DEF said, said2, c2
<1> QED
  BY <1>12, <1>13

\* Once the session has heard the end, feed finds no more texts.
QuietInv == stream \in Streams /\ (HasEnd(out) => messages = <<>>)

\* Every step keeps this, if the providers say nothing after the end.
LEMMA QuietStep ==
  ASSUME NoTextAfterEnd, IInv, QuietInv, [Next]_vars
  PROVE  QuietInv'
<1>1. stream' \in Streams
  BY DEF QuietInv, Next, vars, CurlInitFails, Perform, TransferSucceeds, Throw,
         WriteCallback, TakeEvent, FeedReturns, CallText, CallbackReturns
<1>2. /\ out \in Seq(Texts \cup {End}) /\ messages \in Seq(Texts)
      /\ End \notin Texts
  BY AdapterAssumption DEF IInv, TypeOK
<1>3. CASE CurlInitFails \/ Perform \/ TransferSucceeds \/ Throw
  <2>1. messages' = <<>>
    BY <1>3 DEF CurlInitFails, Perform, TransferSucceeds, Throw, IInv, PhaseInv
  <2> QED
    BY <1>1, <2>1 DEF QuietInv
<1>4. ASSUME NEW n \in 1 .. Len(stream), WriteCallback(n) PROVE QuietInv'
  BY <1>1, <1>4 DEF WriteCallback, QuietInv
<1>5. CASE TakeEvent
  <2> SUFFICES ASSUME HasEnd(out') PROVE messages' = <<>>
    BY <1>1 DEF QuietInv
  <2> DEFINE p == Min(Breaks(buffer))
             e == SubSeq(buffer, 1, p - 1)
             d == Decode(format, e)
  <2>1. HasEnd(out) /\ messages = <<>>
    BY <1>5 DEF TakeEvent, QuietInv
  <2>2. messages' = IF d \in {End, Nothing} THEN messages ELSE Append(messages, d)
    BY <1>5 DEF TakeEvent
  <2>3. PICK es \in Seq(Seq(Tokens)), m \in Nat : Known(es, m)
    BY DEF IInv
  <2>4. Between(stream, m, es, buffer) /\ HasEnd(Decoded(format, es))
    BY <1>5, <2>1, <2>3 DEF Known, NoCurl, TakeEvent
  <2>5. /\ stream \in Seq(Tokens) /\ buffer \in Seq(Tokens) /\ Breaks(buffer) # {}
        /\ format \in Formats /\ stream \in Streams
    BY <1>5 DEF IInv, TypeOK, TakeEvent, QuietInv
  <2>6. /\ p \in 1 .. Len(buffer) - 1 /\ e \in Seq(Tokens)
        /\ Between(stream, m + (p + 1), Append(es, e),
                   SubSeq(buffer, p + 2, Len(buffer)))
        /\ SubSeq(buffer, p + 2, Len(buffer)) \in Seq(Tokens)
    BY <2>4, <2>5, ReadEvent
  <2> HIDE DEF p, e
  <2> DEFINE ds == Decoded(format, es)
             n == m + (p + 1)
             ds2 == Decoded(format, Append(es, e))
  <2>7. ds \in Seq(Results) /\ d \in Results /\ ds2 = Append(ds, d)
    BY <2>6, DecodedAppend, DecodeType
  <2>8. n \in 0 .. Len(stream) /\ Reading(stream)[n].events = Append(es, e)
    <3> DEFINE left == Len(SubSeq(buffer, p + 2, Len(buffer)))
    <3>1. n \in Nat /\ left \in Nat /\ Len(stream) \in Nat
      BY <2>5, <2>6, LenProperties
    <3>2. /\ Reading(stream)[n] = Reader(Append(es, e), <<>>)
          /\ n + left <= Len(stream)
      BY <2>6 DEF Between
    <3> HIDE DEF n, left
    <3>3. n \in 0 .. Len(stream)
      BY <3>1, <3>2
    <3> QED
      BY <3>2, <3>3 DEF Reader
  <2> HIDE DEF n, d
  <2>9. \A i, j \in DOMAIN ds2 : ds2[i] = End /\ i < j => ds2[j] \in {End, Nothing}
    BY <2>5, <2>8 DEF NoTextAfterEnd
  <2> HIDE DEF ds2, ds
  <2>10. /\ Len(ds) \in Nat /\ DOMAIN ds = 1 .. Len(ds) /\ DOMAIN ds2 = 1 .. Len(ds) + 1
         /\ ds2[Len(ds) + 1] = d /\ \A i \in 1 .. Len(ds) : ds2[i] = ds[i]
    BY <2>7, AppendProperties, LenProperties
  <2>11. PICK i \in 1 .. Len(ds) : ds[i] = End
    BY <2>4, <2>10 DEF HasEnd, ds
  <2>12. /\ i \in DOMAIN ds2 /\ Len(ds) + 1 \in DOMAIN ds2 /\ i < Len(ds) + 1
         /\ ds2[i] = End
    BY <2>10, <2>11
  <2>13. d \in {End, Nothing}
    BY <2>9, <2>10, <2>12
  <2> QED
    BY <2>1, <2>2, <2>13 DEF d
<1>6. CASE FeedReturns \/ UNCHANGED vars
  BY <1>1, <1>6 DEF FeedReturns, vars, QuietInv
<1>7. CASE CallText
  <2>1. ~HasEnd(out) /\ Head(messages) \in Texts
    BY <1>2, <1>7, HeadTailProperties DEF CallText, QuietInv
  <2>2. ~HasEnd(Append(out, Head(messages)))
    BY <1>2, <2>1, HasEndAppend
  <2> QED
    BY <1>1, <1>7, <2>2 DEF CallText, QuietInv
<1>8. CASE CallbackReturns
  BY <1>1, <1>8 DEF CallbackReturns, QuietInv
<1> QED
  BY <1>3, <1>4, <1>5, <1>6, <1>7, <1>8 DEF Next

\* One more call is a report of StreamSource.
LEMMA CallReports ==
  ASSUME TypeOK, NEW x \in Texts \cup {End}, out' = Append(out, x),
         x = End \/ ~HasEnd(out),
         pc \notin {"returned", "threw"}, pc' \notin {"returned", "threw"}
  PROVE  Source!Report
<1> DEFINE k == IF x = End THEN 0 ELSE 1
<1>1. out \in Seq(Texts \cup {End})
  BY DEF TypeOK
<1>2. /\ k \in 0 .. Len(SaidOf(out')) - Len(SaidOf(out))
      /\ SaidOf(out') = SaidOf(out) \o [i \in 1 .. k |-> "text"]
                                    \o [i \in 1 .. 1 - k |-> "end"]
  BY <1>1, SaidAppend
<1>3. Source!Ended => HasEnd(out)
  BY DEF Source!Ended, HasEnd
<1>4. Source!Ended => k = 0
  BY <1>3
<1>5. 1 - k \in 0 .. 1
  OBVIOUS
<1> HIDE DEF k
<1> QED
  BY <1>2, <1>4, <1>5 DEF Source!Report, SaidOf

\* Every step is one of StreamSource, or none to it.
LEMMA StepRefines ==
  ASSUME IInv, QuietInv, [Next]_vars
  PROVE  [Source!Next]_<<SaidOf(out),
                         IF pc \in {"returned", "threw"} THEN pc ELSE "running">>
<1> USE DEF Source!Next
<1>1. CASE CurlInitFails
  <2>1. out = <<>> /\ out' = Append(out, End) /\ TypeOK
    BY <1>1 DEF CurlInitFails, IInv, PhaseInv
  <2>2. pc \notin {"returned", "threw"} /\ pc' \notin {"returned", "threw"}
    BY <1>1 DEF CurlInitFails
  <2> QED
    BY <2>1, <2>2, CallReports
<1>2. CASE Perform \/ FeedReturns \/ TakeEvent
  BY <1>2 DEF Perform, FeedReturns, TakeEvent
<1>3. ASSUME NEW n \in 1 .. Len(stream), WriteCallback(n)
      PROVE  UNCHANGED out /\ pc = "transfer" /\ pc' = "feed"
  BY <1>3 DEF WriteCallback
<1>4. CASE TransferSucceeds \/ Throw
  <2>1. Source!Stop
    BY <1>4 DEF TransferSucceeds, Throw, Source!Stop
  <2> QED
    BY <2>1
<1>5. CASE CallText
  <2>1. /\ Head(messages) \in Texts /\ ~HasEnd(out) /\ TypeOK
        /\ out' = Append(out, Head(messages)) /\ pc = "calls" /\ pc' = "calls"
    BY <1>5, HeadTailProperties DEF CallText, QuietInv, IInv, TypeOK
  <2> QED
    BY <2>1, CallReports
<1>6. CASE CallbackReturns
  <2>1. CASE done
    <3>1. TypeOK /\ out' = Append(out, End) /\ pc = "calls" /\ pc' = "transfer"
      BY <1>6, <2>1 DEF CallbackReturns, IInv
    <3> QED
      BY <3>1, CallReports
  <2>2. CASE ~done
    BY <1>6, <2>2 DEF CallbackReturns
  <2> QED
    BY <2>1, <2>2
<1>7. CASE UNCHANGED vars
  BY <1>7 DEF vars
<1> QED
  BY <1>1, <1>2, <1>3, <1>4, <1>5, <1>6, <1>7 DEF Next

\* Adapter.ImplementsStreamSource: the callback of the session is given texts, then
\* the end, then nothing after the return, for all responses without text after
\* the end (stream_write_callback, http_post_stream).
THEOREM Refinement == ASSUME NoTextAfterEnd PROVE Spec => ImplementsStreamSource
<1>1. Init => QuietInv
  BY EmptySeq DEF Init, QuietInv
<1>2. IInv /\ QuietInv /\ [Next]_vars => QuietInv'
  BY QuietStep
<1>3. Init => Source!Init
  <2> SUFFICES ASSUME Init PROVE Source!Init
    OBVIOUS
  <2>1. SaidOf(<<>>) = <<>>
    BY DEF SaidOf
  <2> QED
    BY <2>1 DEF Init, Source!Init, SaidOf
<1>4. IInv /\ QuietInv /\ [Next]_vars => [Source!Next]_Source!svars
  BY StepRefines DEF Source!svars, SaidOf
<1> QED
  BY <1>1, <1>2, <1>3, <1>4, Inductive, PTL
     DEF Spec, ImplementsStreamSource, Source!Spec
=============================================================================
