---------------------------- MODULE UndoStreamProofs ---------------------------
(***************************************************************************)
(* Contains and ReplaceAll (UndoStream) answer as for the whole file: for  *)
(* all files, patterns and replacements, however reads cut the file.       *)
(***************************************************************************)
EXTENDS UndoStream, SequenceTheorems, WellFoundedInduction, TLAPS

--------------------------------------------------------------------------------
(* The definition on whole files.                                           *)

\* Every set of natural numbers has a least one.
LEMMA Least ==
  ASSUME NEW T \in SUBSET Nat, T # {}
  PROVE  \E n \in T : \A m \in T : ~(m < n)
<1> DEFINE R == OpToRel(<, Nat)
<1>1. IsWellFoundedOn(R, Nat)
  BY NatLessThanWellFounded
<1>2. \A m, n \in Nat : <<m, n>> \in R <=> m < n
  BY DEF OpToRel
<1> HIDE DEF R
<1>3. \E n \in T : \A m \in T : ~(<<m, n>> \in R)
  BY <1>1, WFMin
<1> QED BY <1>2, <1>3

\* What becomes of s behind byte i, if f says it for the places further on.
Turn(f, p, w, s, i) ==
  IF i = Len(s) THEN [text |-> <<>>, count |-> 0]
  ELSE IF Occurs(p, s, i)
  THEN [text |-> w \o f[i + Len(p)].text, count |-> f[i + Len(p)].count + 1]
  ELSE [text |-> <<s[i + 1]>> \o f[i + 1].text, count |-> f[i + 1].count]

\* f is what becomes of the last n bytes of s.
Turned(f, p, w, s, n) == f = [i \in (Len(s) - n)..Len(s) |-> Turn(f, p, w, s, i)]

\* A turn looks only at the places further on.
LEMMA SameTurn ==
  ASSUME NEW f, NEW g, NEW p, NEW w, NEW s, Len(s) \in Nat, Len(p) \in Nat \ {0},
         NEW i \in 0..Len(s), \A k \in i + 1..Len(s) : f[k] = g[k]
  PROVE  Turn(f, p, w, s, i) = Turn(g, p, w, s, i)
<1>1. CASE i = Len(s)
  BY <1>1 DEF Turn
<1>2. CASE i # Len(s) /\ Occurs(p, s, i)
  <2>1. i + Len(p) \in i + 1..Len(s)
    BY <1>2 DEF Occurs
  <2> QED BY <1>2, <2>1 DEF Turn
<1>3. CASE i # Len(s) /\ ~Occurs(p, s, i)
  <2>1. i + 1 \in i + 1..Len(s)
    BY <1>3
  <2> QED BY <1>3, <2>1 DEF Turn
<1> QED BY <1>1, <1>2, <1>3

\* There is such a function for every number of bytes: no least number has none.
LEMMA ResultExists ==
  ASSUME NEW p, NEW w, NEW s, Len(s) \in Nat, Len(p) \in Nat \ {0}, NEW n \in 0..Len(s)
  PROVE  \E f : Turned(f, p, w, s, n)
<1> DEFINE T == {k \in 0..Len(s) : ~\E f : Turned(f, p, w, s, k)}
<1>1. SUFFICES ASSUME T # {} PROVE FALSE
  OBVIOUS
<1>2. PICK k \in T : \A m \in T : ~(m < k)
  <2>1. T \in SUBSET Nat
    OBVIOUS
  <2> HIDE DEF T
  <2> QED BY <1>1, <2>1, Least
<1>3. k \in 0..Len(s)
  OBVIOUS
<1>4. CASE k = 0
  <2> DEFINE f == [i \in Len(s)..Len(s) |-> [text |-> <<>>, count |-> 0]]
  <2>1. \A i \in Len(s)..Len(s) : Turn(f, p, w, s, i) = [text |-> <<>>, count |-> 0]
    BY DEF Turn
  <2>2. Len(s) - 0 = Len(s)
    OBVIOUS
  <2>3. f = [i \in Len(s)..Len(s) |-> Turn(f, p, w, s, i)]
    BY <2>1
  <2>4. Turned(f, p, w, s, 0)
    BY <2>2, <2>3 DEF Turned
  <2> QED BY <1>2, <1>4, <2>4
<1>5. CASE k # 0
  <2>1. k - 1 \in 0..Len(s) /\ k - 1 < k
    BY <1>3, <1>5
  <2>2. PICK f : Turned(f, p, w, s, k - 1)
    BY <1>2, <2>1
  <2> DEFINE a == Len(s) - k
             h == [i \in a..Len(s) |-> IF i = a THEN Turn(f, p, w, s, a) ELSE f[i]]
  <2>3. a \in 0..Len(s) /\ Len(s) - (k - 1) = a + 1 /\ a < Len(s)
    BY <1>3, <1>5
  <2>4. \A i \in a + 1..Len(s) : f[i] = Turn(f, p, w, s, i)
    BY <2>2, <2>3 DEF Turned
  <2>5. \A i \in a + 1..Len(s) : h[i] = f[i]
    BY <2>3
  <2> HIDE DEF a
  <2>6. ASSUME NEW i \in a..Len(s)
        PROVE  h[i] = Turn(h, p, w, s, i)
    <3>1. i \in 0..Len(s) /\ \A m \in i + 1..Len(s) : m \in a + 1..Len(s)
      BY <2>3
    <3>2. Turn(f, p, w, s, i) = Turn(h, p, w, s, i)
      <4>1. \A m \in i + 1..Len(s) : f[m] = h[m]
        BY <2>5, <3>1
      <4> HIDE DEF h
      <4> QED BY <3>1, <4>1, SameTurn
    <3>3. CASE i = a
      BY <2>3, <3>2, <3>3
    <3>4. CASE i # a
      <4>1. i \in a + 1..Len(s)
        BY <2>3, <3>4
      <4> QED BY <2>4, <2>5, <3>2, <4>1
    <3> QED BY <3>3, <3>4
  <2>7. h = [i \in a..Len(s) |-> h[i]]
    OBVIOUS
  <2> HIDE DEF h
  <2>8. Turned(h, p, w, s, k)
    BY <2>6, <2>7 DEF Turned, a
  <2> QED BY <1>2, <2>8
<1> QED BY <1>4, <1>5

\* Result meets its defining equation.
LEMMA ResultEquation ==
  ASSUME NEW p, NEW w, NEW s, Len(s) \in Nat, Len(p) \in Nat \ {0}, NEW i \in 0..Len(s)
  PROVE  Result(p, w, s)[i] = Turn(Result(p, w, s), p, w, s, i)
<1>1. Len(s) \in 0..Len(s) /\ Len(s) - Len(s) = 0
  OBVIOUS
<1>2. PICK f : Turned(f, p, w, s, Len(s))
  BY <1>1, ResultExists
<1>3. f = [k \in 0..Len(s) |-> Turn(f, p, w, s, k)]
  BY <1>1, <1>2 DEF Turned
<1>4. Result(p, w, s) = [k \in 0..Len(s) |-> Turn(Result(p, w, s), p, w, s, k)]
  BY <1>3, Zenon DEF Result, Turn
<1> QED BY <1>4

\* The parts of the result are a text and a number.
LEMMA ResultType ==
  ASSUME NEW S, NEW p \in Seq(S), p # <<>>, NEW w \in Seq(S), NEW s \in Seq(S), NEW i \in 0..Len(s)
  PROVE  Result(p, w, s)[i] \in [text : Seq(S), count : Nat]
<1> DEFINE f == Result(p, w, s)
           U == [text : Seq(S), count : Nat]
           T == {k \in 0..Len(s) : f[Len(s) - k] \notin U}
<1>1. SUFFICES ASSUME T # {} PROVE FALSE
  <2>1. Len(s) - i \in 0..Len(s) /\ Len(s) - (Len(s) - i) = i
    OBVIOUS
  <2> QED BY <1>1, <2>1
<1>2. PICK k \in T : \A m \in T : ~(m < k)
  <2>1. T \in SUBSET Nat
    OBVIOUS
  <2> HIDE DEF T
  <2> QED BY <1>1, <2>1, Least
<1>3. Len(s) \in Nat /\ Len(p) \in Nat \ {0} /\ k \in 0..Len(s)
  BY EmptySeq
<1> DEFINE a == Len(s) - k
<1>4. a \in 0..Len(s)
  BY <1>3
<1>5. ASSUME NEW b \in a + 1..Len(s)
      PROVE  f[b] \in U
  <2>1. Len(s) - b \in 0..Len(s) /\ Len(s) - b < k /\ Len(s) - (Len(s) - b) = b
    BY <1>3, <1>4
  <2> QED BY <1>2, <2>1
<1>10. f[a] \notin U
  OBVIOUS
<1> HIDE DEF f, U, a
<1>6. f[a] = Turn(f, p, w, s, a)
  BY <1>3, <1>4, ResultEquation DEF f
<1>7. CASE a = Len(s)
  BY <1>10, <1>6, <1>7, EmptySeq DEF Turn, U
<1>8. CASE a # Len(s) /\ Occurs(p, s, a)
  <2>1. a + Len(p) \in a + 1..Len(s)
    BY <1>3, <1>4, <1>8 DEF Occurs
  <2>2. f[a + Len(p)].text \in Seq(S) /\ f[a + Len(p)].count \in Nat
    BY <1>5, <2>1 DEF U
  <2>3. w \o f[a + Len(p)].text \in Seq(S)
    BY <2>2, ConcatProperties
  <2> QED BY <1>10, <1>6, <1>8, <2>2, <2>3 DEF Turn, U
<1>9. CASE a # Len(s) /\ ~Occurs(p, s, a)
  <2>1. a + 1 \in a + 1..Len(s) /\ a + 1 \in 1..Len(s)
    BY <1>3, <1>4, <1>9
  <2>2. f[a + 1].text \in Seq(S) /\ f[a + 1].count \in Nat
    BY <1>5, <2>1 DEF U
  <2>3. <<s[a + 1]>> \o f[a + 1].text \in Seq(S)
    BY <2>1, <2>2, ConcatProperties
  <2> QED BY <1>10, <1>6, <1>9, <2>2, <2>3 DEF Turn, U
<1> QED BY <1>7, <1>8, <1>9

\* Three texts, of any bytes.
Texts(S, x, y, z) == x \in Seq(S) /\ y \in Seq(S) /\ z \in Seq(S)

LEMMA Regroup ==
  ASSUME NEW S, NEW x, NEW y, NEW z, Texts(S, x, y, z)
  PROVE  (x \o y) \o z = x \o (y \o z)
BY ConcatAssociative DEF Texts

\* The pattern does not begin behind a byte from i to before j.
Clear(p, s, i, j) == \A k \in i..j - 1 : ~Occurs(p, s, k)

\* The bytes from i to j are copied.
Copied(p, w, s, i, j) ==
  /\ Result(p, w, s)[i].text = SubSeq(s, i + 1, j) \o Result(p, w, s)[j].text
  /\ Result(p, w, s)[i].count = Result(p, w, s)[j].count

\* Where the pattern does not begin, bytes are copied as they are.
LEMMA Unmatched ==
  ASSUME NEW S, NEW p, p # <<>>, NEW w, NEW s, Texts(S, p, w, s),
         NEW i \in 0..Len(s), NEW j \in i..Len(s), Clear(p, s, i, j)
  PROVE  Copied(p, w, s, i, j)
<1> DEFINE f == Result(p, w, s)
           T == {n \in 0..j - i : ~Copied(p, w, s, j - n, j)}
<1> HIDE DEF f
<1>1. SUFFICES ASSUME T # {} PROVE FALSE
  <2>1. j - i \in 0..j - i /\ j - (j - i) = i
    OBVIOUS
  <2>2. Copied(p, w, s, i, j)
    BY <1>1, <2>1
  <2> QED BY <2>2
<1>2. PICK n \in T : \A m \in T : ~(m < n)
  <2>1. T \in SUBSET Nat
    OBVIOUS
  <2> HIDE DEF T
  <2> QED BY <1>1, <2>1, Least
<1> DEFINE a == j - n
<1>3. Len(s) \in Nat /\ Len(p) \in Nat \ {0} /\ n \in 0..j - i /\ a \in i..j /\ a \in 0..Len(s)
      /\ j \in 0..Len(s) /\ p \in Seq(S) /\ w \in Seq(S) /\ s \in Seq(S)
  BY EmptySeq DEF Texts
<1>4. ~Copied(p, w, s, a, j)
  OBVIOUS
<1>5. f[j].text \in Seq(S) /\ f[j].count \in Nat
  BY <1>3, ResultType DEF f
<1>6. CASE a = j
  <2>1. SubSeq(s, j + 1, j) = <<>>
    BY <1>3, SubSeqEmpty
  <2> QED BY <1>4, <1>5, <1>6, <2>1, ConcatEmptySeq DEF Copied, f
<1>7. CASE a # j
  <2>1. n - 1 \in 0..j - i /\ n - 1 < n /\ j - (n - 1) = a + 1 /\ a < Len(s) /\ a \in i..j - 1
    BY <1>3, <1>7
  <2>2. Copied(p, w, s, a + 1, j)
    BY <1>2, <2>1
  <2> HIDE DEF a
  <2>3. f[a] = Turn(f, p, w, s, a)
    BY <1>3, ResultEquation DEF f
  <2>4. f[a].text = <<s[a + 1]>> \o f[a + 1].text /\ f[a].count = f[a + 1].count
    <3>1. ~Occurs(p, s, a) /\ a # Len(s)
      BY <1>3, <2>1 DEF Clear
    <3>2. f[a] = [text |-> <<s[a + 1]>> \o f[a + 1].text, count |-> f[a + 1].count]
      BY <2>3, <3>1, Zenon DEF Turn
    <3> QED BY <3>2
  <2>5. /\ a + 1 \in 1..Len(s) /\ j \in a + 1..Len(s) /\ a + 1 + 1 = a + 2
        /\ s[a + 1] \in S /\ \A k \in a + 2..j : s[k] \in S
    BY <1>3, <2>1
  <2>6. SubSeq(s, a + 1, j) = <<s[a + 1]>> \o SubSeq(s, a + 2, j)
    <3>1. s \in Seq(S)
      BY <1>3
    <3> QED BY <2>5, <3>1, SubSeqRecursiveFirst
  <2>7. <<s[a + 1]>> \in Seq(S) /\ SubSeq(s, a + 2, j) \in Seq(S)
    BY <2>5, SubSeqProperties
  <2>8. f[a + 1].text = SubSeq(s, a + 2, j) \o f[j].text /\ f[a + 1].count = f[j].count
    BY <2>2, <2>5 DEF Copied, f
  <2>9. f[a].text = SubSeq(s, a + 1, j) \o f[j].text
    <3> DEFINE x == <<s[a + 1]>>
               y == SubSeq(s, a + 2, j)
               z == f[j].text
    <3>1. x \in Seq(S) /\ y \in Seq(S) /\ z \in Seq(S)
      BY <1>5, <2>7
    <3> HIDE DEF x, y, z
    <3>2. (x \o y) \o z = x \o (y \o z)
      <4>1. Texts(S, x, y, z)
        BY <3>1 DEF Texts
      <4> QED BY <4>1, Regroup
    <3> QED BY <2>4, <2>6, <2>8, <3>2, Zenon DEF x, y, z
  <2> QED BY <1>4, <2>4, <2>8, <2>9 DEF Copied, f
<1> QED BY <1>6, <1>7

--------------------------------------------------------------------------------
(* Occurrences of a pattern, and beginnings of it that end a text.          *)

\* The part of a text from byte d + 1 to byte a.
LEMMA PartOf ==
  ASSUME NEW S, NEW s \in Seq(S), NEW a \in 0..Len(s), NEW d \in 0..a
  PROVE  /\ SubSeq(s, d + 1, a) \in Seq(S) /\ Len(SubSeq(s, d + 1, a)) = a - d
         /\ \A i \in 1..a - d : SubSeq(s, d + 1, a)[i] = s[d + i]
<1>1. \A i \in d + 1..a : s[i] \in S
  OBVIOUS
<1>2. /\ SubSeq(s, d + 1, a) \in Seq(S)
      /\ Len(SubSeq(s, d + 1, a)) = IF d + 1 <= a THEN a - (d + 1) + 1 ELSE 0
      /\ \A i \in 1..a - (d + 1) + 1 : SubSeq(s, d + 1, a)[i] = s[d + 1 + i - 1]
  BY <1>1, SubSeqProperties
<1> QED BY <1>2

\* The n bytes behind its byte a.
LEMMA NextPart ==
  ASSUME NEW S, NEW s \in Seq(S), NEW a \in 0..Len(s), NEW n \in Nat, a + n \in 0..Len(s)
  PROVE  /\ SubSeq(s, a + 1, a + n) \in Seq(S) /\ Len(SubSeq(s, a + 1, a + n)) = n
<1>1. \A b \in 0..Len(s) : a <= b => /\ SubSeq(s, a + 1, b) \in Seq(S)
                                    /\ Len(SubSeq(s, a + 1, b)) = b - a
  BY PartOf
<1> QED BY <1>1

\* Two parts of it side by side.
LEMMA Adjacent ==
  ASSUME NEW S, NEW s \in Seq(S), NEW b \in 0..Len(s), NEW a \in 0..b, NEW d \in 0..a
  PROVE  SubSeq(s, d + 1, a) \o SubSeq(s, a + 1, b) = SubSeq(s, d + 1, b)
<1>1. d + 1 \in 1..Len(s) + 1 /\ a \in d + 1 - 1..Len(s) /\ b \in a..Len(s)
  OBVIOUS
<1> QED BY <1>1, ConcatAdjacentSubSeq

\* A part of it that is cut behind its byte k.
LEMMA PartOfPart ==
  ASSUME NEW S, NEW s \in Seq(S), NEW a \in 0..Len(s), NEW d \in 0..a, NEW k \in 0..a - d,
         NEW t, t = SubSeq(s, d + 1, a)
  PROVE  /\ SubSeq(t, k + 1, Len(t)) = SubSeq(s, d + k + 1, a)
         /\ SubSeq(t, 1, k) = SubSeq(s, d + 1, d + k)
<1>1. t \in Seq(S) /\ Len(t) = a - d /\ \A i \in 1..a - d : t[i] = s[d + i]
  BY PartOf
<1>2. d + k \in 0..a /\ k \in 0..Len(t) /\ Len(t) \in 0..Len(t)
  BY <1>1
<1>3. SubSeq(t, k + 1, Len(t)) = SubSeq(s, d + k + 1, a)
  <2> DEFINE u == SubSeq(t, k + 1, Len(t))
             v == SubSeq(s, d + k + 1, a)
  <2>1. u \in Seq(S) /\ Len(u) = a - d - k /\ \A i \in 1..a - d - k : u[i] = t[k + i]
    BY <1>1, <1>2, PartOf
  <2>2. v \in Seq(S) /\ Len(v) = a - (d + k) /\ \A i \in 1..a - (d + k) : v[i] = s[d + k + i]
    BY <1>2, PartOf
  <2> HIDE DEF u, v
  <2>3. a - d - k = a - (d + k)
    OBVIOUS
  <2>4. ASSUME NEW i \in 1..Len(u)
        PROVE  u[i] = v[i]
    <3>1. i \in 1..a - d - k /\ k + i \in 1..a - d /\ d + (k + i) = d + k + i
      BY <2>1, <2>3
    <3>2. u[i] = s[d + (k + i)]
      BY <1>1, <2>1, <3>1
    <3> QED BY <2>2, <2>3, <3>1, <3>2
  <2>5. u = v
    BY <2>1, <2>2, <2>3, <2>4, SeqEqual
  <2> QED BY <2>5 DEF u, v
<1>4. SubSeq(t, 1, k) = SubSeq(s, d + 1, d + k)
  <2> DEFINE u == SubSeq(t, 0 + 1, k)
             v == SubSeq(s, d + 1, d + k)
  <2>1. u \in Seq(S) /\ Len(u) = k - 0 /\ \A i \in 1..k - 0 : u[i] = t[0 + i]
    BY <1>1, <1>2, PartOf
  <2>2. d + k \in 0..Len(s) /\ d \in 0..d + k /\ d + k - d = k /\ k - 0 = k
    OBVIOUS
  <2>3. v \in Seq(S) /\ Len(v) = d + k - d /\ \A i \in 1..d + k - d : v[i] = s[d + i]
    BY <2>2, PartOf
  <2> HIDE DEF u, v
  <2>4. ASSUME NEW i \in 1..Len(u)
        PROVE  u[i] = v[i]
    <3>1. i \in 1..k /\ i \in 1..a - d /\ 0 + i = i
      BY <2>1, <2>2
    <3>2. u[i] = s[d + i]
      BY <1>1, <2>1, <2>2, <3>1
    <3> QED BY <2>2, <2>3, <3>1, <3>2
  <2>5. u = v
    BY <2>1, <2>2, <2>3, <2>4, SeqEqual
  <2>6. 0 + 1 = 1
    OBVIOUS
  <2> QED BY <2>5, <2>6 DEF u, v
<1> QED BY <1>3, <1>4

\* An occurrence in a part of a text is one in the text, and the other way round.
LEMMA OccursInPart ==
  ASSUME NEW S, NEW p \in Seq(S), NEW s \in Seq(S), NEW a \in 0..Len(s), NEW d \in 0..a, NEW k \in Nat
  PROVE  Occurs(p, SubSeq(s, d + 1, a), k) <=> d + k + Len(p) <= a /\ Occurs(p, s, d + k)
<1> DEFINE t == SubSeq(s, d + 1, a)
<1>1. Len(t) = a - d /\ \A i \in 1..a - d : t[i] = s[d + i]
  BY PartOf
<1> HIDE DEF t
<1>2. Len(p) \in Nat
  OBVIOUS
<1>3. ASSUME NEW i \in 1..Len(p), d + k + Len(p) <= a
      PROVE  t[k + i] = s[d + k + i]
  <2>1. k + i \in 1..a - d /\ d + (k + i) = d + k + i
    BY <1>2, <1>3
  <2> QED BY <1>1, <2>1
<1>4. k + Len(p) <= a - d <=> d + k + Len(p) <= a
  BY <1>2
<1>5. d + k + Len(p) <= a => d + k + Len(p) <= Len(s)
  BY <1>2
<1> QED BY <1>1, <1>3, <1>4, <1>5 DEF Occurs, t

\* One byte more: a beginning ends it if the one before is continued.
LEMMA EndsNext ==
  ASSUME NEW p, NEW s, NEW n \in Nat, NEW k \in Nat \ {0}
  PROVE  Ends(p, s, n + 1, k) <=> Ends(p, s, n, k - 1) /\ s[n + 1] = p[k]
<1>1. k <= n + 1 <=> k - 1 <= n
  OBVIOUS
<1>2. n + 1 - k + k = n + 1 /\ n + 1 - k = n - (k - 1) /\ k \in 1..k
  OBVIOUS
<1>3. \A j \in 1..k : j \in 1..k - 1 \/ j = k
  OBVIOUS
<1>4. \A j \in 1..k - 1 : j \in 1..k
  OBVIOUS
<1> QED BY <1>1, <1>2, <1>3, <1>4 DEF Ends

\* Of two beginnings that end a text, the shorter ends the longer.
LEMMA EndsShorter ==
  ASSUME NEW p, NEW s, NEW n \in Nat, NEW m \in Nat, NEW k \in 0..m, Ends(p, s, n, m)
  PROVE  Ends(p, s, n, k) <=> Ends(p, p, m, k)
<1>1. m <= n /\ k <= n /\ k <= m
  BY DEF Ends
<1>2. ASSUME NEW j \in 1..k
      PROVE  p[m - k + j] = s[n - k + j]
  <2>1. m - k + j \in 1..m /\ n - m + (m - k + j) = n - k + j
    OBVIOUS
  <2> QED BY <2>1 DEF Ends
<1> QED BY <1>1, <1>2 DEF Ends

\* An occurrence is the whole pattern that ends a text.
LEMMA OccursEnds ==
  ASSUME NEW p, NEW s, Len(p) \in Nat, Len(s) \in Nat, NEW i \in Nat
  PROVE  Occurs(p, s, i) <=> i + Len(p) <= Len(s) /\ Ends(p, s, i + Len(p), Len(p))
<1>1. Len(p) <= i + Len(p) /\ i + Len(p) - Len(p) = i
  OBVIOUS
<1> QED BY <1>1 DEF Occurs, Ends

\* m is the longest beginning of p below the bound that ends the first n bytes of s and
\* may go on with the byte behind them.
Candidate(p, s, n, m, bound) ==
  /\ m < bound /\ Ends(p, s, n, m)
  /\ \A k \in m + 1..bound - 1 : Ends(p, s, n, k) => s[n + 1] # p[k + 1]

\* A candidate that does not go on gives way to the next shorter one.
LEMMA NextCandidate ==
  ASSUME NEW p, NEW s, NEW n \in Nat, NEW m \in Nat, NEW bound \in Nat, NEW q \in Nat,
         Candidate(p, s, n, m, bound), s[n + 1] # p[m + 1],
         q < m, Ends(p, p, m, q), \A k \in q + 1..m - 1 : ~Ends(p, p, m, k)
  PROVE  Candidate(p, s, n, q, bound)
<1>1. Ends(p, s, n, m) /\ m < bound
  BY DEF Candidate
<1>2. Ends(p, s, n, q)
  BY <1>1, EndsShorter
<1>3. ASSUME NEW k \in q + 1..bound - 1, Ends(p, s, n, k)
      PROVE  s[n + 1] # p[k + 1]
  <2>1. CASE k < m
    <3>1. k \in 0..m /\ k \in q + 1..m - 1
      BY <2>1
    <3> QED BY <1>1, <1>3, <3>1, EndsShorter
  <2>2. CASE k = m
    BY <2>2
  <2>3. CASE k > m
    <3>1. k \in m + 1..bound - 1
      BY <2>3
    <3> QED BY <1>3, <3>1 DEF Candidate
  <2> QED BY <2>1, <2>2, <2>3
<1> QED BY <1>1, <1>2, <1>3 DEF Candidate

\* One that goes on, or is empty, gives the longest beginning with one byte more.
LEMMA NextLongest ==
  ASSUME NEW p, NEW s, NEW n \in Nat, NEW m \in Nat, NEW bound \in Nat, NEW l,
         Candidate(p, s, n, m, bound), m > 0 => s[n + 1] = p[m + 1],
         l = IF s[n + 1] = p[m + 1] THEN m + 1 ELSE m
  PROVE  Ends(p, s, n + 1, l) /\ \A k \in l + 1..bound : ~Ends(p, s, n + 1, k)
<1>1. Ends(p, s, n, m) /\ m < bound
  BY DEF Candidate
<1>2. ASSUME NEW k \in m + 1..bound, Ends(p, s, n + 1, k)
      PROVE  k = m + 1 /\ s[n + 1] = p[m + 1]
  <2>1. k \in Nat \ {0} /\ k - 1 + 1 = k /\ (k = m + 1 \/ k - 1 \in m + 1..bound - 1)
    OBVIOUS
  <2>2. Ends(p, s, n, k - 1) /\ s[n + 1] = p[k]
    BY <1>2, <2>1, EndsNext
  <2> QED BY <2>1, <2>2 DEF Candidate
<1>3. CASE s[n + 1] = p[m + 1]
  <2>1. m + 1 \in Nat \ {0} /\ m + 1 - 1 = m
    OBVIOUS
  <2>2. Ends(p, s, n + 1, m + 1)
    BY <1>1, <1>3, <2>1, EndsNext
  <2>3. \A k \in m + 2..bound : k \in m + 1..bound /\ k # m + 1
    OBVIOUS
  <2>4. l = m + 1 /\ l + 1 = m + 2
    BY <1>3
  <2> QED BY <1>2, <2>2, <2>3, <2>4
<1>4. CASE s[n + 1] # p[m + 1]
  <2>1. l = 0 /\ m = 0
    BY <1>4
  <2>2. Ends(p, s, n + 1, 0)
    BY DEF Ends
  <2> QED BY <1>2, <1>4, <2>1, <2>2
<1> QED BY <1>3, <1>4

--------------------------------------------------------------------------------
(* The invariant.                                                           *)

\* The bytes dealt with.
Done == at - Len(data)

\* data are the bytes behind them, and each loop belongs to its job.
ShapeInv ==
  /\ Len(data) <= at /\ data = SubSeq(input, Done + 1, at)
  /\ err = "EOF" => at = Len(input)
  /\ pc \in {"table", "search", "found", "absent"} => job = "search"
  /\ pc \in {"replace", "replaced"} => job = "replace"
  /\ pc = "table" => at = 0
  /\ job = "search" /\ pc = "read" => data = <<>>
  /\ job = "search" /\ pc \in {"read", "search"} => Len(prefix) = Len(old)

\* The table is right as far as it is made.
TableInv == \A m \in 1..Len(prefix) : Longest(old, m, prefix[m], m)

\* While an entry of the table is looked for, and while a chunk is searched.
TableCandidateInv == pc = "table" => Candidate(old, old, Len(prefix), matched, Len(prefix))

SearchInv ==
  job = "search" /\ pc \in {"read", "search"} =>
    /\ IF Looking THEN Candidate(old, input, Done, matched, Len(old))
       ELSE Longest(input, Done, matched, Len(old))
    /\ \A i \in Occurrences(input) : i + Len(old) > Done

SeamInv ==
  job = "replace" /\ pc \in {"read", "replace"} =>
    /\ out \o Replaced(Done).text = Replaced(0).text
    /\ matches + Replaced(Done).count = Replaced(0).count

Inv == /\ TypeOK /\ ShapeInv /\ TableInv /\ TableCandidateInv /\ SearchInv /\ SeamInv
       /\ SameAsWhole /\ OnlyResultIsWritten

\* The kinds of the values of a call.
LEMMA Kinds ==
  ASSUME TypeOK
  PROVE  /\ input \in Seq(Bytes) /\ Len(input) \in Nat
         /\ old \in Seq(Bytes) /\ old # <<>> /\ Len(old) \in Nat \ {0}
         /\ new \in Seq(Bytes) /\ out \in Seq(Bytes)
         /\ data \in Seq(Bytes) /\ Len(data) \in Nat /\ at \in 0..Len(input)
<1>1. /\ input \in Seq(Bytes) /\ old \in Seq(Bytes) /\ old # <<>> /\ new \in Seq(Bytes)
      /\ out \in Seq(Bytes) /\ data \in Seq(Bytes) /\ at \in 0..Len(input)
  BY StreamAssumption DEF TypeOK
<1>2. Len(input) \in Nat /\ Len(old) \in Nat \ {0} /\ Len(data) \in Nat
  BY <1>1, EmptySeq, LenProperties
<1> QED BY <1>1, <1>2

\* Where the data stand in the file.
LEMMA Position ==
  ASSUME TypeOK, ShapeInv
  PROVE  /\ Done \in 0..at /\ Done \in 0..Len(input) /\ at - Done = Len(data)
         /\ \A i \in 1..Len(data) : data[i] = input[Done + i]
<1>1. Done \in 0..at /\ at \in 0..Len(input) /\ at - Done = Len(data)
  BY Kinds DEF ShapeInv, Done
<1>2. data = SubSeq(input, Done + 1, at)
  BY DEF ShapeInv
<1> HIDE DEF Done
<1>3. \A i \in 1..at - Done : SubSeq(input, Done + 1, at)[i] = input[Done + i]
  BY <1>1, Kinds, PartOf
<1> QED BY <1>1, <1>2, <1>3

--------------------------------------------------------------------------------
(* The steps.                                                               *)

\* A read (Contains and ReplaceAll).
LEMMA ReadStep == Inv /\ Read => Inv'
<1> SUFFICES ASSUME Inv, Read
             PROVE  Inv'
  OBVIOUS
<1>1. TypeOK /\ ShapeInv
  BY DEF Inv
<1>2. PICK n \in 0..BufferSize, e \in Errors :
        /\ at + n <= Len(input)
        /\ e = "EOF" => at + n = Len(input)
        /\ at' = at + n
        /\ data' = data \o SubSeq(input, at + 1, at + n)
        /\ err' = IF e = "nil" /\ n = 0 THEN "nothing" ELSE e
  BY DEF Read
<1>3. pc = "read" /\ pc' = job /\ UNCHANGED <<task, prefix, matched, out, matches>>
  BY DEF Read
<1>4. /\ at + n \in 0..Len(input) /\ at \in 0..at + n /\ at + n - at = n /\ n \in Nat
      /\ at' \in 0..Len(input)
  BY <1>1, <1>2, Kinds, StreamAssumption
<1>5. SubSeq(input, at + 1, at + n) \in Seq(Bytes) /\ Len(SubSeq(input, at + 1, at + n)) = n
  <2>1. input \in Seq(Bytes) /\ at \in 0..Len(input)
    BY <1>1, Kinds
  <2> QED BY <1>4, <2>1, NextPart
<1>6. data' \in Seq(Bytes) /\ Len(data') = Len(data) + n
  BY <1>1, <1>2, <1>5, Kinds, ConcatProperties
<1>7. Done' = Done
  BY <1>1, <1>2, <1>4, <1>6, Kinds DEF Done
<1>8. TypeOK'
  <2>1. Len(data) < Len(old) /\ Len(data') < BufferSize + Len(old)
    BY <1>1, <1>2, <1>3, <1>6, Kinds, StreamAssumption DEF TypeOK
  <2>2. err' \in Errors \cup {"nothing"}
    BY <1>2
  <2>3. pc' \in {"table", "read", "search", "replace"} \cup Outcomes /\ pc' # "read"
    BY <1>1, <1>3 DEF TypeOK
  <2>4. matched # Len(old)
    BY <1>1, <1>3 DEF TypeOK
  <2> QED BY <1>1, <1>3, <1>4, <1>6, <2>1, <2>2, <2>3, <2>4 DEF TypeOK, task
<1>9. ShapeInv'
  <2>1. data' = SubSeq(input, Done + 1, at + n)
    <3>1. data = SubSeq(input, Done + 1, at)
      BY <1>1 DEF ShapeInv
    <3>2. input \in Seq(Bytes) /\ Done \in 0..at
      BY <1>1, Kinds, Position
    <3>3. SubSeq(input, Done + 1, at) \o SubSeq(input, at + 1, at + n) = SubSeq(input, Done + 1, at + n)
      BY <1>4, <3>2, Adjacent
    <3> QED BY <1>2, <3>1, <3>3
  <2>2. Len(data') <= at'
    BY <1>1, <1>2, <1>6, <1>4, Kinds DEF ShapeInv
  <2>3. err' = "EOF" => at' = Len(input)
    BY <1>2 DEF Errors
  <2>4. job \in {"search", "replace"}
    BY <1>1 DEF TypeOK
  <2>5. job = "search" => Len(prefix) = Len(old)
    BY <1>1, <1>3 DEF ShapeInv
  <2> QED BY <1>2, <1>3, <1>7, <2>1, <2>2, <2>3, <2>4, <2>5 DEF ShapeInv, task
<1>10. TableInv' /\ TableCandidateInv' /\ SameAsWhole' /\ OnlyResultIsWritten'
  <2>1. pc' \in {"search", "replace"}
    BY <1>1, <1>3 DEF TypeOK
  <2>2. TableInv'
    BY <1>3 DEF Inv, TableInv, Longest, task
  <2>3. OnlyResultIsWritten'
    BY <1>3 DEF Inv, OnlyResultIsWritten, Replaced, task
  <2> QED BY <2>1, <2>2, <2>3 DEF TableCandidateInv, SameAsWhole
<1>11. SearchInv'
  <2> SUFFICES ASSUME job = "search"
               PROVE  /\ IF Looking' THEN Candidate(old, input, Done, matched, Len(old))
                         ELSE Longest(input, Done, matched, Len(old))
                      /\ \A i \in Occurrences(input) : i + Len(old) > Done
    BY <1>3, <1>7 DEF SearchInv, Longest, Occurrences, task
  <2>1. ~Looking
    BY <1>3 DEF Looking
  <2>2. Longest(input, Done, matched, Len(old)) /\ \A i \in Occurrences(input) : i + Len(old) > Done
    BY <1>3, <2>1 DEF Inv, SearchInv
  <2>3. Candidate(old, input, Done, matched, Len(old))
    BY <2>2 DEF Longest, Candidate
  <2> QED BY <2>2, <2>3
<1>12. SeamInv'
  BY <1>3, <1>7 DEF Inv, SeamInv, Replaced, task
<1> QED BY <1>8, <1>9, <1>10, <1>11, <1>12 DEF Inv

\* The next byte of the chunk is the next byte of the file.
LEMMA NextByte ==
  ASSUME TypeOK, ShapeInv, pc = "search", Looking
  PROVE  /\ Byte = input[Done + 1] /\ Done + 1 \in 0..at /\ Done + 1 \in 0..Len(input)
         /\ Tail(data) \in Seq(Bytes) /\ Len(Tail(data)) = Len(data) - 1
         /\ Tail(data) = SubSeq(input, Done + 2, at) /\ at - Len(Tail(data)) = Done + 1
<1>1. data \in Seq(Bytes) /\ data # <<>> /\ Len(data) \in Nat \ {0} /\ Byte = Head(data)
  BY Kinds, EmptySeq DEF Looking, Byte
<1>2. Head(data) = data[1]
  BY <1>1
<1>3. data[1] = input[Done + 1] /\ Done \in 0..at /\ at \in 0..Len(input) /\ at - Done = Len(data)
  BY <1>1, Position, Kinds
<1>4. Tail(data) \in Seq(Bytes) /\ Len(Tail(data)) = Len(data) - 1
  BY <1>1, HeadTailProperties
<1>5. Tail(data) = SubSeq(input, Done + 2, at)
  <2>1. Tail(data) = SubSeq(data, 2, Len(data))
    BY <1>1, TailIsSubSeq
  <2>2. 1 \in 0..at - Done /\ data = SubSeq(input, Done + 1, at) /\ input \in Seq(Bytes)
    BY <1>1, <1>3, Kinds DEF ShapeInv
  <2>3. SubSeq(data, 1 + 1, Len(data)) = SubSeq(input, Done + 1 + 1, at)
    BY <1>3, <2>2, PartOfPart
  <2>4. 1 + 1 = 2 /\ Done + 1 + 1 = Done + 2
    BY <1>3
  <2> QED BY <2>1, <2>3, <2>4
<1>6. Done + 1 \in 0..at /\ Done + 1 \in 0..Len(input) /\ at - Len(Tail(data)) = Done + 1
  BY <1>1, <1>3, <1>4
<1> QED BY <1>1, <1>2, <1>3, <1>4, <1>5, <1>6

\* The loops over mismatches (Contains).
LEMMA FallStep == Inv /\ Fall => Inv'
<1> SUFFICES ASSUME Inv, Fall
             PROVE  Inv'
  OBVIOUS
<1>1. TypeOK /\ ShapeInv /\ TableInv
  BY DEF Inv
<1>2. /\ UNCHANGED <<task, pc, prefix, at, data, err, out, matches>>
      /\ Looking /\ matched > 0 /\ Byte # old[matched + 1] /\ matched' = prefix[matched]
  BY DEF Fall, Mismatch, Shorter
<1>3. /\ Done' = Done /\ Looking' = Looking /\ old' = old /\ input' = input /\ prefix' = prefix
      /\ pc' = pc /\ job' = job /\ Occurrences(input)' = Occurrences(input)
  BY <1>2 DEF Done, Looking, Occurrences, task
<1>4. matched \in Nat /\ Len(prefix) \in Nat /\ Len(old) \in Nat /\ prefix \in Seq(0..(Len(old) - 1))
  BY <1>1, Kinds DEF TypeOK
<1>5. pc \in {"table", "search"}
  BY <1>2 DEF Looking
<1>6. matched \in 1..Len(prefix)
  <2>1. CASE pc = "table"
    BY <1>2, <1>4, <2>1 DEF Inv, TableCandidateInv, Candidate
  <2>2. CASE pc = "search"
    <3>1. matched < Len(old) /\ Len(prefix) = Len(old)
      BY <1>1, <1>2, <1>4, <2>2 DEF Inv, SearchInv, ShapeInv, Candidate
    <3> QED BY <1>2, <1>4, <3>1
  <2> QED BY <1>5, <2>1, <2>2
<1>7. matched' \in 0..(Len(old) - 1) /\ matched' < matched /\ Ends(old, old, matched, matched')
      /\ \A k \in matched' + 1..matched - 1 : ~Ends(old, old, matched, k)
  <2>1. Longest(old, matched, prefix[matched], matched)
    BY <1>1, <1>6 DEF TableInv
  <2>2. prefix[matched] \in 0..(Len(old) - 1)
    BY <1>4, <1>6
  <2> QED BY <1>2, <2>1, <2>2 DEF Longest
<1>8. matched' \in Nat /\ matched' # Len(old)
  BY <1>4, <1>7
<1>9. TypeOK'
  BY <1>1, <1>2, <1>7, <1>8, <1>4 DEF TypeOK, task
<1>10. ShapeInv' /\ TableInv' /\ SeamInv' /\ SameAsWhole' /\ OnlyResultIsWritten'
  <2>1. ShapeInv'
    BY <1>2, <1>3 DEF Inv, ShapeInv, task
  <2>2. TableInv'
    BY <1>2, <1>3 DEF Inv, TableInv, Longest
  <2>3. SeamInv' /\ OnlyResultIsWritten'
    BY <1>2, <1>3 DEF Inv, SeamInv, OnlyResultIsWritten, Replaced, task
  <2>4. SameAsWhole'
    BY <1>3, <1>5 DEF SameAsWhole
  <2> QED BY <2>1, <2>2, <2>3, <2>4
<1>11. TableCandidateInv'
  <2> SUFFICES ASSUME pc = "table"
               PROVE  Candidate(old, old, Len(prefix), matched', Len(prefix))
    BY <1>3 DEF TableCandidateInv
  <2>1. Candidate(old, old, Len(prefix), matched, Len(prefix)) /\ old[Len(prefix) + 1] # old[matched + 1]
    BY <1>2 DEF Inv, TableCandidateInv, Byte
  <2> QED BY <1>4, <1>7, <1>8, <2>1, NextCandidate
<1>12. SearchInv'
  <2> SUFFICES ASSUME job = "search", pc = "search"
               PROVE  /\ Candidate(old, input, Done, matched', Len(old))
                      /\ \A i \in Occurrences(input) : i + Len(old) > Done
    BY <1>2, <1>3, <1>5 DEF SearchInv
  <2>1. /\ Candidate(old, input, Done, matched, Len(old))
        /\ \A i \in Occurrences(input) : i + Len(old) > Done
    BY <1>2 DEF Inv, SearchInv
  <2>2. input[Done + 1] # old[matched + 1] /\ Done \in Nat
    BY <1>1, <1>2, NextByte, Position
  <2> QED BY <1>4, <1>7, <1>8, <2>1, <2>2, NextCandidate
<1> QED BY <1>9, <1>10, <1>11, <1>12 DEF Inv

\* The table gets its next entry (Contains).
LEMMA ExtendStep == Inv /\ Extend => Inv'
<1> SUFFICES ASSUME Inv, Extend
             PROVE  Inv'
  OBVIOUS
<1> DEFINE i == Len(prefix)
<1>1. TypeOK /\ ShapeInv /\ TableInv /\ TableCandidateInv
  BY DEF Inv
<1>2. /\ UNCHANGED <<task, pc, at, data, err, out, matches>>
      /\ pc = "table" /\ i < Len(old) /\ Byte = old[i + 1]
      /\ matched > 0 => Byte = old[matched + 1]
      /\ matched' = Longer /\ prefix' = Append(prefix, Longer)
  BY DEF Extend, Looking, Mismatch, Byte
<1>3. old' = old /\ input' = input /\ pc' = pc /\ job' = job /\ Done' = Done
  BY <1>2 DEF task, Done
<1>4. matched \in Nat /\ i \in Nat /\ Len(old) \in Nat /\ prefix \in Seq(0..(Len(old) - 1))
  BY <1>1, Kinds DEF TypeOK
<1>5. Candidate(old, old, i, matched, i) /\ matched < i
  BY <1>1, <1>2 DEF TableCandidateInv, Candidate
<1>6. Longer = IF old[i + 1] = old[matched + 1] THEN matched + 1 ELSE matched
  BY <1>2 DEF Longer
<1>7. Ends(old, old, i + 1, Longer) /\ \A k \in Longer + 1..i : ~Ends(old, old, i + 1, k)
  BY <1>2, <1>4, <1>5, <1>6, NextLongest
<1>8. Longer \in 0..(Len(old) - 1) /\ Longer < i + 1 /\ Longer # Len(old)
  BY <1>2, <1>4, <1>5, <1>6
<1> HIDE DEF i
<1>9. /\ prefix' \in Seq(0..(Len(old) - 1)) /\ Len(prefix') = i + 1 /\ prefix'[i + 1] = Longer
      /\ \A m \in 1..i : prefix'[m] = prefix[m]
  BY <1>2, <1>4, <1>8, AppendProperties DEF i
<1>10. TypeOK'
  BY <1>1, <1>2, <1>3, <1>4, <1>8, <1>9 DEF TypeOK, task
<1>11. Longest(old, i + 1, Longer, i + 1)
  BY <1>4, <1>7, <1>8 DEF Longest
<1>12. TableInv'
  <2>1. ASSUME NEW m \in 1..i + 1
        PROVE  Longest(old, m, prefix'[m], m)
    <3>1. CASE m = i + 1
      BY <1>9, <1>11, <3>1
    <3>2. CASE m # i + 1
      <4>1. m \in 1..i
        BY <1>4, <3>2
      <4> QED BY <1>1, <1>9, <4>1 DEF TableInv, i
    <3> QED BY <3>1, <3>2
  <2> QED BY <1>3, <1>9, <2>1 DEF TableInv, Longest
<1>13. TableCandidateInv'
  <2>1. Candidate(old, old, i + 1, Longer, i + 1)
    BY <1>4, <1>11 DEF Longest, Candidate
  <2> QED BY <1>2, <1>3, <1>9, <2>1 DEF TableCandidateInv
<1>14. ShapeInv' /\ SearchInv' /\ SeamInv' /\ SameAsWhole' /\ OnlyResultIsWritten'
  <2>1. ShapeInv'
    BY <1>1, <1>2, <1>3 DEF ShapeInv
  <2>2. SearchInv' /\ SeamInv' /\ SameAsWhole'
    BY <1>2, <1>3 DEF SearchInv, SeamInv, SameAsWhole
  <2>3. OnlyResultIsWritten'
    BY <1>2 DEF Inv, OnlyResultIsWritten, Replaced, task
  <2> QED BY <2>1, <2>2, <2>3
<1> QED BY <1>10, <1>12, <1>13, <1>14 DEF Inv

\* The search begins (Contains).
LEMMA TableDoneStep == Inv /\ TableDone => Inv'
<1> SUFFICES ASSUME Inv, TableDone
             PROVE  Inv'
  OBVIOUS
<1>1. TypeOK /\ ShapeInv
  BY DEF Inv
<1>2. /\ UNCHANGED <<task, prefix, at, data, err, out, matches>>
      /\ pc = "table" /\ Len(prefix) >= Len(old) /\ pc' = "read" /\ matched' = 0
  BY <1>1, Kinds DEF TableDone, Looking, TypeOK
<1>3. old' = old /\ input' = input /\ job' = job /\ Done' = Done
  BY <1>2 DEF task, Done
<1>4. at = 0 /\ Len(data) = 0 /\ Len(prefix) = Len(old) /\ job = "search" /\ data = <<>>
  BY <1>1, <1>2, Kinds DEF ShapeInv, TypeOK
<1>5. Done = 0
  BY <1>4 DEF Done
<1>6. TypeOK'
  BY <1>1, <1>2, <1>4, Kinds DEF TypeOK, task
<1>7. ShapeInv'
  BY <1>1, <1>2, <1>3, <1>4 DEF ShapeInv
<1>8. SearchInv'
  <2>1. Longest(input, 0, 0, Len(old))
    BY <1>1, Kinds DEF Longest, Ends
  <2>2. \A n \in Occurrences(input) : n + Len(old) > 0
    BY <1>1, Kinds DEF Occurrences
  <2>3. ~Looking'
    BY <1>2 DEF Looking
  <2> QED BY <1>2, <1>3, <1>5, <2>1, <2>2, <2>3 DEF SearchInv, Longest, Occurrences
<1>9. TableInv' /\ TableCandidateInv' /\ SeamInv' /\ SameAsWhole' /\ OnlyResultIsWritten'
  <2>1. TableInv'
    BY <1>2, <1>3 DEF Inv, TableInv, Longest
  <2>2. OnlyResultIsWritten'
    BY <1>2 DEF Inv, OnlyResultIsWritten, Replaced, task
  <2> QED BY <1>2, <1>3, <1>4, <2>1, <2>2 DEF TableCandidateInv, SeamInv, SameAsWhole
<1> QED BY <1>6, <1>7, <1>8, <1>9 DEF Inv

\* One byte of a chunk (Contains).
LEMMA AdvanceStep == Inv /\ Advance => Inv'
<1> SUFFICES ASSUME Inv, Advance
             PROVE  Inv'
  OBVIOUS
<1>1. TypeOK /\ ShapeInv
  BY DEF Inv
<1>2. /\ UNCHANGED <<task, prefix, at, err, out, matches>>
      /\ pc = "search" /\ Looking
      /\ matched > 0 => Byte = old[matched + 1]
      /\ matched' = Longer /\ data' = Tail(data)
      /\ pc' = IF Longer = Len(old) THEN "found" ELSE pc
  BY DEF Advance, Mismatch
<1>3. old' = old /\ input' = input /\ job' = job /\ job = "search" /\ at' = at
  BY <1>1, <1>2 DEF task, ShapeInv
<1>4. /\ matched \in Nat /\ Done \in Nat /\ Len(old) \in Nat /\ Len(input) \in Nat
      /\ Len(data) \in Nat
  BY <1>1, Kinds, Position DEF TypeOK
<1>5. /\ Byte = input[Done + 1] /\ Done + 1 \in 0..at /\ Done + 1 \in 0..Len(input)
      /\ Tail(data) \in Seq(Bytes) /\ Len(Tail(data)) = Len(data) - 1
      /\ Tail(data) = SubSeq(input, Done + 2, at) /\ at - Len(Tail(data)) = Done + 1
  BY <1>1, <1>2, NextByte
<1>6. Candidate(old, input, Done, matched, Len(old)) /\ matched < Len(old)
  BY <1>2, <1>3 DEF Inv, SearchInv, Candidate
<1>7. Longer = IF input[Done + 1] = old[matched + 1] THEN matched + 1 ELSE matched
  BY <1>5 DEF Longer
<1>8. /\ Ends(old, input, Done + 1, Longer)
      /\ \A k \in Longer + 1..Len(old) : ~Ends(old, input, Done + 1, k)
  BY <1>2, <1>4, <1>5, <1>6, <1>7, NextLongest
<1>9. Longer \in 0..Len(old)
  BY <1>4, <1>6, <1>7
<1>10. Done' = Done + 1
  BY <1>2, <1>3, <1>5 DEF Done
<1>11. TypeOK'
  <2>1. Len(data') < BufferSize + Len(old)
    BY <1>1, <1>2, <1>4, <1>5, StreamAssumption DEF TypeOK
  <2>2. pc' \in {"search", "found"} /\ (matched' = Len(old) => pc' = "found")
    BY <1>2
  <2> QED BY <1>1, <1>2, <1>3, <1>5, <1>9, <2>1, <2>2 DEF TypeOK, task, Outcomes
<1>12. ShapeInv'
  <2>1. Len(data') <= at
    BY <1>1, <1>2, <1>4, <1>5, Kinds
  <2>2. data' = SubSeq(input, Done + 1 + 1, at)
    <3>1. Done + 1 + 1 = Done + 2
      BY <1>4
    <3> QED BY <1>2, <1>5, <3>1
  <2> QED BY <1>1, <1>2, <1>3, <1>10, <2>1, <2>2 DEF ShapeInv
<1>13. SearchInv'
  <2> SUFFICES ASSUME Longer # Len(old)
               PROVE  /\ Longest(input, Done + 1, Longer, Len(old))
                      /\ Candidate(old, input, Done + 1, Longer, Len(old))
                      /\ \A n \in Occurrences(input) : n + Len(old) > Done + 1
    BY <1>2, <1>3, <1>10 DEF SearchInv, Longest, Occurrences
  <2>1. Longest(input, Done + 1, Longer, Len(old))
    BY <1>4, <1>8, <1>9 DEF Longest
  <2>2. Candidate(old, input, Done + 1, Longer, Len(old))
    BY <2>1 DEF Longest, Candidate
  <2>3. ASSUME NEW n \in Occurrences(input)
        PROVE  n + Len(old) > Done + 1
    <3>1. n + Len(old) > Done /\ n \in Nat /\ Occurs(old, input, n)
      BY <1>2, <1>3 DEF Inv, SearchInv, Occurrences
    <3>2. Ends(old, input, n + Len(old), Len(old))
      BY <1>4, <3>1, OccursEnds
    <3>3. Len(old) \in Longer + 1..Len(old)
      BY <1>4, <1>9
    <3>4. n + Len(old) # Done + 1
      BY <1>8, <3>2, <3>3
    <3> QED BY <1>4, <3>1, <3>4
  <2> QED BY <2>1, <2>2, <2>3
<1>14. SameAsWhole'
  <2> SUFFICES ASSUME Longer = Len(old)
               PROVE  Occurrences(input) # {}
    BY <1>2, <1>3 DEF SameAsWhole, Occurrences
  <2>1. Ends(old, input, Done + 1, Len(old))
    BY <1>8
  <2> DEFINE n == Done + 1 - Len(old)
  <2>2. n \in Nat /\ n + Len(old) = Done + 1
    BY <1>4, <2>1 DEF Ends
  <2>3. Occurs(old, input, n)
    <3> HIDE DEF n
    <3> QED BY <1>4, <1>5, <2>1, <2>2, OccursEnds
  <2>4. n \in 0..Len(input)
    BY <1>4, <1>5, <2>2
  <2> QED BY <2>3, <2>4 DEF Occurrences
<1>15. TableInv' /\ TableCandidateInv' /\ SeamInv' /\ OnlyResultIsWritten'
  <2>1. TableInv'
    BY <1>2, <1>3 DEF Inv, TableInv, Longest
  <2>2. OnlyResultIsWritten'
    BY <1>2 DEF Inv, OnlyResultIsWritten, Replaced, task
  <2> QED BY <1>2, <1>3, <2>1, <2>2 DEF TableCandidateInv, SeamInv
<1> QED BY <1>11, <1>12, <1>13, <1>14, <1>15 DEF Inv

\* The end of a chunk (Contains).
LEMMA ChunkSearchedStep == Inv /\ ChunkSearched => Inv'
<1> SUFFICES ASSUME Inv, ChunkSearched
             PROVE  Inv'
  OBVIOUS
<1>1. TypeOK /\ ShapeInv
  BY DEF Inv
<1>2. /\ UNCHANGED <<task, prefix, matched, at, data, err, out, matches>>
      /\ pc = "search" /\ ~Looking /\ data = <<>>
      /\ pc' \in {"read", "absent", "failed"} /\ (pc' = "absent" => err = "EOF")
  BY DEF ChunkSearched, Looking
<1>3. old' = old /\ input' = input /\ job' = job /\ Done' = Done /\ job = "search" /\ prefix' = prefix
  BY <1>1, <1>2 DEF task, Done, ShapeInv
<1>4. /\ Longest(input, Done, matched, Len(old))
      /\ \A i \in Occurrences(input) : i + Len(old) > Done
  BY <1>2, <1>3 DEF Inv, SearchInv
<1>5. TypeOK'
  <2>1. Len(data) < Len(old) /\ matched # Len(old)
    BY <1>1, <1>2, Kinds DEF TypeOK
  <2> QED BY <1>1, <1>2, <2>1 DEF TypeOK, task, Outcomes
<1>6. ShapeInv'
  BY <1>1, <1>2, <1>3 DEF ShapeInv
<1>7. SearchInv'
  <2>1. pc' = "read" => ~Looking'
    BY DEF Looking
  <2> QED BY <1>2, <1>3, <1>4, <2>1 DEF SearchInv, Longest, Occurrences
<1>8. SameAsWhole'
  <2> SUFFICES ASSUME err = "EOF", NEW i \in Occurrences(input)
               PROVE  FALSE
    BY <1>2, <1>3 DEF SameAsWhole, Occurrences
  <2>1. Done = Len(input) /\ Len(input) \in Nat /\ Len(old) \in Nat
    BY <1>1, <1>2, Kinds DEF ShapeInv, Done
  <2>2. i \in Nat /\ i + Len(old) <= Len(input)
    BY DEF Occurrences, Occurs
  <2> QED BY <1>4, <2>1, <2>2
<1>9. TableInv' /\ TableCandidateInv' /\ SeamInv' /\ OnlyResultIsWritten'
  <2>1. TableInv'
    BY <1>2, <1>3 DEF Inv, TableInv, Longest
  <2>2. OnlyResultIsWritten'
    BY <1>2 DEF Inv, OnlyResultIsWritten, Replaced, task
  <2> QED BY <1>2, <1>3, <2>1, <2>2 DEF TableCandidateInv, SeamInv
<1> QED BY <1>5, <1>6, <1>7, <1>8, <1>9 DEF Inv

--------------------------------------------------------------------------------
(* What ReplaceAll writes.                                                  *)

\* Index gives the first occurrence in the data.
LEMMA FirstOccurrence ==
  ASSUME TypeOK, Occurrences(data) # {}
  PROVE  /\ Index(data) \in Nat /\ Index(data) + Len(old) <= Len(data)
         /\ Occurs(old, data, Index(data))
         /\ \A j \in 0..Index(data) - 1 : ~Occurs(old, data, j)
<1>1. Len(data) \in Nat /\ Len(old) \in Nat \ {0}
  BY Kinds
<1> DEFINE T == Occurrences(data)
<1>2. T \in SUBSET Nat /\ T # {}
  BY DEF Occurrences
<1>3. PICK n \in T : \A m \in T : ~(m < n)
  <2> HIDE DEF T
  <2> QED BY <1>2, Least
<1>4. \A m \in T : n <= m
  BY <1>2, <1>3
<1>5. Index(data) \in T /\ \A m \in T : Index(data) <= m
  BY <1>4 DEF Index
<1> DEFINE i == Index(data)
<1> HIDE DEF i
<1>6. i \in 0..Len(data) /\ Occurs(old, data, i) /\ \A m \in T : i <= m
  BY <1>5 DEF Occurrences, i
<1>7. i + Len(old) <= Len(data)
  BY <1>6 DEF Occurs
<1>8. ASSUME NEW j \in 0..i - 1, Occurs(old, data, j)
      PROVE  FALSE
  <2>1. j \in T
    BY <1>1, <1>6, <1>8 DEF Occurrences
  <2> QED BY <1>6, <2>1
<1> QED BY <1>6, <1>7, <1>8 DEF i

\* Replaced has a text and a count for each place of the file.
LEMMA ReplacedType ==
  ASSUME TypeOK, NEW n \in 0..Len(input)
  PROVE  Replaced(n).text \in Seq(Bytes) /\ Replaced(n).count \in Nat
<1>1. Result(old, new, input)[n] \in [text : Seq(Bytes), count : Nat]
  BY Kinds, ResultType
<1> QED BY <1>1 DEF Replaced

\* Bytes of the file at which no match begins are copied.
LEMMA CopyingFile ==
  ASSUME TypeOK, NEW i \in 0..Len(input), NEW j \in i..Len(input), Clear(old, input, i, j)
  PROVE  /\ Replaced(i).text = SubSeq(input, i + 1, j) \o Replaced(j).text
         /\ Replaced(i).count = Replaced(j).count
<1>1. Texts(Bytes, old, new, input) /\ old # <<>>
  BY Kinds DEF Texts
<1>2. Copied(old, new, input, i, j)
  BY <1>1, Unmatched
<1> QED BY <1>2, Zenon DEF Copied, Replaced

\* Data in which no match begins are copied, as far as a match that begins in them would
\* end in them, or to the end of the file.
LEMMA Copying ==
  ASSUME TypeOK, ShapeInv, NEW n \in 0..Len(data),
         \A j \in 0..n - 1 : ~Occurs(old, data, j),
         n = 0 \/ n + Len(old) - 1 <= Len(data) \/ at = Len(input)
  PROVE  /\ Replaced(Done).text = SubSeq(data, 1, n) \o Replaced(Done + n).text
         /\ Replaced(Done).count = Replaced(Done + n).count
         /\ Done + n \in 0..at /\ Done + n \in 0..Len(input) /\ SubSeq(data, 1, n) \in Seq(Bytes)
         /\ Len(SubSeq(data, 1, n)) = n
         /\ SubSeq(data, n + 1, Len(data)) = SubSeq(input, Done + n + 1, at)
<1>1. /\ input \in Seq(Bytes) /\ old \in Seq(Bytes) /\ old # <<>> /\ new \in Seq(Bytes)
      /\ Len(old) \in Nat \ {0} /\ data \in Seq(Bytes) /\ Len(input) \in Nat /\ Len(data) \in Nat
  BY Kinds
<1>2. Done \in 0..at /\ at \in 0..Len(input) /\ at - Done = Len(data) /\ Done \in 0..Len(input)
  BY Kinds, Position
<1>3. data = SubSeq(input, Done + 1, at)
  BY DEF ShapeInv
<1>4. n \in 0..at - Done /\ Done + n \in 0..at /\ Done + n \in Done..Len(input)
  BY <1>1, <1>2
<1>5. ASSUME NEW k \in Done..(Done + n) - 1
      PROVE  ~Occurs(old, input, k)
  <2> SUFFICES ASSUME Occurs(old, input, k)
               PROVE  FALSE
    OBVIOUS
  <2> DEFINE j == k - Done
  <2>1. j \in 0..n - 1 /\ j \in Nat /\ Done + j = k
    BY <1>2
  <2>2. k + Len(old) <= Len(input)
    BY DEF Occurs
  <2>3. k + Len(old) <= at
    BY <1>1, <1>2, <2>2
  <2> HIDE DEF j
  <2>4. Occurs(old, SubSeq(input, Done + 1, at), j)
    BY <1>1, <1>2, <2>1, <2>3, OccursInPart
  <2> QED BY <1>3, <2>1, <2>4
<1>6. /\ Replaced(Done).text = SubSeq(input, Done + 1, Done + n) \o Replaced(Done + n).text
      /\ Replaced(Done).count = Replaced(Done + n).count
  <2> DEFINE e == Done + n
  <2>1. e \in Done..Len(input)
    BY <1>4
  <2>2. \A k \in Done..e - 1 : ~Occurs(old, input, k)
    BY <1>5
  <2> HIDE DEF e
  <2>3. Done \in 0..Len(input) /\ Clear(old, input, Done, e)
    BY <1>2, <2>2 DEF Clear
  <2>4. /\ Replaced(Done).text = SubSeq(input, Done + 1, e) \o Replaced(e).text
        /\ Replaced(Done).count = Replaced(e).count
    BY <2>1, <2>3, CopyingFile
  <2> QED BY <2>4 DEF e
<1>7. /\ SubSeq(data, n + 1, Len(data)) = SubSeq(input, Done + n + 1, at)
      /\ SubSeq(data, 1, n) = SubSeq(input, Done + 1, Done + n)
  BY <1>1, <1>2, <1>3, <1>4, PartOfPart
<1>8. SubSeq(data, 0 + 1, n) \in Seq(Bytes) /\ Len(SubSeq(data, 0 + 1, n)) = n - 0
  BY <1>1, PartOf
<1>9. 0 + 1 = 1 /\ n - 0 = n /\ Done + n \in 0..Len(input)
  BY <1>2, <1>4
<1> QED BY <1>4, <1>6, <1>7, <1>8, <1>9

\* What a turn of the inner loop writes is what becomes of the data up to the end of
\* the match.
LEMMA Replacing ==
  ASSUME TypeOK, ShapeInv, Matching
  PROVE  /\ Replaced(Done).text = Part \o Replaced(Done + Behind(Index(data))).text
         /\ Replaced(Done).count = Replaced(Done + Behind(Index(data))).count + 1
         /\ Part \in Seq(Bytes) /\ Behind(Index(data)) \in 1..Len(data)
         /\ Done + Behind(Index(data)) \in 0..at /\ Done + Behind(Index(data)) \in 0..Len(input)
<1> DEFINE i == Index(data)
           d == Done + i
           e == Done + (i + Len(old))
<1>1. /\ i \in Nat /\ i + Len(old) <= Len(data) /\ Occurs(old, data, i)
      /\ \A j \in 0..i - 1 : ~Occurs(old, data, j)
  BY FirstOccurrence DEF Matching
<1>2. /\ Len(old) \in Nat \ {0} /\ Len(data) \in Nat /\ Len(input) \in Nat
      /\ input \in Seq(Bytes) /\ old \in Seq(Bytes) /\ new \in Seq(Bytes) /\ at \in 0..Len(input)
  BY Kinds
<1>3. i \in 0..Len(data) /\ i + Len(old) - 1 <= Len(data)
  BY <1>1, <1>2
<1>4. Done \in 0..at /\ at - Done = Len(data) /\ data = SubSeq(input, Done + 1, at)
  BY Position DEF ShapeInv
<1> HIDE DEF i
<1>5. /\ Replaced(Done).text = SubSeq(data, 1, i) \o Replaced(d).text
      /\ Replaced(Done).count = Replaced(d).count
      /\ d \in 0..Len(input) /\ SubSeq(data, 1, i) \in Seq(Bytes)
  BY <1>1, <1>3, Copying
<1>6. Occurs(old, input, d) /\ d + Len(old) <= at
  BY <1>1, <1>2, <1>4, OccursInPart
<1>7. e = d + Len(old) /\ d # Len(input) /\ e \in 0..at /\ e \in 0..Len(input)
  BY <1>1, <1>2, <1>4, <1>6
<1> HIDE DEF d, e
<1>8. Replaced(d) = [text |-> new \o Replaced(e).text, count |-> Replaced(e).count + 1]
  <2>1. Replaced(d) = Turn(Result(old, new, input), old, new, input, d)
    BY <1>2, <1>5, ResultEquation DEF Replaced
  <2> QED BY <1>6, <1>7, <2>1, Zenon DEF Turn, Replaced
<1>9. Replaced(e).text \in Seq(Bytes)
  BY <1>7, ReplacedType
<1>10. Replaced(Done).text = (SubSeq(data, 1, i) \o new) \o Replaced(e).text
  <2> DEFINE x == SubSeq(data, 1, i)
             z == Replaced(e).text
  <2>1. x \in Seq(Bytes) /\ z \in Seq(Bytes)
    BY <1>5, <1>9
  <2>3. Replaced(Done).text = x \o (new \o z)
    <3>1. Replaced(d).text = new \o z
      BY <1>8
    <3> HIDE DEF z
    <3> QED BY <1>5, <3>1
  <2> DEFINE y == new
  <2>4. y \in Seq(Bytes)
    BY <1>2
  <2> HIDE DEF x, y, z
  <2>2. (x \o y) \o z = x \o (y \o z)
    BY <2>1, <2>4, ConcatAssociative
  <2> QED BY <2>2, <2>3, Zenon DEF x, y, z
<1>11. Part = SubSeq(data, 1, i) \o new /\ Behind(Index(data)) = i + Len(old)
  BY DEF Part, Behind, i
<1>12. SubSeq(data, 1, i) \o new \in Seq(Bytes)
  BY <1>2, <1>5, ConcatProperties
<1>13. Replaced(Done).count = Replaced(e).count + 1
  BY <1>5, <1>8
<1>14. i + Len(old) \in 1..Len(data) /\ e = Done + Behind(Index(data))
  BY <1>1, <1>2, <1>11 DEF e
<1> QED BY <1>7, <1>10, <1>11, <1>12, <1>13, <1>14

\* What is written when no match is left is what becomes of these bytes.
LEMMA Flushing ==
  ASSUME TypeOK, ShapeInv, Scanned
  PROVE  /\ Replaced(Done).text = SubSeq(data, 1, Flush) \o Replaced(Done + Flush).text
         /\ Replaced(Done).count = Replaced(Done + Flush).count
         /\ Flush \in 0..Len(data) /\ SubSeq(data, 1, Flush) \in Seq(Bytes)
         /\ Len(SubSeq(data, 1, Flush)) = Flush
         /\ Done + Flush \in 0..at /\ Done + Flush \in 0..Len(input)
         /\ SubSeq(data, Flush + 1, Len(data)) = SubSeq(input, Done + Flush + 1, at)
         /\ err \in {"nil", "nothing"} => Len(data) - Flush < Len(old)
<1>1. Len(old) \in Nat \ {0} /\ Len(data) \in Nat
  BY Kinds
<1>2. Keep \in 0..Len(data) /\ Keep < Len(old) /\ (Keep = Len(data) \/ Keep = Len(old) - 1)
  BY <1>1 DEF Keep
<1>3. /\ Flush \in 0..Len(data) 
      /\ Flush = 0 \/ Flush + Len(old) - 1 <= Len(data) \/ err = "EOF"
      /\ err \in {"nil", "nothing"} => Len(data) - Flush < Len(old)
  <2>1. err \in {"nil", "EOF", "other", "nothing"}
    BY DEF TypeOK, Errors
  <2>2. CASE err = "EOF"
    <3>1. Flush = Len(data)
      BY <2>2 DEF Flush
    <3> QED BY <1>1, <2>2, <3>1
  <2>3. CASE err = "other"
    <3>1. Flush = 0
      BY <2>3 DEF Flush
    <3> QED BY <1>1, <2>3, <3>1
  <2>4. CASE err \in {"nil", "nothing"}
    <3>1. Flush = Len(data) - Keep
      BY <2>4 DEF Flush
    <3> QED BY <1>1, <1>2, <2>4, <3>1
  <2> QED BY <2>1, <2>2, <2>3, <2>4
<1>4. err = "EOF" => at = Len(input)
  BY DEF ShapeInv
<1>5. \A j \in 0..Flush - 1 : ~Occurs(old, data, j)
  BY <1>1, <1>3 DEF Scanned, Occurrences
<1> HIDE DEF Flush
<1> QED BY <1>3, <1>4, <1>5, Copying

\* A text, and the beginning of the next.
LEMMA Beginnings ==
  ASSUME NEW S, NEW x \in Seq(S), NEW y \in Seq(S), NEW z \in Seq(S), NEW k \in 0..Len(y)
  PROVE  LET u == x \o SubSeq(y, 1, k)
             t == x \o (y \o z)
         IN  Len(u) <= Len(t) /\ u = SubSeq(t, 1, Len(u))
<1> DEFINE v == SubSeq(y, 1, k)
           u == x \o v
           r == y \o z
           t == x \o r
<1>1. v \in Seq(S) /\ Len(v) = k /\ \A i \in 1..k : v[i] = y[i]
  <2>1. SubSeq(y, 0 + 1, k) \in Seq(S) /\ Len(SubSeq(y, 0 + 1, k)) = k - 0
        /\ \A i \in 1..k - 0 : SubSeq(y, 0 + 1, k)[i] = y[0 + i]
    BY PartOf
  <2>2. 0 + 1 = 1 /\ k - 0 = k /\ \A i \in 1..k : 0 + i = i
    OBVIOUS
  <2> QED BY <2>1, <2>2
<1>2. Len(x) \in Nat /\ Len(y) \in Nat /\ Len(z) \in Nat
  OBVIOUS
<1> HIDE DEF v
<1>3. /\ u \in Seq(S) /\ Len(u) = Len(x) + k
      /\ \A i \in 1..Len(x) + k : u[i] = IF i <= Len(x) THEN x[i] ELSE v[i - Len(x)]
  BY <1>1, <1>2, ConcatProperties
<1>4. /\ r \in Seq(S) /\ Len(r) = Len(y) + Len(z)
      /\ \A i \in 1..Len(y) + Len(z) : r[i] = IF i <= Len(y) THEN y[i] ELSE z[i - Len(y)]
  BY <1>2, ConcatProperties
<1> HIDE DEF r
<1>5. /\ t \in Seq(S) /\ Len(t) = Len(x) + Len(r)
      /\ \A i \in 1..Len(x) + Len(r) : t[i] = IF i <= Len(x) THEN x[i] ELSE r[i - Len(x)]
  <2>1. r \in Seq(S)
    BY <1>4
  <2> QED BY <2>1, ConcatProperties
<1> HIDE DEF u, t
<1>6. Len(u) \in 0..Len(t)
  BY <1>2, <1>3, <1>4, <1>5
<1>7. ASSUME NEW i \in 1..Len(u)
      PROVE  u[i] = t[i]
  <2>1. i \in 1..Len(x) + k /\ i \in 1..Len(x) + Len(r)
    BY <1>2, <1>3, <1>4
  <2>2. CASE i <= Len(x)
    BY <1>3, <1>5, <2>1, <2>2
  <2>3. CASE ~(i <= Len(x))
    <3>1. i - Len(x) \in 1..k /\ i - Len(x) \in 1..Len(y) + Len(z) /\ i - Len(x) <= Len(y)
      BY <1>2, <2>1, <2>3
    <3>2. u[i] = v[i - Len(x)] /\ t[i] = r[i - Len(x)]
      BY <1>3, <1>5, <2>1, <2>3
    <3> QED BY <1>1, <1>4, <3>1, <3>2
  <2> QED BY <2>2, <2>3
<1>8. u = SubSeq(t, 1, Len(u))
  <2> DEFINE w == SubSeq(t, 0 + 1, Len(u))
  <2>1. w \in Seq(S) /\ Len(w) = Len(u) - 0 /\ \A i \in 1..Len(u) - 0 : w[i] = t[0 + i]
    BY <1>5, <1>6, PartOf
  <2>2. 0 + 1 = 1 /\ Len(u) - 0 = Len(u) /\ \A i \in 1..Len(u) : 0 + i = i
    BY <1>2, <1>3
  <2>3. \A i \in 1..Len(u) : u[i] = w[i]
    BY <1>7, <2>1, <2>2
  <2> HIDE DEF w
  <2>4. u = w
    BY <1>3, <2>1, <2>2, <2>3, SeqEqual
  <2> QED BY <2>2, <2>4 DEF w
<1> QED BY <1>6, <1>8 DEF u, t, v, r

\* z is x and y, and x is the beginning of t.
Joined(x, y, z) == z = x \o y
Begins(x, t)    == Len(x) <= Len(t) /\ x = SubSeq(t, 1, Len(x))

\* Also a part that is not written to its end leaves a beginning of the result.
LEMMA PartialWrite ==
  ASSUME NEW S, NEW x, NEW y, NEW z, Texts(S, x, y, z), NEW r, Joined(y, z, r),
         NEW t, Joined(x, r, t), NEW k \in 0..Len(y), NEW u, Joined(x, SubSeq(y, 1, k), u)
  PROVE  Begins(u, t)
<1>1. x \in Seq(S) /\ y \in Seq(S) /\ z \in Seq(S) /\ t = x \o (y \o z) /\ u = x \o SubSeq(y, 1, k)
  BY DEF Texts, Joined
<1> QED BY <1>1, Beginnings DEF Begins

\* What was written, and the part that is written now, give the result with the rest.
LEMMA NextWrite ==
  ASSUME NEW S, NEW x, NEW y, NEW z, Texts(S, x, y, z), NEW r, Joined(y, z, r),
         NEW t, Joined(x, r, t), NEW u, Joined(x, y, u)
  PROVE  Joined(u, z, t) /\ u \in Seq(S) /\ Begins(u, t)
<1>1. Joined(u, z, t)
  <2>1. (x \o y) \o z = x \o (y \o z)
    BY Regroup
  <2> QED BY <2>1, Zenon DEF Joined
<1>2. y \in Seq(S) /\ u \in Seq(S)
  BY ConcatProperties DEF Joined, Texts
<1>3. Len(y) \in 0..Len(y) /\ SubSeq(y, 1, Len(y)) = y
  BY <1>2, SubSeqFull
<1>4. Joined(x, SubSeq(y, 1, Len(y)), u)
  BY <1>3
<1>5. Begins(u, t)
  BY <1>3, <1>4, PartialWrite
<1> QED BY <1>1, <1>2, <1>5

\* The place of the data when b bytes are dealt with.
LEMMA MoveOn ==
  ASSUME NEW a \in Nat, NEW l \in Nat, NEW d \in Nat, a - d = l, NEW b \in Nat
  PROVE  a - (l - b) = d + b
OBVIOUS

\* The inner loop (ReplaceAll).
LEMMA ReplaceMatchStep == Inv /\ ReplaceMatch => Inv'
<1> SUFFICES ASSUME Inv, ReplaceMatch
             PROVE  Inv'
  OBVIOUS
<1> DEFINE b == Behind(Index(data))
           d == Done + b
<1>1. TypeOK /\ ShapeInv /\ Matching /\ pc = "replace" /\ job = "replace"
  BY DEF Inv, ReplaceMatch, Matching, ShapeInv
<1>2. /\ UNCHANGED <<task, pc, prefix, matched, at, err>>
      /\ out' = out \o Part /\ matches' = matches + 1 /\ data' = SubSeq(data, b + 1, Len(data))
  BY DEF ReplaceMatch, Write
<1>3. /\ Replaced(Done).text = Part \o Replaced(d).text
      /\ Replaced(Done).count = Replaced(d).count + 1
      /\ Part \in Seq(Bytes) /\ b \in 1..Len(data) /\ d \in 0..at /\ d \in 0..Len(input)
  BY <1>1, Replacing
<1>4. old' = old /\ input' = input /\ pc' = pc /\ job' = job /\ prefix' = prefix
  BY <1>2 DEF task
<1>5. /\ Done \in 0..at /\ at - Done = Len(data) /\ data = SubSeq(input, Done + 1, at)
      /\ input \in Seq(Bytes) /\ at \in 0..Len(input) /\ data \in Seq(Bytes) /\ Len(data) \in Nat
      /\ Len(input) \in Nat /\ out \in Seq(Bytes)
  BY <1>1, Position, Kinds DEF ShapeInv
<1> HIDE DEF b
<1>6. data' = SubSeq(input, Done + b + 1, at)
  <2>1. b \in 0..at - Done
    BY <1>3, <1>5
  <2> QED BY <1>2, <1>5, <2>1, PartOfPart
<1>7. data' \in Seq(Bytes) /\ Len(data') = Len(data) - b
  <2>1. b \in 0..Len(data) /\ Len(data) \in 0..Len(data)
    BY <1>3, <1>5
  <2> QED BY <1>2, <1>5, <2>1, PartOf
<1>8. Done' = d
  <2>1. at \in Nat /\ Done \in Nat /\ b \in Nat
    BY <1>3, <1>5
  <2>2. at - (Len(data) - b) = d
    BY <1>5, <2>1, MoveOn
  <2> QED BY <1>2, <1>7, <2>2 DEF Done
<1> HIDE DEF d
<1>9. Joined(out', Replaced(d).text, Replaced(0).text) /\ out' \in Seq(Bytes) /\ Begins(out', Replaced(0).text)
  <2>1. Texts(Bytes, out, Part, Replaced(d).text)
    BY <1>1, <1>3, <1>5, ReplacedType DEF Texts
  <2>2. Joined(out, Replaced(Done).text, Replaced(0).text)
    BY <1>1 DEF Inv, SeamInv, Joined
  <2>3. Joined(Part, Replaced(d).text, Replaced(Done).text)
    BY <1>3 DEF Joined
  <2>4. Joined(out, Part, out')
    BY <1>2 DEF Joined
  <2> QED BY <2>1, <2>2, <2>3, <2>4, NextWrite
<1>10. matches' \in Nat /\ matches' + Replaced(d).count = Replaced(0).count
  <2>1. matches + Replaced(Done).count = Replaced(0).count
    BY <1>1 DEF Inv, SeamInv
  <2> DEFINE c == Replaced(d).count
  <2>2. matches \in Nat /\ c \in Nat
    BY <1>1, <1>3, ReplacedType DEF TypeOK
  <2>3. matches + (c + 1) = Replaced(0).count
    BY <1>3, <2>1
  <2> HIDE DEF c
  <2>4. (matches + 1) + c = Replaced(0).count /\ matches + 1 \in Nat
    BY <2>2, <2>3
  <2> QED BY <1>2, <2>4 DEF c
<1>11. TypeOK'
  <2>1. Len(data') < BufferSize + Len(old)
    BY <1>1, <1>3, <1>5, <1>7, Kinds, StreamAssumption DEF TypeOK
  <2> QED BY <1>1, <1>2, <1>7, <1>9, <1>10, <2>1 DEF TypeOK, task
<1>12. ShapeInv'
  <2>1. Len(data') <= at
    BY <1>3, <1>5, <1>7
  <2>2. data' = SubSeq(input, d + 1, at)
    BY <1>6 DEF d
  <2> QED BY <1>1, <1>2, <1>4, <1>8, <2>1, <2>2 DEF ShapeInv
<1>13. SeamInv' /\ OnlyResultIsWritten'
  <2>1. \A n : Replaced(n)' = Replaced(n)
    BY <1>2 DEF Replaced, task
  <2> QED BY <1>8, <1>9, <1>10, <2>1 DEF SeamInv, OnlyResultIsWritten, Joined, Begins
<1>14. TableInv' /\ TableCandidateInv' /\ SearchInv' /\ SameAsWhole'
  <2>1. TableInv'
    BY <1>4 DEF Inv, TableInv, Longest
  <2> QED BY <1>1, <1>4, <2>1 DEF TableCandidateInv, SearchInv, SameAsWhole
<1> QED BY <1>11, <1>12, <1>13, <1>14 DEF Inv

\* No match is left in the data (ReplaceAll).
LEMMA RoundDoneStep == Inv /\ RoundDone => Inv'
<1> SUFFICES ASSUME Inv, RoundDone
             PROVE  Inv'
  OBVIOUS
<1> DEFINE d == Done + Flush
<1>1. TypeOK /\ ShapeInv /\ Scanned /\ pc = "replace" /\ job = "replace"
  BY DEF Inv, RoundDone, Scanned, ShapeInv
<1>2. /\ UNCHANGED <<task, prefix, matched, at, err, matches>>
      /\ out' = out \o SubSeq(data, 1, Flush) /\ data' = SubSeq(data, Flush + 1, Len(data))
      /\ pc' = CASE err = "nil" -> "read" [] err = "EOF" -> "replaced" [] OTHER -> "failed"
  BY DEF RoundDone, Write
<1>3. /\ Replaced(Done).text = SubSeq(data, 1, Flush) \o Replaced(d).text
      /\ Replaced(Done).count = Replaced(d).count
      /\ Flush \in 0..Len(data) /\ SubSeq(data, 1, Flush) \in Seq(Bytes)
      /\ d \in 0..at /\ d \in 0..Len(input)
      /\ SubSeq(data, Flush + 1, Len(data)) = SubSeq(input, d + 1, at)
      /\ err = "nil" => Len(data) - Flush < Len(old)
  BY <1>1, Flushing
<1>4. old' = old /\ input' = input /\ job' = job /\ prefix' = prefix
  BY <1>2 DEF task
<1>5. /\ Done \in 0..at /\ at - Done = Len(data)
      /\ at \in 0..Len(input) /\ data \in Seq(Bytes) /\ Len(data) \in Nat
      /\ Len(input) \in Nat /\ out \in Seq(Bytes)
  BY <1>1, Position, Kinds
<1>6. pc' \in {"read", "replaced", "failed"} /\ (pc' = "read" => err = "nil") /\ (pc' = "replaced" => err = "EOF")
  BY <1>2
<1>7. data' \in Seq(Bytes) /\ Len(data') = Len(data) - Flush
  <2>1. Len(data) \in 0..Len(data)
    BY <1>5
  <2> QED BY <1>2, <1>3, <1>5, <2>1, PartOf
<1>8. Done' = d
  <2>1. at \in Nat /\ Done \in Nat /\ Flush \in Nat
    BY <1>3, <1>5
  <2>2. at - (Len(data) - Flush) = d
    BY <1>5, <2>1, MoveOn
  <2> QED BY <1>2, <1>7, <2>2 DEF Done
<1>9. err = "EOF" => d = Len(input)
  <2>1. err = "EOF" => Flush = Len(data) /\ at = Len(input)
    BY <1>1 DEF Flush, ShapeInv
  <2> QED BY <1>5, <2>1
<1> HIDE DEF d, Flush
<1>10. Joined(out', Replaced(d).text, Replaced(0).text) /\ out' \in Seq(Bytes) /\ Begins(out', Replaced(0).text)
  <2>1. Texts(Bytes, out, SubSeq(data, 1, Flush), Replaced(d).text)
    BY <1>1, <1>3, <1>5, ReplacedType DEF Texts
  <2>2. Joined(out, Replaced(Done).text, Replaced(0).text)
    BY <1>1 DEF Inv, SeamInv, Joined
  <2>3. Joined(SubSeq(data, 1, Flush), Replaced(d).text, Replaced(Done).text)
    BY <1>3 DEF Joined
  <2>4. Joined(out, SubSeq(data, 1, Flush), out')
    BY <1>2 DEF Joined
  <2> QED BY <2>1, <2>2, <2>3, <2>4, NextWrite
<1>11. matches + Replaced(d).count = Replaced(0).count /\ matches \in Nat
  BY <1>1, <1>3 DEF Inv, SeamInv, TypeOK
<1>12. TypeOK'
  <2>1. Len(data') < BufferSize + Len(old) /\ (err = "nil" => Len(data') < Len(old))
    BY <1>1, <1>3, <1>5, <1>7, Kinds, StreamAssumption DEF TypeOK
  <2>2. matched # Len(old)
    BY <1>1 DEF TypeOK
  <2> QED BY <1>1, <1>2, <1>6, <1>7, <1>10, <2>1, <2>2 DEF TypeOK, task, Outcomes
<1>13. ShapeInv'
  <2>1. Len(data') <= at
    BY <1>3, <1>5, <1>7
  <2> QED BY <1>1, <1>2, <1>3, <1>4, <1>6, <1>8, <2>1 DEF ShapeInv
<1>14. \A n : Replaced(n)' = Replaced(n)
  BY <1>2 DEF Replaced, task
<1>15. SeamInv' /\ OnlyResultIsWritten'
  BY <1>2, <1>8, <1>10, <1>11, <1>14 DEF SeamInv, OnlyResultIsWritten, Joined, Begins
<1>16. SameAsWhole'
  <2> SUFFICES ASSUME err = "EOF"
               PROVE  out' = Replaced(0).text /\ matches = Replaced(0).count
    BY <1>2, <1>6, <1>14 DEF SameAsWhole
  <2>1. Replaced(d) = [text |-> <<>>, count |-> 0]
    <3>1. Replaced(d) = Turn(Result(old, new, input), old, new, input, d)
      BY <1>1, <1>3, Kinds, ResultEquation DEF Replaced
    <3> QED BY <1>9, <3>1 DEF Turn
  <2>2. out' \o <<>> = out'
    BY <1>10, ConcatEmptySeq
  <2> QED BY <1>10, <1>11, <2>1, <2>2 DEF Joined
<1>17. TableInv' /\ TableCandidateInv' /\ SearchInv'
  <2>1. TableInv'
    BY <1>4 DEF Inv, TableInv, Longest
  <2> QED BY <1>1, <1>4, <1>6, <2>1 DEF TableCandidateInv, SearchInv
<1> QED BY <1>12, <1>13, <1>15, <1>16, <1>17 DEF Inv

\* A write that fails (ReplaceAll).
LEMMA WriteFailsStep == Inv /\ WriteFails => Inv'
<1> SUFFICES ASSUME Inv, WriteFails
             PROVE  Inv'
  OBVIOUS
<1>1. TypeOK /\ ShapeInv /\ pc = "replace" /\ job = "replace"
  BY DEF Inv, WriteFails, Matching, Scanned, ShapeInv
<1>2. UNCHANGED <<task, prefix, matched, at, data, err, matches>> /\ pc' = "failed"
  BY DEF WriteFails
<1>3. out \o Replaced(Done).text = Replaced(0).text /\ out \in Seq(Bytes)
  BY <1>1, Kinds DEF Inv, SeamInv
<1>4. PICK y \in Seq(Bytes), z \in Seq(Bytes) :
        /\ Replaced(Done).text = y \o z
        /\ \E k \in 0..Len(y) : out' = out \o SubSeq(y, 1, k)
  <2>1. CASE Matching
    <3> DEFINE z == Replaced(Done + Behind(Index(data))).text
    <3>1. Replaced(Done).text = Part \o z /\ Part \in Seq(Bytes) /\ z \in Seq(Bytes)
      BY <1>1, <2>1, Replacing, ReplacedType
    <3>2. \E k \in 0..Len(Part) : out' = out \o SubSeq(Part, 1, k)
      BY <2>1 DEF WriteFails, Matching, Scanned, Write
    <3> QED BY <3>1, <3>2
  <2>2. CASE Scanned
    <3> DEFINE y == SubSeq(data, 1, Flush)
               z == Replaced(Done + Flush).text
    <3>1. /\ Replaced(Done).text = y \o z /\ y \in Seq(Bytes) /\ z \in Seq(Bytes) /\ Len(y) = Flush
          /\ Flush \in 0..Len(data)
      BY <1>1, <2>2, Flushing, ReplacedType
    <3>2. PICK k \in 0..Flush : out' = out \o SubSeq(data, 1, k)
      BY <2>2 DEF WriteFails, Matching, Scanned, Write
    <3>3. SubSeq(y, 1, k) = SubSeq(data, 1, k)
      <4> DEFINE n == Flush
      <4>1. n \in 0..Len(data) /\ k \in 0..n /\ data \in Seq(Bytes) /\ Len(data) \in Nat
        BY <1>1, <3>1, Kinds
      <4> HIDE DEF n
      <4>2. SubSeq(data, 0 + 1, n) = SubSeq(data, 1, n) /\ 0 \in 0..n /\ k \in 0..n - 0 /\ 0 + k = k
        BY <4>1
      <4>3. SubSeq(SubSeq(data, 1, n), 1, k) = SubSeq(data, 0 + 1, 0 + k)
        BY <4>1, <4>2, PartOfPart
      <4>4. 0 + 1 = 1
        OBVIOUS
      <4>5. SubSeq(SubSeq(data, 1, n), 1, k) = SubSeq(data, 1, k)
        BY <4>2, <4>3, <4>4, Zenon
      <4> QED BY <4>5 DEF n
    <3> HIDE DEF y, z
    <3> QED BY <3>1, <3>2, <3>3
  <2> QED BY <2>1, <2>2 DEF WriteFails
<1>5. PICK k \in 0..Len(y) : out' = out \o SubSeq(y, 1, k)
  BY <1>4
<1>6. Begins(out', Replaced(0).text)
  <2>1. Texts(Bytes, out, y, z) /\ Joined(y, z, Replaced(Done).text)
    BY <1>3, <1>4 DEF Texts, Joined
  <2>2. Joined(out, Replaced(Done).text, Replaced(0).text) /\ Joined(out, SubSeq(y, 1, k), out')
    BY <1>3, <1>5 DEF Joined
  <2> QED BY <2>1, <2>2, PartialWrite
<1>7. out' \in Seq(Bytes)
  <2>1. SubSeq(y, 1, k) \in Seq(Bytes)
    <3>1. k \in 0..Len(y) /\ Len(y) \in Nat /\ \A i \in 1..k : y[i] \in Bytes
      OBVIOUS
    <3> QED BY <3>1, SubSeqProperties
  <2> QED BY <1>3, <1>5, <2>1, ConcatProperties
<1>8. TypeOK'
  <2>1. matched # Len(old)
    BY <1>1 DEF TypeOK
  <2> QED BY <1>1, <1>2, <1>7, <2>1 DEF TypeOK, task, Outcomes
<1>9. ShapeInv' /\ TableInv' /\ TableCandidateInv' /\ SearchInv' /\ SeamInv' /\ SameAsWhole'
  <2>1. Done' = Done
    BY <1>2 DEF Done
  <2>2. TableInv'
    BY <1>2 DEF Inv, TableInv, Longest, task
  <2> QED BY <1>1, <1>2, <2>1, <2>2
          DEF ShapeInv, TableCandidateInv, SearchInv, SeamInv, SameAsWhole, task
<1>10. OnlyResultIsWritten'
  <2>1. Replaced(0)' = Replaced(0)
    BY <1>2 DEF Replaced, task
  <2> QED BY <1>6, <2>1 DEF OnlyResultIsWritten, Begins
<1> QED BY <1>8, <1>9, <1>10 DEF Inv

--------------------------------------------------------------------------------
(* The invariant, and the properties.                                       *)

\* A call begins with everything before it.
LEMMA InitStep == Init => Inv
<1> SUFFICES ASSUME Init
             PROVE  Inv
  OBVIOUS
<1>1. /\ job \in {"search", "replace"} /\ input \in Inputs /\ old \in Needles /\ new \in News
      /\ pc = (IF job = "search" THEN "table" ELSE "read")
      /\ prefix = <<0>> /\ matched = 0 /\ at = 0 /\ data = <<>> /\ err = "nil"
      /\ out = <<>> /\ matches = 0
  BY DEF Init
<1>2. /\ input \in Seq(Bytes) /\ Len(input) \in Nat /\ old \in Seq(Bytes) /\ Len(old) \in Nat \ {0}
      /\ new \in Seq(Bytes) /\ old # <<>> /\ BufferSize \in Nat \ {0}
  BY <1>1, EmptySeq, StreamAssumption
<1>3. TypeOK
  <2>1. prefix \in Seq(0..(Len(old) - 1)) /\ Len(prefix) = 1
    <3>1. 0 \in 0..(Len(old) - 1)
      BY <1>2
    <3> QED BY <1>1, <3>1
  <2>2. data \in Seq(Bytes) /\ Len(data) = 0 /\ out \in Seq(Bytes)
    BY <1>1
  <2> QED BY <1>1, <1>2, <2>1, <2>2 DEF TypeOK, Errors
<1>4. Done = 0 /\ Len(data) = 0
  <2>1. Len(data) = 0
    BY <1>1
  <2>2. at = 0
    BY <1>1
  <2> QED BY <2>1, <2>2 DEF Done
<1>5. ShapeInv
  <2>1. SubSeq(input, 0 + 1, 0) = <<>>
    BY <1>2, SubSeqEmpty
  <2> QED BY <1>1, <1>4, <2>1 DEF ShapeInv
<1>6. TableInv /\ TableCandidateInv
  <2>1. Len(prefix) = 1 /\ prefix[1] = 0
    BY <1>1
  <2>2. Ends(old, old, 1, 0)
    BY DEF Ends
  <2> QED BY <1>1, <2>1, <2>2 DEF TableInv, TableCandidateInv, Longest, Candidate
<1>7. SearchInv /\ SameAsWhole
  BY <1>1 DEF SearchInv, SameAsWhole
<1>8. SeamInv
  <2>1. Replaced(0).text \in Seq(Bytes) /\ Replaced(0).count \in Nat
    BY <1>2, <1>3, ReplacedType
  <2>2. <<>> \o Replaced(0).text = Replaced(0).text
    BY <2>1, ConcatEmptySeq
  <2> QED BY <1>1, <1>4, <2>1, <2>2 DEF SeamInv
<1>9. OnlyResultIsWritten
  <2>1. Replaced(0).text \in Seq(Bytes)
    BY <1>2, <1>3, ReplacedType
  <2> DEFINE t == Replaced(0).text
  <2> HIDE DEF t
  <2>2. t \in Seq(Bytes)
    BY <2>1 DEF t
  <2>3. SubSeq(t, 1, 0) = <<>> /\ Len(t) \in Nat
    BY <2>2, SubSeqEmpty
  <2>4. Len(out) = 0
    BY <1>1
  <2> QED BY <1>1, <2>3, <2>4 DEF OnlyResultIsWritten, t
<1> QED BY <1>3, <1>5, <1>6, <1>7, <1>8, <1>9 DEF Inv

\* Every step of Contains and of ReplaceAll keeps the invariant.
THEOREM Invariance == Spec => []Inv
<1>1. Inv /\ [Next]_vars => Inv'
  <2> SUFFICES ASSUME Inv, [Next]_vars
               PROVE  Inv'
    OBVIOUS
  <2>1. CASE UNCHANGED vars
    <3>1. UNCHANGED <<task, pc, prefix, matched, at, data, err, out, matches>>
      BY <2>1 DEF vars
    <3>2. UNCHANGED <<job, input, old, new>>
      BY <3>1 DEF task
    <3> QED BY <3>1, <3>2 DEF Inv, TypeOK, ShapeInv, TableInv, TableCandidateInv, SearchInv, SeamInv,
               SameAsWhole, OnlyResultIsWritten, Done, Looking, Replaced, Occurrences, Longest
  <2>2. CASE Next
    BY <2>2, ReadStep, FallStep, ExtendStep, TableDoneStep, AdvanceStep, ChunkSearchedStep,
       ReplaceMatchStep, RoundDoneStep, WriteFailsStep DEF Next
  <2> QED BY <2>1, <2>2
<1> QED BY InitStep, <1>1, PTL DEF Spec

\* The variables of Contains and ReplaceAll keep their types: matched stays below the
\* length of the needle while the search goes on, and carry stays shorter than old.
THEOREM TypeCorrect == Spec => []TypeOK
<1>1. Inv => TypeOK
  BY DEF Inv
<1> QED BY <1>1, Invariance, PTL

\* Contains and ReplaceAll answer as for the whole file, for every file, pattern and
\* replacement and however reads cut the file into chunks.
THEOREM WholeCorrect == Spec => []SameAsWhole
<1>1. Inv => SameAsWhole
  BY DEF Inv
<1> QED BY <1>1, Invariance, PTL

\* Between two writes of ReplaceAll nothing is lost or done twice.
THEOREM SeamCorrect == Spec => []NothingAtTheSeam
<1>1. Inv => NothingAtTheSeam
  BY DEF Inv, ShapeInv, SeamInv, NothingAtTheSeam, Done
<1> QED BY <1>1, Invariance, PTL

\* The table of Contains is the one of the needle's longest beginnings, and what
\* Contains remembers between two chunks is the longest beginning that ends the file so
\* far.
THEOREM LongestCorrect == Spec => []LongestBeginning
<1>1. Inv => LongestBeginning
  <2> SUFFICES ASSUME Inv
               PROVE  LongestBeginning
    OBVIOUS
  <2>1. TypeOK /\ ShapeInv /\ TableInv
    BY DEF Inv
  <2>2. ASSUME job = "search", pc = "read"
        PROVE  /\ Longest(input, at, matched, Len(old) + 1)
               /\ \A i \in Occurrences(input) : i + Len(old) > at
    <3>1. Done = at /\ ~Looking
      BY <2>1, <2>2, Kinds DEF ShapeInv, Done, Looking
    <3>2. /\ Longest(input, at, matched, Len(old))
          /\ \A i \in Occurrences(input) : i + Len(old) > at
      BY <2>2, <3>1 DEF Inv, SearchInv
    <3>3. Len(old) \in Nat /\ at \in Nat /\ Len(input) \in Nat /\ at \in 0..Len(input) /\ matched \in Nat
      BY <2>1, Kinds DEF TypeOK
    <3>4. ~Ends(old, input, at, Len(old))
      <4> SUFFICES ASSUME Ends(old, input, at, Len(old))
                   PROVE  FALSE
        OBVIOUS
      <4> DEFINE n == at - Len(old)
      <4>1. n \in Nat /\ n + Len(old) = at
        BY <3>3 DEF Ends
      <4>2. n \in 0..Len(input)
        BY <3>3, <4>1
      <4> HIDE DEF n
      <4>3. Occurs(old, input, n)
        BY <3>3, <4>1, OccursEnds
      <4>4. n + Len(old) > at
        BY <3>2, <4>2, <4>3 DEF Occurrences
      <4> QED BY <3>3, <4>1, <4>4
    <3>5. \A m \in matched + 1..(Len(old) + 1) - 1 : m \in matched + 1..Len(old) - 1 \/ m = Len(old)
      BY <3>3
    <3>6. matched < Len(old) + 1
      BY <3>2, <3>3 DEF Longest
    <3> QED BY <3>2, <3>4, <3>5, <3>6 DEF Longest
  <2> QED BY <2>1, <2>2 DEF LongestBeginning, TableInv
<1> QED BY <1>1, Invariance, PTL

\* Whatever fails, ReplaceAll has written a beginning of the result and nothing else.
THEOREM WrittenCorrect == Spec => []OnlyResultIsWritten
<1>1. Inv => OnlyResultIsWritten
  BY DEF Inv
<1> QED BY <1>1, Invariance, PTL

================================================================================
