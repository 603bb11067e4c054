----------------------------- MODULE UndoPathsProofs ---------------------------
(***************************************************************************)
(* Path capabilities (UndoPaths): for all file systems, roots and paths of *)
(* scripts the absolute name, the handle of the root and the roots of a    *)
(* recovery mean the same entry.                                           *)
(***************************************************************************)
EXTENDS UndoPaths, SequenceTheorems, WellFoundedInduction, TLAPS

--------------------------------------------------------------------------------
(* Loops: h[s] = IF s \in F THEN s ELSE h[step[s]].                         *)

\* Every set of natural numbers has a least one.
LEMMA Least ==
  ASSUME NEW T \in SUBSET Nat, T # {}
  PROVE  \E n \in T : \A m \in T : ~(m < n)
<1> DEFINE R == OpToRel(<, Nat)
<1>1. IsWellFoundedOn(R, Nat)
  BY NatLessThanWellFounded
<1>2. \A m, n \in Nat : <<m, n>> \in R <=> m < n
  BY DEF OpToRel
<1> HIDE DEF R
<1>3. \E n \in T : \A m \in T : ~(<<m, n>> \in R)
  BY <1>1, WFMin
<1> QED BY <1>2, <1>3

\* A relation that holds of every end and itself, and of s and y if of what follows s and y.
Closed(S, F, step, R) ==
  /\ \A s \in F : <<s, s>> \in R
  /\ \A s \in S \ F, y \in S : <<step[s], y>> \in R => <<s, y>> \in R

\* The least such relation.
Ends(S, F, step) == {x \in S \X S : \A R \in SUBSET (S \X S) : Closed(S, F, step, R) => x \in R}

End(S, E, s) == CHOOSE y \in S : <<s, y>> \in E

LEMMA EndsClosed ==
  ASSUME NEW S, NEW F \in SUBSET S, NEW step
  PROVE  Closed(S, F, step, Ends(S, F, step))
<1>1. ASSUME NEW s \in F PROVE <<s, s>> \in Ends(S, F, step)
  BY DEF Ends, Closed
<1>2. ASSUME NEW s \in S \ F, NEW y \in S, <<step[s], y>> \in Ends(S, F, step)
      PROVE  <<s, y>> \in Ends(S, F, step)
  BY <1>2 DEF Ends, Closed
<1> QED BY <1>1, <1>2 DEF Closed

\* A loop that goes on ends where it goes on to.
LEMMA EndsFollow ==
  ASSUME NEW S, NEW F \in SUBSET S, NEW step, NEW s \in S \ F, NEW y \in S,
         <<s, y>> \in Ends(S, F, step)
  PROVE  <<step[s], y>> \in Ends(S, F, step)
<1> DEFINE R == Ends(S, F, step) \ {<<s, y>>}
<1>1. SUFFICES ASSUME <<step[s], y>> \notin Ends(S, F, step) PROVE FALSE
  OBVIOUS
<1>2. R \in SUBSET (S \X S)
  BY DEF Ends
<1>3. \A t \in F : <<t, t>> \in R
  BY EndsClosed DEF Closed
<1>4. ASSUME NEW t \in S \ F, NEW z \in S, <<step[t], z>> \in R
      PROVE  <<t, z>> \in R
  <2>1. <<t, z>> \in Ends(S, F, step)
    BY <1>4, EndsClosed DEF Closed
  <2>2. <<t, z>> # <<s, y>>
    BY <1>1, <1>4
  <2> QED BY <2>1, <2>2
<1>5. Closed(S, F, step, R)
  BY <1>3, <1>4 DEF Closed
<1> QED BY <1>2, <1>5 DEF Ends

\* At an end the loop ends there and nowhere else.
LEMMA EndsHere ==
  ASSUME NEW S, NEW F \in SUBSET S, NEW step, NEW s \in F, NEW y,
         <<s, y>> \in Ends(S, F, step)
  PROVE  y = s
<1> DEFINE R == Ends(S, F, step) \ {<<s, y>>}
<1>1. SUFFICES ASSUME y # s PROVE FALSE
  OBVIOUS
<1>2. R \in SUBSET (S \X S)
  BY DEF Ends
<1>3. \A t \in F : <<t, t>> \in R
  BY <1>1, EndsClosed DEF Closed
<1>4. ASSUME NEW t \in S \ F, NEW z \in S, <<step[t], z>> \in R
      PROVE  <<t, z>> \in R
  <2>1. <<t, z>> \in Ends(S, F, step)
    BY <1>4, EndsClosed DEF Closed
  <2> QED BY <2>1
<1>5. Closed(S, F, step, R)
  BY <1>3, <1>4 DEF Closed
<1> QED BY <1>2, <1>5 DEF Ends

\* h says where a loop ends.
Loop(h, S, F, step) == h = [s \in S |-> IF s \in F THEN s ELSE h[step[s]]]

\* Every loop has a function that says where it ends.
LEMMA LoopExists ==
  ASSUME NEW S, NEW F \in SUBSET S, NEW step, \A s \in S \ F : step[s] \in S
  PROVE  \E h : Loop(h, S, F, step)
<1> DEFINE E == Ends(S, F, step)
           h == [s \in S |-> End(S, E, s)]
<1>1. ASSUME NEW s \in F PROVE h[s] = s
  <2>1. <<s, s>> \in E
    BY EndsClosed DEF Closed
  <2>2. \A y \in S : <<s, y>> \in E => y = s
    BY EndsHere
  <2> HIDE DEF E
  <2> QED BY <2>1, <2>2 DEF End
<1>2. ASSUME NEW s \in S \ F PROVE h[s] = h[step[s]]
  <2>1. \A y \in S : <<s, y>> \in E <=> <<step[s], y>> \in E
    BY EndsClosed, EndsFollow DEF Closed
  <2> HIDE DEF E
  <2>2. End(S, E, s) = End(S, E, step[s])
    BY <2>1, Zenon DEF End
  <2> QED BY <2>2
<1>3. h = [s \in S |-> IF s \in F THEN s ELSE h[step[s]]]
  <2>1. \A s \in S : h[s] = IF s \in F THEN s ELSE h[step[s]]
    <3> HIDE DEF h
    <3> QED BY <1>1, <1>2
  <2>2. h = [s \in S |-> h[s]]
    OBVIOUS
  <2> HIDE DEF h
  <2> QED BY <2>1, <2>2, Zenon
<1>4. Loop(h, S, F, step)
  <2> HIDE DEF h
  <2> QED BY <1>3, Zenon DEF Loop
<1> QED BY <1>4

\* What holds at the ends, and of s if of what follows s, holds everywhere, when one
\* number gets less with every turn, or stays and the other gets less.
Falling(S, F, step, m, n) ==
  /\ m \in [S -> Nat] /\ n \in [S -> Nat]
  /\ \A s \in S \ F : /\ step[s] \in S
                     /\ \/ m[step[s]] < m[s]
                        \/ m[step[s]] = m[s] /\ n[step[s]] < n[s]

Back(S, F, step, J) ==
  /\ \A s \in S : s \in F => s \in J
  /\ \A s \in S \ F : step[s] \in J => s \in J

LEMMA LoopInduction ==
  ASSUME NEW S, NEW F, NEW step, NEW m, NEW n, NEW J,
         Falling(S, F, step, m, n), Back(S, F, step, J)
  PROVE  \A s \in S : s \in J
<1> USE DEF Falling, Back
<1> DEFINE T == {k \in Nat : \E s \in S \ J : m[s] = k}
<1>1. SUFFICES ASSUME S \ J # {} PROVE FALSE
  OBVIOUS
<1>2. T \in SUBSET Nat /\ T # {}
  BY <1>1
<1>3. PICK a \in T : \A b \in T : ~(b < a)
  <2> HIDE DEF T
  <2> QED BY <1>2, Least
<1> DEFINE U == {k \in Nat : \E s \in S \ J : m[s] = a /\ n[s] = k}
<1>4. U \in SUBSET Nat /\ U # {}
  BY <1>3
<1>5. PICK c \in U : \A b \in U : ~(b < c)
  <2> HIDE DEF U
  <2> QED BY <1>4, Least
<1>6. PICK s \in S \ J : m[s] = a /\ n[s] = c
  BY <1>5
<1>7. s \in S \ F /\ step[s] \in S \ J
  BY <1>6
<1>8. m[step[s]] \in T
  BY <1>7
<1>9. ~(m[step[s]] < m[s])
  BY <1>3, <1>6, <1>8
<1>10. m[step[s]] = m[s] /\ n[step[s]] < n[s]
  BY <1>7, <1>9
<1>11. n[step[s]] \in U
  BY <1>6, <1>7, <1>10
<1> QED BY <1>5, <1>6, <1>10, <1>11

--------------------------------------------------------------------------------
(* Trees.                                                                   *)

LEMMA Kinds ==
  ASSUME IsTree(tree), NEW p
  PROVE  /\ Kind(p) \in {"none", "dir", "file", "link"}
         /\ Kind(p) # "none" => p \in DOMAIN tree /\ p \in Seq(Names)
         /\ Kind(p) = "dir" => tree[p] = Dir
         /\ Kind(p) = "link" => tree[p].abs \in BOOLEAN /\ tree[p].to \in Seq(Ways)
<1>1. CASE p \notin DOMAIN tree
  BY <1>1 DEF Kind
<1>2. CASE p \in DOMAIN tree
  <2>1. /\ p \in Seq(Names)
        /\ \/ tree[p] \in {Dir, File}
           \/ /\ tree[p].abs \in BOOLEAN /\ tree[p].to \in Seq(Ways)
              /\ tree[p] = Link(tree[p].abs, tree[p].to)
    BY <1>2 DEF IsTree
  <2>2. Kind(p) = tree[p].kind
    BY <1>2 DEF Kind
  <2>3. CASE tree[p] = Dir
    BY <1>2, <2>1, <2>2, <2>3 DEF Dir
  <2>4. CASE tree[p] = File
    BY <1>2, <2>1, <2>2, <2>4 DEF File
  <2>5. CASE tree[p] = Link(tree[p].abs, tree[p].to) /\ tree[p].abs \in BOOLEAN
             /\ tree[p].to \in Seq(Ways)
    <3>1. tree[p].kind = "link"
      BY <2>5 DEF Link
    <3> QED BY <1>2, <2>1, <2>2, <2>5, <3>1
  <2> QED BY <2>1, <2>3, <2>4, <2>5
<1> QED BY <1>1, <1>2

LEMMA RootIsDir ==
  ASSUME IsTree(tree)
  PROVE  Kind(<<>>) = "dir"
BY DEF IsTree, Kind, Dir

\* What is above an entry is a directory.
LEMMA AboveIsDir ==
  ASSUME IsTree(tree), NEW p, Kind(p) # "none", NEW k \in 0..Len(p) - 1
  PROVE  Kind(SubSeq(p, 1, k)) = "dir"
<1>1. p \in DOMAIN tree
  BY Kinds
<1>2. SubSeq(p, 1, k) \in DOMAIN tree /\ tree[SubSeq(p, 1, k)] = Dir
  BY <1>1 DEF IsTree
<1> QED BY <1>2 DEF Kind, Dir

--------------------------------------------------------------------------------
(* Paths.                                                                   *)

LEMMA Beginning ==
  ASSUME NEW S, NEW p \in Seq(S), NEW k \in 0..Len(p)
  PROVE  /\ SubSeq(p, 1, k) \in Seq(S)
         /\ Len(SubSeq(p, 1, k)) = k
         /\ \A i \in 1..k : SubSeq(p, 1, k)[i] = p[i]
<1>1. \A i \in 1..k : p[i] \in S
  OBVIOUS
<1>2. k - 1 + 1 = k /\ \A i \in 1..k : 1 + i - 1 = i
  OBVIOUS
<1>3. /\ SubSeq(p, 1, k) \in Seq(S)
      /\ Len(SubSeq(p, 1, k)) = (IF 1 <= k THEN k - 1 + 1 ELSE 0)
      /\ \A i \in 1..k - 1 + 1 : SubSeq(p, 1, k)[i] = p[1 + i - 1]
  BY <1>1, SubSeqProperties
<1> QED BY <1>2, <1>3

LEMMA ParentType ==
  ASSUME NEW S, NEW p \in Seq(S)
  PROVE  /\ Parent(p) \in Seq(S)
         /\ p = <<>> => Parent(p) = <<>>
         /\ p # <<>> => /\ Len(Parent(p)) = Len(p) - 1
                        /\ p[Len(p)] \in S
                        /\ p = Append(Parent(p), p[Len(p)])
<1>1. CASE p = <<>>
  <2>1. SubSeq(p, 1, Len(p) - 1) = <<>>
    BY <1>1, SubSeqEmpty
  <2> QED BY <1>1, <2>1 DEF Parent
<1>2. CASE p # <<>>
  <2>1. Len(p) \in Nat \ {0} /\ p[Len(p)] \in S
    BY <1>2, EmptySeq
  <2>2. Len(p) - 1 \in 0..Len(p)
    BY <2>1
  <2>3. Parent(p) \in Seq(S) /\ Len(Parent(p)) = Len(p) - 1
        /\ \A i \in 1..Len(p) - 1 : Parent(p)[i] = p[i]
    BY <2>2, Beginning DEF Parent
  <2>4. Append(Parent(p), p[Len(p)]) \in Seq(S)
    BY <2>1, <2>3
  <2>5. Len(Append(Parent(p), p[Len(p)])) = Len(p)
    BY <2>1, <2>3
  <2>6. \A i \in 1..Len(p) : Append(Parent(p), p[Len(p)])[i] = p[i]
    BY <2>1, <2>3, AppendProperties
  <2>7. p = Append(Parent(p), p[Len(p)])
    BY <2>4, <2>5, <2>6, SeqEqual
  <2> QED BY <1>2, <2>1, <2>3, <2>7
<1> QED BY <1>1, <1>2

LEMMA ParentAppend ==
  ASSUME NEW S, NEW p \in Seq(S), NEW e \in S
  PROVE  /\ Append(p, e) \in Seq(S) /\ Append(p, e) # <<>>
         /\ Parent(Append(p, e)) = p
         /\ Append(p, e)[Len(Append(p, e))] = e
<1>1. /\ Append(p, e) \in Seq(S) /\ Append(p, e) # <<>>
      /\ Len(Append(p, e)) = Len(p) + 1 /\ Append(p, e)[Len(p) + 1] = e
  BY AppendProperties
<1>2. Parent(Append(p, e)) \in Seq(S)
      /\ Append(p, e) = Append(Parent(Append(p, e)), Append(p, e)[Len(Append(p, e))])
  BY <1>1, ParentType
<1>3. Parent(Append(p, e)) = p
  <2> DEFINE q == Parent(Append(p, e))
  <2>1. q \in Seq(S) /\ Append(p, e) = Append(q, e)
    BY <1>1, <1>2
  <2> HIDE DEF q
  <2>2. q = p
    BY <2>1, AppendInjective
  <2> QED BY <2>2 DEF q
<1> QED BY <1>1, <1>3

LEMMA HeadOfConcat ==
  ASSUME NEW S, NEW r \in Seq(S), r # <<>>, NEW q \in Seq(S)
  PROVE  /\ r \o q \in Seq(S) /\ r \o q # <<>>
         /\ Len(r \o q) = Len(r) + Len(q)
         /\ Head(r \o q) = Head(r)
         /\ Tail(r \o q) = Tail(r) \o q
<1>1. Len(r) \in Nat \ {0} /\ Len(q) \in Nat
  BY EmptySeq
<1>2. /\ r \o q \in Seq(S) /\ Len(r \o q) = Len(r) + Len(q)
      /\ \A i \in 1..Len(r) + Len(q) : (r \o q)[i] = IF i <= Len(r) THEN r[i] ELSE q[i - Len(r)]
  BY ConcatProperties
<1>3. r \o q # <<>>
  BY <1>1, <1>2, EmptySeq
<1>4. Head(r \o q) = Head(r)
  BY <1>1, <1>2
<1>5. /\ Tail(r) \in Seq(S) /\ Len(Tail(r)) = Len(r) - 1
      /\ \A i \in 1..Len(Tail(r)) : Tail(r)[i] = r[i + 1]
  BY HeadTailProperties
<1>6. /\ Tail(r \o q) \in Seq(S) /\ Len(Tail(r \o q)) = Len(r \o q) - 1
      /\ \A i \in 1..Len(Tail(r \o q)) : Tail(r \o q)[i] = (r \o q)[i + 1]
  BY <1>2, <1>3, HeadTailProperties
<1>7. /\ Tail(r) \o q \in Seq(S) /\ Len(Tail(r) \o q) = Len(r) - 1 + Len(q)
      /\ \A i \in 1..Len(r) - 1 + Len(q) :
           (Tail(r) \o q)[i] = IF i <= Len(r) - 1 THEN Tail(r)[i] ELSE q[i - (Len(r) - 1)]
  BY <1>5, ConcatProperties
<1>8. Tail(r \o q) = Tail(r) \o q
  <2>1. Len(Tail(r \o q)) = Len(Tail(r) \o q)
    BY <1>1, <1>2, <1>6, <1>7
  <2>2. ASSUME NEW i \in 1..Len(Tail(r \o q))
        PROVE  Tail(r \o q)[i] = (Tail(r) \o q)[i]
    <3>1. i \in 1..Len(r) - 1 + Len(q) /\ i + 1 \in 1..Len(r) + Len(q)
      BY <1>1, <1>2, <1>6
    <3>2. Tail(r \o q)[i] = (r \o q)[i + 1]
      BY <1>6
    <3>3. CASE i + 1 <= Len(r)
      <4>1. (r \o q)[i + 1] = r[i + 1]
        BY <1>2, <3>1, <3>3
      <4>2. i <= Len(r) - 1 /\ i \in 1..Len(Tail(r))
        BY <1>1, <1>5, <3>1, <3>3
      <4>3. (Tail(r) \o q)[i] = Tail(r)[i] /\ Tail(r)[i] = r[i + 1]
        BY <1>5, <1>7, <3>1, <4>2
      <4> QED BY <3>2, <4>1, <4>3
    <3>4. CASE ~(i + 1 <= Len(r))
      <4>1. (r \o q)[i + 1] = q[i + 1 - Len(r)]
        BY <1>2, <3>1, <3>4
      <4>2. ~(i <= Len(r) - 1) /\ i - (Len(r) - 1) = i + 1 - Len(r)
        BY <1>1, <3>1, <3>4
      <4>3. (Tail(r) \o q)[i] = q[i - (Len(r) - 1)]
        BY <1>7, <3>1, <4>2
      <4> QED BY <3>2, <4>1, <4>2, <4>3
    <3> QED BY <3>3, <3>4
  <2> QED BY <1>6, <1>7, <2>1, <2>2, SeqEqual
<1> QED BY <1>2, <1>3, <1>4, <1>8

\* The first name of the rest may be taken along.
LEMMA Shift ==
  ASSUME NEW S, NEW p \in Seq(S), NEW r \in Seq(S), r # <<>>
  PROVE  /\ Append(p, Head(r)) \in Seq(S)
         /\ p \o r = Append(p, Head(r)) \o Tail(r)
<1>1. Head(r) \in S /\ Tail(r) \in Seq(S) /\ <<Head(r)>> \in Seq(S)
  BY HeadTailProperties
<1>2. r = <<Head(r)>> \o Tail(r)
  OBVIOUS
<1>3. (p \o <<Head(r)>>) \o Tail(r) = p \o (<<Head(r)>> \o Tail(r))
  BY <1>1, ConcatAssociative
<1>4. Append(p, Head(r)) = p \o <<Head(r)>> /\ Append(p, Head(r)) \in Seq(S)
  BY <1>1, AppendIsConcat, AppendProperties
<1> QED BY <1>2, <1>3, <1>4, Zenon

LEMMA BeginningOfConcat ==
  ASSUME NEW S, NEW p \in Seq(S), NEW r \in Seq(S)
  PROVE  SubSeq(p \o r, 1, Len(p)) = p
<1>1. /\ p \o r \in Seq(S) /\ Len(p \o r) = Len(p) + Len(r) /\ Len(p) \in Nat /\ Len(r) \in Nat
      /\ \A i \in 1..Len(p) + Len(r) : (p \o r)[i] = IF i <= Len(p) THEN p[i] ELSE r[i - Len(p)]
  BY ConcatProperties
<1>2. Len(p) \in 0..Len(p \o r)
  BY <1>1
<1>3. /\ SubSeq(p \o r, 1, Len(p)) \in Seq(S) /\ Len(SubSeq(p \o r, 1, Len(p))) = Len(p)
      /\ \A i \in 1..Len(p) : SubSeq(p \o r, 1, Len(p))[i] = (p \o r)[i]
  BY <1>1, <1>2, Beginning
<1>4. \A i \in 1..Len(p) : SubSeq(p \o r, 1, Len(p))[i] = p[i]
  BY <1>1, <1>3
<1> QED BY <1>3, <1>4, SeqEqual

LEMMA Cut ==
  ASSUME NEW S, NEW p \in Seq(S), NEW k \in 0..Len(p)
  PROVE  /\ SubSeq(p, 1, k) \in Seq(S) /\ SubSeq(p, k + 1, Len(p)) \in Seq(S)
         /\ p = SubSeq(p, 1, k) \o SubSeq(p, k + 1, Len(p))
         /\ Len(SubSeq(p, k + 1, Len(p))) = Len(p) - k
<1>1. 1 \in 1..Len(p) + 1 /\ k \in 1 - 1..Len(p) /\ Len(p) \in k..Len(p)
  OBVIOUS
<1>2. SubSeq(p, 1, k) \o SubSeq(p, k + 1, Len(p)) = SubSeq(p, 1, Len(p))
  BY <1>1, ConcatAdjacentSubSeq
<1>3. SubSeq(p, 1, Len(p)) = p
  BY SubSeqFull
<1>4. \A i \in k + 1..Len(p) : p[i] \in S
  OBVIOUS
<1>5. /\ SubSeq(p, k + 1, Len(p)) \in Seq(S)
      /\ Len(SubSeq(p, k + 1, Len(p))) = (IF k + 1 <= Len(p) THEN Len(p) - (k + 1) + 1 ELSE 0)
  BY <1>4, SubSeqProperties
<1>6. Len(SubSeq(p, k + 1, Len(p))) = Len(p) - k
  BY <1>5
<1>7. SubSeq(p, 1, k) \in Seq(S)
  BY Beginning
<1>8. SubSeq(p, k + 1, Len(p)) \in Seq(S)
  BY <1>5
<1>9. p = SubSeq(p, 1, k) \o SubSeq(p, k + 1, Len(p))
  BY <1>2, <1>3, Zenon
<1> QED BY <1>6, <1>7, <1>8, <1>9, Zenon

--------------------------------------------------------------------------------
(* Walks.                                                                   *)

LEMMA NamesAreWays ==
  ASSUME NEW p \in Seq(Names)
  PROVE  p \in Seq(Ways)
<1>1. Names \subseteq Ways
  BY DEF Ways
<1> QED BY <1>1, SeqMonotonic

LEMMA WaysAreWords ==
  ASSUME NEW p \in Seq(Ways)
  PROVE  p \in Seq(Words)
<1>1. Ways \subseteq Words
  BY DEF Words
<1> QED BY <1>1, SeqMonotonic

LEMMA WalkType ==
  ASSUME NEW at \in Seq(Names), NEW rest \in Seq(Ways), NEW links \in Nat
  PROVE  From(at, rest, links) \in Walks
BY DEF From, Walks

\* A turn of a walk that has not ended.
Turns(w, v) ==
  /\ v \in Walks
  /\ \/ v.links < w.links
     \/ v.links = w.links /\ v.err # "nil"
     \/ v.links = w.links /\ v.rest = Tail(w.rest)

\* What a turn does makes a walk again.
LEMMA Moves ==
  ASSUME NEW w \in Walks, ~Ended(w)
  PROVE  /\ Turns(w, GoUp(w))
         /\ Head(w.rest) \in Names => Entry(w) \in Seq(Names) /\ Turns(w, Enter(w))
         /\ \A e \in {"missing", "other"} : Turns(w, Fail(w, e))
         /\ /\ IsTree(tree) /\ Kind(Entry(w)) = "link" /\ w.links > 0
            => Turns(w, Follow(w))
<1>1. /\ w.at \in Seq(Names) /\ w.rest \in Seq(Ways) /\ w.links \in Nat /\ w.err = "nil"
      /\ w.rest # <<>>
  BY DEF Ended, Walks
<1>2. Tail(w.rest) \in Seq(Ways)
  BY <1>1, HeadTailProperties
<1>3. Turns(w, GoUp(w))
  <2>1. Parent(w.at) \in Seq(Names)
    BY <1>1, ParentType
  <2> QED BY <1>2, <2>1 DEF GoUp, Walks, Turns
<1>4. ASSUME Head(w.rest) \in Names
      PROVE  Entry(w) \in Seq(Names) /\ Turns(w, Enter(w))
  <2>1. Entry(w) \in Seq(Names)
    BY <1>1, <1>4, AppendProperties DEF Entry
  <2> QED BY <1>2, <2>1 DEF Enter, Walks, Turns
<1>5. ASSUME NEW e \in {"missing", "other"} PROVE Turns(w, Fail(w, e))
  BY DEF Fail, Walks, Turns
<1>6. ASSUME IsTree(tree), Kind(Entry(w)) = "link", w.links > 0
      PROVE  Turns(w, Follow(w))
  <2> DEFINE link == tree[Entry(w)]
  <2>1. link.to \in Seq(Ways)
    BY <1>6, Kinds
  <2> HIDE DEF link
  <2>2. link.to \o Tail(w.rest) \in Seq(Ways)
    BY <1>2, <2>1, ConcatProperties
  <2>3. w.links - 1 \in Nat /\ w.links - 1 < w.links
    BY <1>1, <1>6
  <2>4. (IF link.abs THEN <<>> ELSE w.at) \in Seq(Names)
    BY <1>1, EmptySeq
  <2>5. Follow(w) = From(IF link.abs THEN <<>> ELSE w.at, link.to \o Tail(w.rest), w.links - 1)
    BY DEF Follow, link
  <2>6. Follow(w) \in Walks
    BY <2>2, <2>3, <2>4, <2>5, WalkType, Zenon
  <2>7. Follow(w).links = w.links - 1
    BY <2>5 DEF From
  <2> QED BY <2>3, <2>6, <2>7 DEF Turns
<1> QED BY <1>3, <1>4, <1>5, <1>6

LEMMA HeadIsName ==
  ASSUME NEW w \in Walks, ~Ended(w), Head(w.rest) # ".."
  PROVE  Head(w.rest) \in Names
<1>1. Head(w.rest) \in Ways
  BY HeadTailProperties DEF Ended, Walks
<1> QED BY <1>1 DEF Ways

LEMMA EvalTurns ==
  ASSUME IsTree(tree), NEW w \in Walks, ~Ended(w)
  PROVE  Turns(w, EvalStep(w))
<1>1. CASE Head(w.rest) = ".."
  BY <1>1, Moves DEF EvalStep
<1>2. CASE Head(w.rest) # ".."
  <2>1. Head(w.rest) \in Names
    BY <1>2, HeadIsName
  <2>2. CASE Kind(Entry(w)) = "none"
    <3>1. EvalStep(w) = Fail(w, "missing")
      BY <1>2, <2>2 DEF EvalStep
    <3> QED BY <3>1, Moves
  <2>3. CASE Kind(Entry(w)) = "dir"
    <3>1. EvalStep(w) = Enter(w)
      BY <1>2, <2>3 DEF EvalStep
    <3> QED BY <2>1, <3>1, Moves
  <2>4. CASE Kind(Entry(w)) = "file"
    <3>1. EvalStep(w) \in {Enter(w), Fail(w, "other")}
      BY <1>2, <2>4 DEF EvalStep
    <3> QED BY <2>1, <3>1, Moves
  <2>5. CASE Kind(Entry(w)) = "link"
    <3>1. \/ EvalStep(w) = Fail(w, "other")
          \/ w.links > 0 /\ EvalStep(w) = Follow(w)
      BY <1>2, <2>5 DEF EvalStep
    <3> QED BY <2>5, <3>1, Moves
  <2> QED BY <2>2, <2>3, <2>4, <2>5, Kinds
<1> QED BY <1>1, <1>2

LEMMA RootTurns ==
  ASSUME IsTree(tree), NEW root, NEW w \in Walks, ~Ended(w)
  PROVE  Turns(w, RootStep(root, w))
<1>1. CASE Head(w.rest) = ".."
  <2>1. RootStep(root, w) \in {Fail(w, "other"), GoUp(w)}
    BY <1>1 DEF RootStep
  <2> QED BY <2>1, Moves
<1>2. CASE Head(w.rest) # ".."
  <2>1. Head(w.rest) \in Names
    BY <1>2, HeadIsName
  <2>2. \/ RootStep(root, w) \in {Enter(w), Fail(w, "missing"), Fail(w, "other")}
        \/ Kind(Entry(w)) = "link" /\ w.links > 0 /\ RootStep(root, w) = Follow(w)
    <3>1. CASE Len(w.rest) = 1
      BY <1>2, <3>1 DEF RootStep
    <3>2. CASE Len(w.rest) # 1 /\ Kind(Entry(w)) = "none"
      BY <1>2, <3>2 DEF RootStep
    <3>3. CASE Len(w.rest) # 1 /\ Kind(Entry(w)) = "dir"
      BY <1>2, <3>3 DEF RootStep
    <3>4. CASE Len(w.rest) # 1 /\ Kind(Entry(w)) = "file"
      BY <1>2, <3>4 DEF RootStep
    <3>5. CASE Len(w.rest) # 1 /\ Kind(Entry(w)) = "link"
      BY <1>2, <3>5 DEF RootStep
    <3> QED BY <3>1, <3>2, <3>3, <3>4, <3>5, Kinds
  <2> QED BY <2>1, <2>2, Moves
<1> QED BY <1>1, <1>2

\* Walks end: a turn takes a name of the way, or a link, or is the last.
LEMMA WalkInduction ==
  ASSUME NEW step, NEW J,
         \A w \in Walks : ~Ended(w) => Turns(w, step[w]),
         \A w \in Walks : Ended(w) => w \in J,
         \A w \in Walks : ~Ended(w) /\ step[w] \in J => w \in J
  PROVE  \A w \in Walks : w \in J
<1> DEFINE F == {w \in Walks : Ended(w)}
           m == [w \in Walks |-> w.links]
           n == [w \in Walks |-> IF Ended(w) THEN 0 ELSE Len(w.rest)]
<1>1. m \in [Walks -> Nat] /\ n \in [Walks -> Nat]
  BY DEF Walks
<1>2. ASSUME NEW w \in Walks \ F
      PROVE  /\ step[w] \in Walks
             /\ \/ m[step[w]] < m[w]
                \/ m[step[w]] = m[w] /\ n[step[w]] < n[w]
  <2>1. Turns(w, step[w]) /\ w.rest # <<>> /\ w.rest \in Seq(Ways)
    BY DEF Ended, Walks
  <2> DEFINE v == step[w]
  <2>2. v \in Walks
    BY <2>1 DEF Turns
  <2>3. Len(w.rest) \in Nat \ {0} /\ Len(Tail(w.rest)) = Len(w.rest) - 1
    BY <2>1, EmptySeq, HeadTailProperties
  <2>4. n[w] = Len(w.rest) /\ m[w] = w.links /\ m[v] = v.links
    BY <2>2
  <2>5. CASE v.links < w.links
    BY <2>2, <2>4, <2>5
  <2>6. CASE v.links = w.links /\ v.err # "nil"
    <3>1. n[v] = 0
      BY <2>2, <2>6 DEF Ended
    <3> QED BY <2>2, <2>3, <2>4, <2>6, <3>1
  <2>7. CASE v.links = w.links /\ v.rest = Tail(w.rest)
    <3>1. n[v] \in {0, Len(w.rest) - 1}
      BY <2>2, <2>3, <2>7
    <3> QED BY <2>2, <2>3, <2>4, <2>7, <3>1
  <2> QED BY <2>1, <2>5, <2>6, <2>7 DEF Turns
<1>3. \A w \in Walks : w \in F => w \in J
  OBVIOUS
<1>4. \A w \in Walks \ F : step[w] \in J => w \in J
  OBVIOUS
<1> HIDE DEF F, m, n
<1>5. Falling(Walks, F, step, m, n) /\ Back(Walks, F, step, J)
  BY <1>1, <1>2, <1>3, <1>4 DEF Falling, Back
<1> QED BY <1>5, LoopInduction

LEMMA WalkExists ==
  ASSUME NEW step, \A w \in Walks : ~Ended(w) => Turns(w, step[w])
  PROVE  \E h : h = [w \in Walks |-> IF Ended(w) THEN w ELSE h[step[w]]]
<1> DEFINE F == {w \in Walks : Ended(w)}
<1>1. F \in SUBSET Walks
  OBVIOUS
<1>0. \A w \in Walks \ F : step[w] \in Walks
  BY DEF Turns
<1>2. \A w \in Walks : w \in F <=> Ended(w)
  OBVIOUS
<1> HIDE DEF F
<1>3. PICK h : Loop(h, Walks, F, step)
  BY <1>0, <1>1, LoopExists
<1>4. h = [w \in Walks |-> IF Ended(w) THEN w ELSE h[step[w]]]
  BY <1>2, <1>3 DEF Loop
<1> QED BY <1>4

LEMMA EvalEquation ==
  ASSUME IsTree(tree), NEW w \in Walks
  PROVE  Eval[w] = IF Ended(w) THEN w ELSE Eval[EvalStep(w)]
<1> DEFINE step == [v \in Walks |-> EvalStep(v)]
<1>1. \A v \in Walks : step[v] = EvalStep(v)
  OBVIOUS
<1>2. \A v \in Walks : ~Ended(v) => Turns(v, step[v])
  BY EvalTurns
<1> HIDE DEF step
<1>3. PICK h : h = [v \in Walks |-> IF Ended(v) THEN v ELSE h[step[v]]]
  BY <1>2, WalkExists
<1>4. h = [v \in Walks |-> IF Ended(v) THEN v ELSE h[EvalStep(v)]]
  BY <1>1, <1>3
<1>5. Eval = [v \in Walks |-> IF Ended(v) THEN v ELSE Eval[EvalStep(v)]]
  BY <1>4, Zenon DEF Eval
<1> QED BY <1>5

LEMMA EvalInduction ==
  ASSUME IsTree(tree), NEW J,
         \A w \in Walks : Ended(w) => w \in J,
         \A w \in Walks : ~Ended(w) /\ EvalStep(w) \in J => w \in J
  PROVE  \A w \in Walks : w \in J
<1> DEFINE step == [v \in Walks |-> EvalStep(v)]
<1>1. \A v \in Walks : step[v] = EvalStep(v)
  OBVIOUS
<1>2. \A v \in Walks : ~Ended(v) => Turns(v, step[v])
  BY EvalTurns
<1> HIDE DEF step
<1>3. \A w \in Walks : ~Ended(w) /\ step[w] \in J => w \in J
  BY <1>1
<1> QED BY <1>2, <1>3, WalkInduction

LEMMA RootEquation ==
  ASSUME IsTree(tree), NEW root, NEW w \in Walks
  PROVE  RootWalk(root)[w] = IF Ended(w) THEN w ELSE RootWalk(root)[RootStep(root, w)]
<1> DEFINE step == [v \in Walks |-> RootStep(root, v)]
<1>1. \A v \in Walks : step[v] = RootStep(root, v)
  OBVIOUS
<1>2. \A v \in Walks : ~Ended(v) => Turns(v, step[v])
  BY RootTurns
<1> HIDE DEF step
<1>3. PICK h : h = [v \in Walks |-> IF Ended(v) THEN v ELSE h[step[v]]]
  BY <1>2, WalkExists
<1>4. h = [v \in Walks |-> IF Ended(v) THEN v ELSE h[RootStep(root, v)]]
  BY <1>1, <1>3
<1>5. RootWalk(root) = [v \in Walks |-> IF Ended(v) THEN v ELSE RootWalk(root)[RootStep(root, v)]]
  BY <1>4, Zenon DEF RootWalk
<1> QED BY <1>5

\* The last name of a way may be that of a file; otherwise a walk stands at directories.
FileLast(w) == Head(w.rest) # ".." /\ Len(w.rest) = 1 /\ Kind(Entry(w)) = "file"

LEMMA EvalAt ==
  ASSUME IsTree(tree), NEW w \in Walks, ~Ended(w), Kind(w.at) = "dir"
  PROVE  /\ ~FileLast(w) => Kind(EvalStep(w).at) = "dir"
         /\ FileLast(w) => /\ EvalStep(w) = Enter(w) /\ Ended(Enter(w)) /\ Enter(w).err = "nil"
                           /\ Enter(w).at = Entry(w) /\ Enter(w).rest = <<>>
<1> DEFINE n == EvalStep(w)
<1>1. /\ w.at \in Seq(Names) /\ w.rest \in Seq(Ways) /\ w.links \in Nat /\ w.err = "nil"
      /\ w.rest # <<>>
  BY DEF Ended, Walks
<1>2. CASE Head(w.rest) = ".."
  <2>1. n.at = Parent(w.at)
    BY <1>2 DEF EvalStep, GoUp, Walks
  <2>2. Kind(Parent(w.at)) = "dir"
    <3>1. CASE w.at = <<>>
      BY <1>1, <3>1, ParentType
    <3>2. CASE w.at # <<>>
      <4>1. Len(w.at) - 1 \in 0..Len(w.at) - 1
        BY <1>1, <3>2
      <4> QED BY <4>1, AboveIsDir DEF Parent
    <3> QED BY <3>1, <3>2
  <2> QED BY <1>2, <2>1, <2>2 DEF FileLast
<1>3. CASE Head(w.rest) # ".." /\ Kind(Entry(w)) = "none"
  <2>1. n = Fail(w, "missing")
    BY <1>3 DEF EvalStep
  <2> QED BY <1>3, <2>1 DEF Fail, Walks, FileLast
<1>4. CASE Head(w.rest) # ".." /\ Kind(Entry(w)) = "dir"
  <2>1. n = Enter(w)
    BY <1>4 DEF EvalStep
  <2>2. n.at = Entry(w)
    BY <2>1 DEF Enter, Walks
  <2> QED BY <1>4, <2>2 DEF FileLast
<1>5. CASE Head(w.rest) # ".." /\ Kind(Entry(w)) = "file" /\ Len(w.rest) # 1
  <2>1. n = Fail(w, "other")
    BY <1>5 DEF EvalStep
  <2> QED BY <1>5, <2>1 DEF Fail, Walks, FileLast
<1>6. CASE FileLast(w)
  <2>1. n = Enter(w)
    BY <1>6 DEF EvalStep, FileLast
  <2>2. Enter(w).at = Entry(w) /\ Enter(w).rest = Tail(w.rest) /\ Enter(w).err = "nil"
    BY <1>1 DEF Enter, Walks
  <2>3. Tail(w.rest) \in Seq(Ways) /\ Len(Tail(w.rest)) = 0
    BY <1>1, <1>6, HeadTailProperties DEF FileLast
  <2>4. Tail(w.rest) = <<>>
    BY <2>3, EmptySeq
  <2> QED BY <1>6, <2>1, <2>2, <2>4 DEF Ended
<1>7. CASE Head(w.rest) # ".." /\ Kind(Entry(w)) = "link"
  <2>1. CASE w.links > 0
    <3>1. n = Follow(w)
      BY <1>7, <2>1 DEF EvalStep
    <3>2. n.at = <<>> \/ n.at = w.at
      BY <3>1 DEF Follow, From
    <3> QED BY <1>7, <3>2, RootIsDir DEF FileLast
  <2>2. CASE ~(w.links > 0)
    <3>1. n = Fail(w, "other")
      BY <1>7, <2>2 DEF EvalStep
    <3> QED BY <1>7, <3>1 DEF Fail, Walks, FileLast
  <2> QED BY <2>1, <2>2
<1> QED BY <1>2, <1>3, <1>4, <1>5, <1>6, <1>7, Kinds DEF FileLast

\* Where a walk ends: its way is done, at an entry, or it has an error.
Good(e, n) == /\ e \in Walks /\ Ended(e) /\ e.links <= n
              /\ e.err = "nil" => e.rest = <<>> /\ Kind(e.at) \in {"dir", "file"}

LEMMA EvalEnds ==
  ASSUME IsTree(tree), NEW w \in Walks, Kind(w.at) = "dir"
  PROVE  Good(Eval[w], w.links)
<1> DEFINE J == {v \in Walks : Kind(v.at) = "dir" => Good(Eval[v], v.links)}
<1>1. ASSUME NEW v \in Walks, Ended(v) PROVE v \in J
  <2>1. Eval[v] = v
    BY <1>1, EvalEquation
  <2> QED BY <1>1, <2>1 DEF Ended, Walks, Good
<1>2. ASSUME NEW v \in Walks, ~Ended(v), EvalStep(v) \in J PROVE v \in J
  <2>1. SUFFICES ASSUME Kind(v.at) = "dir" PROVE Good(Eval[v], v.links)
    OBVIOUS
  <2> DEFINE n == EvalStep(v)
  <2>2. Eval[v] = Eval[n]
    BY <1>2, EvalEquation
  <2>3. n \in Walks /\ Turns(v, n)
    BY <1>2, EvalTurns DEF Turns
  <2>4. v.links \in Nat /\ n.links \in Nat /\ n.links <= v.links
    BY <2>3 DEF Turns, Walks
  <2>5. Good(Eval[n], n.links)
    <3>1. CASE ~FileLast(v)
      BY <1>2, <2>1, <3>1, EvalAt
    <3>2. CASE FileLast(v)
      <4>1. n = Enter(v) /\ Ended(n) /\ n.rest = <<>> /\ Kind(n.at) = "file"
        BY <1>2, <2>1, <3>2, EvalAt DEF FileLast
      <4>2. Eval[n] = n
        BY <2>3, <4>1, EvalEquation
      <4> QED BY <2>3, <2>4, <4>1, <4>2 DEF Good
    <3> QED BY <3>1, <3>2
  <2> HIDE DEF n
  <2>6. Eval[n].links \in Nat
    BY <2>5 DEF Walks, Good
  <2> QED BY <2>2, <2>4, <2>5, <2>6 DEF Good
<1>3. \A v \in Walks : v \in J
  <2> HIDE DEF J
  <2> QED BY <1>1, <1>2, EvalInduction
<1> QED BY <1>3

\* A walk that has more before it.
With(w, q) == [w EXCEPT !.rest = w.rest \o q]

LEMMA WithType ==
  ASSUME NEW w \in Walks, NEW q \in Seq(Ways)
  PROVE  /\ With(w, q) \in Walks
         /\ With(w, q).at = w.at /\ With(w, q).links = w.links /\ With(w, q).err = w.err
         /\ With(w, q).rest = w.rest \o q
<1>1. w.rest \o q \in Seq(Ways)
  BY ConcatProperties DEF Walks
<1> QED BY <1>1 DEF With, Walks

LEMMA WithMoves ==
  ASSUME NEW w \in Walks, ~Ended(w), NEW q \in Seq(Ways)
  PROVE  LET v == With(w, q) IN
         /\ ~Ended(v) /\ Head(v.rest) = Head(w.rest) /\ Entry(v) = Entry(w)
         /\ Len(v.rest) = Len(w.rest) + Len(q)
         /\ Enter(v) = With(Enter(w), q)
         /\ GoUp(v) = With(GoUp(w), q)
         /\ \A e \in {"missing", "other"} : Fail(v, e) = With(Fail(w, e), q)
<1> DEFINE v == With(w, q)
<1>1. /\ w.at \in Seq(Names) /\ w.rest \in Seq(Ways) /\ w.links \in Nat /\ w.err = "nil"
      /\ w.rest # <<>>
  BY DEF Ended, Walks
<1>2. /\ v \in Walks
      /\ v.at = w.at /\ v.links = w.links /\ v.err = w.err /\ v.rest = w.rest \o q
  BY WithType
<1> HIDE DEF v
<1>3. /\ v.rest # <<>> /\ Len(v.rest) = Len(w.rest) + Len(q)
      /\ Head(v.rest) = Head(w.rest) /\ Tail(v.rest) = Tail(w.rest) \o q
  <2> DEFINE r == w.rest
  <2>1. r \in Seq(Ways) /\ r # <<>>
    BY <1>1
  <2> HIDE DEF r
  <2>2. /\ r \o q # <<>> /\ Len(r \o q) = Len(r) + Len(q)
        /\ Head(r \o q) = Head(r) /\ Tail(r \o q) = Tail(r) \o q
    BY <2>1, HeadOfConcat
  <2> QED BY <1>2, <2>2 DEF r
<1>4. ~Ended(v)
  BY <1>1, <1>2, <1>3 DEF Ended
<1>5. Entry(v) = Entry(w)
  BY <1>2, <1>3 DEF Entry
<1>6. Enter(v) = With(Enter(w), q)
  BY <1>2, <1>3, <1>5 DEF Enter, With, Walks
<1>7. GoUp(v) = With(GoUp(w), q)
  BY <1>2, <1>3 DEF GoUp, With, Walks
<1>8. ASSUME NEW e \in {"missing", "other"} PROVE Fail(v, e) = With(Fail(w, e), q)
  BY <1>2 DEF Fail, With, Walks
<1> QED BY <1>3, <1>4, <1>5, <1>6, <1>7, <1>8 DEF v

LEMMA WithFollow ==
  ASSUME IsTree(tree), NEW w \in Walks, ~Ended(w), Kind(Entry(w)) = "link", w.links > 0,
         NEW q \in Seq(Ways)
  PROVE  Follow(With(w, q)) = With(Follow(w), q)
<1> DEFINE v == With(w, q)
           link == tree[Entry(w)]
           a == IF link.abs THEN <<>> ELSE w.at
<1>1. w.at \in Seq(Names) /\ w.rest \in Seq(Ways) /\ w.links \in Nat /\ w.rest # <<>>
  BY DEF Ended, Walks
<1>2. v.at = w.at /\ v.links = w.links /\ v.rest = w.rest \o q /\ Entry(v) = Entry(w)
  BY WithType, WithMoves
<1>3. Tail(v.rest) = Tail(w.rest) \o q /\ Tail(w.rest) \in Seq(Ways)
  <2> DEFINE r == w.rest
  <2>1. r \in Seq(Ways) /\ r # <<>>
    BY <1>1
  <2> HIDE DEF r, v
  <2>2. Tail(r \o q) = Tail(r) \o q /\ Tail(r) \in Seq(Ways)
    BY <2>1, HeadOfConcat, HeadTailProperties
  <2> QED BY <1>2, <2>2 DEF r
<1>4. link.to \in Seq(Ways)
  BY Kinds
<1>5. (link.to \o Tail(w.rest)) \o q = link.to \o (Tail(w.rest) \o q)
  <2> DEFINE x == link.to
             y == Tail(w.rest)
  <2>1. x \in Seq(Ways) /\ y \in Seq(Ways)
    BY <1>3, <1>4
  <2> HIDE DEF x, y
  <2>2. (x \o y) \o q = x \o (y \o q)
    BY <2>1, ConcatAssociative
  <2> QED BY <2>2 DEF x, y
<1>6. Follow(v) = From(a, link.to \o Tail(v.rest), w.links - 1)
  BY <1>2 DEF Follow
<1>7. Follow(w) = From(a, link.to \o Tail(w.rest), w.links - 1)
  BY DEF Follow
<1> HIDE DEF v, link, a
<1>8. With(Follow(w), q) = From(a, (link.to \o Tail(w.rest)) \o q, w.links - 1)
  <2>1. From(a, link.to \o Tail(w.rest), w.links - 1).rest = link.to \o Tail(w.rest)
    BY DEF From
  <2>2. \A x, y : [From(a, x, w.links - 1) EXCEPT !.rest = y] = From(a, y, w.links - 1)
    BY DEF From
  <2> QED BY <1>7, <2>1, <2>2, Zenon DEF With
<1> QED BY <1>3, <1>5, <1>6, <1>8, Zenon DEF v

\* A turn is the same with more behind it, if it does not enter a file.
LEMMA WithTurn ==
  ASSUME IsTree(tree), NEW w \in Walks, ~Ended(w), NEW q \in Seq(Ways)
  PROVE  LET v == With(w, q) IN
         /\ ~FileLast(w) => EvalStep(v) = With(EvalStep(w), q)
         /\ FileLast(w) /\ q # <<>> => EvalStep(v) = Fail(v, "other")
<1> DEFINE v == With(w, q)
<1>1. /\ v \in Walks /\ ~Ended(v) /\ v.links = w.links /\ Head(v.rest) = Head(w.rest)
      /\ Entry(v) = Entry(w) /\ Len(v.rest) = Len(w.rest) + Len(q)
      /\ Enter(v) = With(Enter(w), q) /\ GoUp(v) = With(GoUp(w), q)
      /\ Fail(v, "missing") = With(Fail(w, "missing"), q)
      /\ Fail(v, "other") = With(Fail(w, "other"), q)
  BY WithType, WithMoves
<1>2. Len(w.rest) \in Nat \ {0} /\ Len(q) \in Nat /\ (q # <<>> => Len(q) # 0)
  BY EmptySeq DEF Ended, Walks
<1>3. Kind(Entry(w)) = "link" /\ w.links > 0 => Follow(v) = With(Follow(w), q)
  BY WithFollow
<1> HIDE DEF v
<1>4. CASE Head(w.rest) = ".."
  BY <1>1, <1>4 DEF EvalStep, FileLast, v
<1>5. CASE Head(w.rest) # ".." /\ Kind(Entry(w)) = "none"
  <2>1. EvalStep(w) = Fail(w, "missing") /\ EvalStep(v) = Fail(v, "missing")
    BY <1>1, <1>5 DEF EvalStep
  <2> QED BY <1>1, <1>5, <2>1 DEF FileLast, v
<1>6. CASE Head(w.rest) # ".." /\ Kind(Entry(w)) = "dir"
  <2>1. EvalStep(w) = Enter(w) /\ EvalStep(v) = Enter(v)
    BY <1>1, <1>6 DEF EvalStep
  <2> QED BY <1>1, <1>6, <2>1 DEF FileLast, v
<1>7. CASE Head(w.rest) # ".." /\ Kind(Entry(w)) = "file"
  <2>1. CASE Len(w.rest) = 1
    <3>1. FileLast(w)
      BY <1>7, <2>1 DEF FileLast
    <3>2. ASSUME q # <<>> PROVE EvalStep(v) = Fail(v, "other")
      <4>1. Len(v.rest) # 1
        BY <1>1, <1>2, <2>1, <3>2
      <4> QED BY <1>1, <1>7, <4>1 DEF EvalStep
    <3> QED BY <3>1, <3>2 DEF v
  <2>2. CASE Len(w.rest) # 1
    <3>1. EvalStep(w) = Fail(w, "other")
      BY <1>7, <2>2 DEF EvalStep
    <3>2. Len(v.rest) # 1
      <4> DEFINE a == Len(w.rest)
                 b == Len(q)
      <4>1. a \in Nat \ {0} /\ b \in Nat /\ a # 1 /\ Len(v.rest) = a + b
        BY <1>1, <1>2, <2>2
      <4> HIDE DEF a, b
      <4> QED BY <4>1
    <3>3. EvalStep(v) = Fail(v, "other")
      BY <1>1, <1>7, <3>2 DEF EvalStep
    <3> QED BY <1>1, <2>2, <3>1, <3>3 DEF FileLast, v
  <2> QED BY <2>1, <2>2
<1>8. CASE Head(w.rest) # ".." /\ Kind(Entry(w)) = "link"
  <2>1. CASE w.links > 0
    <3>1. EvalStep(w) = Follow(w) /\ EvalStep(v) = Follow(v)
      BY <1>1, <1>8, <2>1 DEF EvalStep
    <3> QED BY <1>3, <1>8, <2>1, <3>1 DEF FileLast, v
  <2>2. CASE ~(w.links > 0)
    <3>1. EvalStep(w) = Fail(w, "other") /\ EvalStep(v) = Fail(v, "other")
      BY <1>1, <1>8, <2>2 DEF EvalStep
    <3> QED BY <1>1, <1>8, <3>1 DEF FileLast, v
  <2> QED BY <2>1, <2>2
<1> QED BY <1>4, <1>5, <1>6, <1>7, <1>8, Kinds

\* A walk with more behind it goes where it goes without, and on from there.
Lock(w, q) ==
  LET e == Eval[w]
      u == Eval[With(w, q)]
  IN /\ e.err # "nil" => u.err = e.err
     /\ e.err = "nil" /\ Kind(e.at) = "dir" => u = Eval[With(e, q)]
     /\ e.err = "nil" /\ Kind(e.at) = "file" => u.err = "other"

LEMMA Lockstep ==
  ASSUME IsTree(tree), NEW w \in Walks, Kind(w.at) = "dir", NEW q \in Seq(Ways), q # <<>>
  PROVE  Lock(w, q)
<1> DEFINE J == {v \in Walks : Kind(v.at) = "dir" => Lock(v, q)}
<1>1. ASSUME NEW v \in Walks, Ended(v) PROVE v \in J
  <2>1. SUFFICES ASSUME Kind(v.at) = "dir" PROVE Lock(v, q)
    OBVIOUS
  <2>2. Eval[v] = v
    BY <1>1, EvalEquation
  <2>3. With(v, q) \in Walks /\ With(v, q).err = v.err
    BY WithType
  <2>4. v.err # "nil" => Eval[With(v, q)] = With(v, q)
    BY <2>3, EvalEquation DEF Ended
  <2> QED BY <2>1, <2>2, <2>3, <2>4 DEF Lock
<1>2. ASSUME NEW v \in Walks, ~Ended(v), EvalStep(v) \in J PROVE v \in J
  <2>1. SUFFICES ASSUME Kind(v.at) = "dir" PROVE Lock(v, q)
    OBVIOUS
  <2>2. With(v, q) \in Walks /\ ~Ended(With(v, q))
    BY <1>2, WithType, WithMoves
  <2>3. Eval[v] = Eval[EvalStep(v)] /\ Eval[With(v, q)] = Eval[EvalStep(With(v, q))]
    BY <1>2, <2>2, EvalEquation
  <2>4. EvalStep(v) \in Walks
    BY <1>2, EvalTurns DEF Turns
  <2>5. CASE ~FileLast(v)
    <3>1. Kind(EvalStep(v).at) = "dir" /\ EvalStep(With(v, q)) = With(EvalStep(v), q)
      BY <1>2, <2>1, <2>5, EvalAt, WithTurn
    <3>2. Lock(EvalStep(v), q)
      BY <1>2, <3>1
    <3> QED BY <2>3, <3>1, <3>2 DEF Lock
  <2>6. CASE FileLast(v)
    <3>1. EvalStep(v) = Enter(v) /\ Ended(Enter(v)) /\ Enter(v).err = "nil" /\ Enter(v).at = Entry(v)
      BY <1>2, <2>1, <2>6, EvalAt
    <3>2. Eval[v] = Enter(v)
      BY <2>3, <2>4, <3>1, EvalEquation
    <3>3. Kind(Eval[v].at) = "file"
      BY <2>6, <3>1, <3>2 DEF FileLast
    <3>4. EvalStep(With(v, q)) = Fail(With(v, q), "other")
      BY <1>2, <2>6, WithTurn
    <3>5. Fail(With(v, q), "other") \in Walks /\ Fail(With(v, q), "other").err = "other"
      BY <2>2 DEF Fail, Walks
    <3>6. Eval[With(v, q)].err = "other"
      BY <2>3, <3>4, <3>5, EvalEquation DEF Ended
    <3> QED BY <3>1, <3>2, <3>3, <3>6 DEF Lock
  <2> QED BY <2>5, <2>6
<1>3. \A v \in Walks : v \in J
  <2> HIDE DEF J
  <2> QED BY <1>1, <1>2, EvalInduction
<1> QED BY <1>3

\* Links are of no use to a walk that leads to nothing.
More(w, n) == [w EXCEPT !.links = n]

LEMMA MoreTurn ==
  ASSUME IsTree(tree), NEW w \in Walks, ~Ended(w), EvalStep(w).err # "other",
         NEW n \in Nat, w.links <= n
  PROVE  /\ More(w, n) \in Walks /\ ~Ended(More(w, n))
         /\ \E m \in Nat : /\ EvalStep(w).links <= m
                           /\ EvalStep(More(w, n)) = More(EvalStep(w), m)
<1> DEFINE v == More(w, n)
<1>1. /\ w.links \in Nat
      /\ v.at = w.at /\ v.rest = w.rest /\ v.err = w.err /\ v.links = n /\ v \in Walks
  BY DEF More, Walks
<1>2. ~Ended(v) /\ Entry(v) = Entry(w) /\ (\A e : Fail(w, e).err = e)
  BY <1>1 DEF Ended, Entry, Fail, Walks
<1>3. /\ GoUp(v) = More(GoUp(w), n) /\ GoUp(w).links = w.links
      /\ Enter(v) = More(Enter(w), n) /\ Enter(w).links = w.links
      /\ Fail(v, "missing") = More(Fail(w, "missing"), n) /\ Fail(w, "missing").links = w.links
  BY <1>1, <1>2 DEF GoUp, Enter, Fail, More, Walks
<1>4. Follow(v) = More(Follow(w), n - 1) /\ Follow(w).links = w.links - 1
  <2> DEFINE a == IF tree[Entry(w)].abs THEN <<>> ELSE w.at
             x == tree[Entry(w)].to \o Tail(w.rest)
  <2>1. Follow(w) = From(a, x, w.links - 1)
    BY DEF Follow
  <2>2. Follow(v) = From(a, x, n - 1)
    <3> HIDE DEF v
    <3> QED BY <1>1, <1>2 DEF Follow
  <2> HIDE DEF a, x
  <2>3. \A k, m : More(From(a, x, k), m) = From(a, x, m) /\ From(a, x, k).links = k
    BY DEF More, From
  <2>4. More(Follow(w), n - 1) = From(a, x, n - 1)
    BY <2>1, <2>3, Zenon
  <2>5. Follow(w).links = w.links - 1
    BY <2>1, <2>3, Zenon
  <2> QED BY <2>2, <2>4, <2>5, Zenon
<1> HIDE DEF v
<1>5. CASE Head(w.rest) = ".."
  <2>1. EvalStep(w) = GoUp(w) /\ EvalStep(v) = GoUp(v)
    BY <1>1, <1>5 DEF EvalStep
  <2> QED BY <1>1, <1>2, <1>3, <2>1 DEF v
<1>6. CASE Head(w.rest) # ".." /\ Kind(Entry(w)) = "none"
  <2>1. EvalStep(w) = Fail(w, "missing") /\ EvalStep(v) = Fail(v, "missing")
    BY <1>1, <1>2, <1>6 DEF EvalStep
  <2> QED BY <1>1, <1>2, <1>3, <2>1 DEF v
<1>7. CASE Head(w.rest) # ".." /\ (Kind(Entry(w)) = "dir" \/ Kind(Entry(w)) = "file")
  <2>1. EvalStep(w) = Enter(w) /\ EvalStep(v) = Enter(v)
    BY <1>1, <1>2, <1>7 DEF EvalStep
  <2> QED BY <1>1, <1>2, <1>3, <2>1 DEF v
<1>8. CASE Head(w.rest) # ".." /\ Kind(Entry(w)) = "link"
  <2>1. w.links > 0
    BY <1>2, <1>8 DEF EvalStep
  <2>2. EvalStep(w) = Follow(w)
    BY <1>8, <2>1 DEF EvalStep
  <2>3. n > 0 /\ n - 1 \in Nat /\ w.links - 1 <= n - 1
    BY <1>1, <2>1
  <2>4. EvalStep(v) = Follow(v)
    BY <1>1, <1>2, <1>8, <2>3 DEF EvalStep
  <2> QED BY <1>1, <1>2, <1>4, <2>2, <2>3, <2>4 DEF v
<1> QED BY <1>5, <1>6, <1>7, <1>8, Kinds

LEMMA MoreLinks ==
  ASSUME IsTree(tree), NEW w \in Walks, Eval[w].err = "missing", NEW n \in Nat, w.links <= n
  PROVE  Eval[More(w, n)].err = "missing"
<1> DEFINE Still(v) == Eval[v].err = "missing"
                       => \A m \in Nat : v.links <= m => Eval[More(v, m)].err = "missing"
           J == {v \in Walks : Still(v)}
<1>1. ASSUME NEW v \in Walks, Ended(v) PROVE v \in J
  <2>1. SUFFICES ASSUME Eval[v].err = "missing", NEW m \in Nat
                 PROVE  Eval[More(v, m)].err = "missing"
    OBVIOUS
  <2>2. Eval[v] = v
    BY <1>1, EvalEquation
  <2>3. More(v, m) \in Walks /\ More(v, m).err = v.err
    BY DEF More, Walks
  <2>4. Eval[More(v, m)] = More(v, m)
    BY <2>1, <2>2, <2>3, EvalEquation DEF Ended
  <2> QED BY <2>1, <2>2, <2>3, <2>4
<1>2. ASSUME NEW v \in Walks, ~Ended(v), EvalStep(v) \in J PROVE v \in J
  <2>1. SUFFICES ASSUME Eval[v].err = "missing", NEW m \in Nat, v.links <= m
                 PROVE  Eval[More(v, m)].err = "missing"
    OBVIOUS
  <2>2. Eval[v] = Eval[EvalStep(v)] /\ EvalStep(v) \in Walks
    BY <1>2, EvalEquation, EvalTurns DEF Turns
  <2>3. EvalStep(v).err # "other"
    BY <2>1, <2>2, EvalEquation DEF Ended
  <2>4. PICK k \in Nat : /\ EvalStep(v).links <= k
                         /\ EvalStep(More(v, m)) = More(EvalStep(v), k)
    BY <1>2, <2>1, <2>3, MoreTurn
  <2>5. More(v, m) \in Walks /\ ~Ended(More(v, m))
    BY <1>2, <2>1, <2>3, MoreTurn
  <2>6. Eval[More(v, m)] = Eval[More(EvalStep(v), k)]
    BY <2>4, <2>5, EvalEquation
  <2> QED BY <1>2, <2>1, <2>2, <2>4, <2>6
<1>3. \A v \in Walks : v \in J
  <2> HIDE DEF J
  <2> QED BY <1>1, <1>2, EvalInduction
<1> QED BY <1>3

\* An entry has itself as its canonical name: no link leads to it.
LEMMA Straight ==
  ASSUME IsTree(tree), ".." \notin Names, NEW w \in Walks, w.err = "nil", w.rest \in Seq(Names),
         Kind(w.at \o w.rest) \in {"dir", "file"}
  PROVE  Eval[w] = From(w.at \o w.rest, <<>>, w.links)
<1> DEFINE To(v) == From(v.at \o v.rest, <<>>, v.links)
           Here(v) == /\ v.err = "nil" /\ v.rest \in Seq(Names)
                      /\ Kind(v.at \o v.rest) \in {"dir", "file"}
           J == {v \in Walks : Here(v) => Eval[v] = To(v)}
<1>1. ASSUME NEW v \in Walks, Ended(v) PROVE v \in J
  <2>1. SUFFICES ASSUME Here(v) PROVE Eval[v] = To(v)
    OBVIOUS
  <2>2. Eval[v] = v /\ v.rest = <<>> /\ v.err = "nil" /\ v.at \in Seq(Names)
    BY <1>1, <2>1, EvalEquation DEF Ended, Walks
  <2>3. v.at \o <<>> = v.at
    BY <2>2, ConcatEmptySeq
  <2>4. v = From(v.at, <<>>, v.links)
    BY <2>2 DEF From, Walks
  <2> QED BY <2>2, <2>3, <2>4
<1>2. ASSUME NEW v \in Walks, ~Ended(v), EvalStep(v) \in J PROVE v \in J
  <2>1. SUFFICES ASSUME Here(v) PROVE Eval[v] = To(v)
    OBVIOUS
  <2>2. /\ v.at \in Seq(Names) /\ v.rest \in Seq(Names) /\ v.rest # <<>>
        /\ v.links \in Nat /\ v.err = "nil"
    BY <1>2, <2>1 DEF Ended, Walks
  <2>3. /\ Entry(v) \in Seq(Names) /\ Tail(v.rest) \in Seq(Names)
        /\ v.at \o v.rest = Entry(v) \o Tail(v.rest)
    BY <2>2, Shift, HeadTailProperties DEF Entry
  <2>4. Head(v.rest) \in Names /\ Head(v.rest) # ".."
    BY <2>2, HeadTailProperties
  <2>5. \/ Kind(Entry(v)) = "dir"
        \/ Kind(Entry(v)) = "file" /\ Len(v.rest) = 1
    <3>1. Len(v.rest) \in Nat \ {0} /\ Len(Tail(v.rest)) = Len(v.rest) - 1
      BY <2>2, EmptySeq, HeadTailProperties
    <3>2. CASE Len(v.rest) = 1
      <4>1. Tail(v.rest) = <<>>
        <5>1. Len(Tail(v.rest)) = 0
          BY <3>1, <3>2
        <5> QED BY <2>3, <5>1, EmptySeq
      <4>2. Entry(v) \o <<>> = Entry(v)
        BY <2>3, ConcatEmptySeq
      <4> QED BY <2>1, <2>3, <3>2, <4>1, <4>2
    <3>3. CASE Len(v.rest) # 1
      <4> DEFINE p == Entry(v) \o Tail(v.rest)
                 k == Len(Entry(v))
      <4>1. /\ k \in Nat /\ Len(p) = k + Len(Tail(v.rest)) /\ SubSeq(p, 1, k) = Entry(v)
        BY <2>3, ConcatProperties, BeginningOfConcat
      <4>2. k \in 0..Len(p) - 1
        <5> HIDE DEF p, k
        <5> DEFINE t == Len(v.rest)
        <5>1. t \in Nat \ {0} /\ t # 1 /\ Len(p) = k + (t - 1) /\ k \in Nat
          BY <3>1, <3>3, <4>1
        <5> HIDE DEF t
        <5> QED BY <5>1
      <4>3. Kind(p) # "none"
        BY <2>1, <2>3
      <4>4. Kind(SubSeq(p, 1, k)) = "dir"
        <5> HIDE DEF p, k
        <5> QED BY <4>2, <4>3, AboveIsDir
      <4> QED BY <4>1, <4>4
    <3> QED BY <3>2, <3>3
  <2>6. EvalStep(v) = Enter(v)
    BY <2>4, <2>5 DEF EvalStep
  <2>7. /\ Enter(v).at = Entry(v) /\ Enter(v).rest = Tail(v.rest) /\ Enter(v).err = "nil"
        /\ Enter(v).links = v.links
    BY <2>2 DEF Enter, Walks
  <2>8. Here(Enter(v)) /\ To(Enter(v)) = To(v)
    BY <2>1, <2>3, <2>7
  <2>9. Eval[v] = Eval[Enter(v)]
    BY <1>2, <2>6, EvalEquation
  <2> QED BY <1>2, <2>6, <2>8, <2>9
<1>3. \A v \in Walks : v \in J
  <2> HIDE DEF J
  <2> QED BY <1>1, <1>2, EvalInduction
<1> QED BY <1>3

\* The handle of a root goes where EvalSymlinks goes, but for the last name, or not at all.
Same(root, w, l) ==
  LET found == RootWalk(root)[With(w, <<l>>)]
      e     == Eval[w]
  IN /\ found.err = "nil" => e.err = "nil" /\ found.at = Append(e.at, l)
     /\ found.err = "missing" => e.err = "missing"
     /\ found.err \in {"nil", "missing", "other"}

LEMMA RootSame ==
  ASSUME IsTree(tree), ".." \notin Names, NEW root, NEW w \in Walks, w.err = "nil", NEW l \in Names
  PROVE  Same(root, w, l)
<1> DEFINE J == {v \in Walks : v.err = "nil" => Same(root, v, l)}
<1>q. <<l>> \in Seq(Ways) /\ <<l>> # <<>> /\ Len(<<l>>) = 1
  BY DEF Ways
<1>1. ASSUME NEW v \in Walks, Ended(v) PROVE v \in J
  <2>1. SUFFICES ASSUME v.err = "nil" PROVE Same(root, v, l)
    OBVIOUS
  <2>2. Eval[v] = v /\ v.rest = <<>> /\ v.at \in Seq(Names) /\ v.links \in Nat
    BY <1>1, <2>1, EvalEquation DEF Ended, Walks
  <2> DEFINE u == With(v, <<l>>)
  <2>3. u \in Walks /\ u.at = v.at /\ u.err = "nil" /\ u.rest = <<l>>
    BY <1>q, <2>1, <2>2, WithType, ConcatEmptySeq
  <2> HIDE DEF u
  <2>4. ~Ended(u) /\ Head(u.rest) = l /\ Len(u.rest) = 1 /\ Tail(u.rest) = <<>>
    BY <2>3 DEF Ended
  <2>5. RootStep(root, u) = Enter(u)
    BY <2>4 DEF RootStep
  <2>6. Enter(u) \in Walks
    BY <2>4, <2>5, <2>3, RootTurns DEF Turns
  <2>7. Enter(u).at = Append(v.at, l) /\ Enter(u).rest = <<>> /\ Enter(u).err = "nil"
    BY <2>3, <2>4 DEF Enter, Entry, Walks
  <2>8. RootWalk(root)[u] = Enter(u)
    BY <2>3, <2>4, <2>5, <2>6, <2>7, RootEquation DEF Ended
  <2> QED BY <2>1, <2>2, <2>7, <2>8 DEF Same, u
<1>2. ASSUME NEW v \in Walks, ~Ended(v), EvalStep(v) \in J PROVE v \in J
  <2>1. SUFFICES Same(root, v, l)
    OBVIOUS
  <2> DEFINE u == With(v, <<l>>)
             n == EvalStep(v)
  <2>2. /\ u \in Walks /\ ~Ended(u) /\ u.links = v.links /\ u.at = v.at
        /\ Head(u.rest) = Head(v.rest) /\ Entry(u) = Entry(v) /\ Len(u.rest) = Len(v.rest) + 1
        /\ Enter(u) = With(Enter(v), <<l>>) /\ GoUp(u) = With(GoUp(v), <<l>>)
    BY <1>2, <1>q, WithType, WithMoves
  <2>3. Len(v.rest) \in Nat \ {0} /\ v.err = "nil"
    BY <1>2, EmptySeq DEF Ended, Walks
  <2>4. n \in Walks /\ Eval[v] = Eval[n]
    BY <1>2, EvalTurns, EvalEquation DEF Turns
  <2>5. RootWalk(root)[u] = RootWalk(root)[RootStep(root, u)] /\ RootStep(root, u) \in Walks
    BY <2>2, RootEquation, RootTurns DEF Turns
  <2>6. n.err = "nil" => Same(root, n, l)
    BY <1>2
  <2>7. ASSUME RootStep(root, u) = Fail(u, "other") PROVE Same(root, v, l)
    <3>1. Fail(u, "other").err = "other"
      BY <2>2 DEF Fail, Walks
    <3>2. RootWalk(root)[u].err = "other"
      BY <2>5, <2>7, <3>1, RootEquation DEF Ended
    <3> QED BY <3>2 DEF Same, u
  <2>8. ASSUME RootStep(root, u) = With(n, <<l>>), n.err = "nil" PROVE Same(root, v, l)
    BY <2>4, <2>5, <2>6, <2>8 DEF Same, u
  <2>9. Len(u.rest) # 1
    <3> HIDE DEF u
    <3>1. Len(u.rest) = Len(v.rest) + 1
      BY <2>2
    <3> QED BY <2>3, <3>1
  <2>10. GoUp(v).err = "nil" /\ Enter(v).err = "nil" /\ Follow(v).err = "nil"
    BY <2>3 DEF GoUp, Enter, Follow, From, Walks
  <2> HIDE DEF u
  <2>11. CASE Head(v.rest) = ".."
    <3>1. n = GoUp(v)
      BY <2>11 DEF EvalStep
    <3>2. CASE u.at = root
      <4>1. RootStep(root, u) = Fail(u, "other")
        BY <2>2, <2>11, <3>2 DEF RootStep
      <4> QED BY <2>7, <4>1
    <3>3. CASE u.at # root
      <4>1. RootStep(root, u) = GoUp(u)
        BY <2>2, <2>11, <3>3 DEF RootStep
      <4> HIDE DEF n
      <4> QED BY <2>2, <2>8, <2>10, <3>1, <4>1
    <3> QED BY <3>2, <3>3
  <2>12. CASE Head(v.rest) # ".." /\ Kind(Entry(v)) = "none"
    <3>1. n = Fail(v, "missing") /\ RootStep(root, u) = Fail(u, "missing")
      BY <2>2, <2>9, <2>12 DEF EvalStep, RootStep
    <3>2. Fail(u, "missing").err = "missing" /\ Fail(v, "missing").err = "missing"
      BY <2>2 DEF Fail, Walks
    <3> HIDE DEF n
    <3>3. RootWalk(root)[u].err = "missing" /\ Eval[v].err = "missing"
      BY <2>4, <2>5, <3>1, <3>2, RootEquation, EvalEquation DEF Ended
    <3> QED BY <3>3 DEF Same, u
  <2>13. CASE Head(v.rest) # ".." /\ Kind(Entry(v)) = "dir"
    <3>1. n = Enter(v) /\ RootStep(root, u) = Enter(u)
      BY <2>2, <2>9, <2>13 DEF EvalStep, RootStep
    <3> HIDE DEF n
    <3> QED BY <2>2, <2>8, <2>10, <3>1
  <2>14. CASE Head(v.rest) # ".." /\ Kind(Entry(v)) = "file"
    <3>1. RootStep(root, u) = Fail(u, "other")
      BY <2>2, <2>9, <2>14 DEF RootStep
    <3> QED BY <2>7, <3>1
  <2>15. CASE Head(v.rest) # ".." /\ Kind(Entry(v)) = "link"
    <3>1. CASE v.links > 0 /\ ~tree[Entry(v)].abs
      <4>1. n = Follow(v)
        BY <2>15, <3>1 DEF EvalStep
      <4>2. RootStep(root, u) = Follow(u)
        BY <2>2, <2>9, <2>15, <3>1 DEF RootStep
      <4>3. Follow(u) = With(Follow(v), <<l>>)
        BY <1>2, <1>q, <2>15, <3>1, WithFollow DEF u
      <4> HIDE DEF n
      <4> QED BY <2>8, <2>10, <4>1, <4>2, <4>3
    <3>2. CASE ~(v.links > 0 /\ ~tree[Entry(v)].abs)
      <4>1. RootStep(root, u) = Fail(u, "other")
        BY <2>2, <2>9, <2>15, <3>2 DEF RootStep
      <4> QED BY <2>7, <4>1
    <3> QED BY <3>1, <3>2
  <2> QED BY <2>11, <2>12, <2>13, <2>14, <2>15, Kinds
<1>3. \A v \in Walks : v \in J
  <2> HIDE DEF J
  <2> QED BY <1>1, <1>2, EvalInduction
<1> QED BY <1>3

--------------------------------------------------------------------------------
(* Canonical names.                                                         *)

LEMMA CanonicalGood ==
  ASSUME IsTree(tree), MaxLinks \in Nat, NEW p \in Seq(Names)
  PROVE  /\ From(<<>>, p, MaxLinks) \in Walks
         /\ Good(Canonical(p), MaxLinks)
<1>1. From(<<>>, p, MaxLinks) \in Walks
  BY NamesAreWays, WalkType, EmptySeq
<1>2. From(<<>>, p, MaxLinks).at = <<>> /\ From(<<>>, p, MaxLinks).links = MaxLinks
  BY DEF From
<1> QED BY <1>1, <1>2, RootIsDir, EvalEnds DEF Canonical

LEMMA CanonicalSelf ==
  ASSUME IsTree(tree), MaxLinks \in Nat, ".." \notin Names, NEW p, Kind(p) \in {"dir", "file"}
  PROVE  p \in Seq(Names) /\ Canonical(p) = From(p, <<>>, MaxLinks)
<1>1. p \in Seq(Names)
  BY Kinds
<1> DEFINE w == From(<<>>, p, MaxLinks)
<1>2. w \in Walks
  BY <1>1, CanonicalGood
<1>3. w.at = <<>> /\ w.rest = p /\ w.links = MaxLinks /\ w.err = "nil"
  BY DEF From
<1>4. w.at \o w.rest = p
  BY <1>1, <1>3, ConcatEmptySeq
<1> HIDE DEF w
<1>5. Eval[w] = From(w.at \o w.rest, <<>>, w.links)
  BY <1>1, <1>2, <1>3, <1>4, Straight
<1>6. Eval[w] = From(p, <<>>, MaxLinks)
  BY <1>3, <1>4, <1>5
<1> QED BY <1>1, <1>6 DEF w, Canonical

\* A longer path begins like the shorter one.
LEMMA CanonicalLonger ==
  ASSUME IsTree(tree), MaxLinks \in Nat, NEW p \in Seq(Names), NEW q \in Seq(Names), q # <<>>
  PROVE  LET c == Canonical(p)
             d == Canonical(p \o q)
         IN /\ c.err # "nil" => d.err = c.err
            /\ c.err = "nil" /\ Kind(c.at) = "dir" => d = Eval[From(c.at, q, c.links)]
            /\ c.err = "nil" /\ Kind(c.at) = "file" => d.err = "other"
<1> DEFINE w == From(<<>>, p, MaxLinks)
           c == Canonical(p)
<1>1. w \in Walks /\ Good(c, MaxLinks) /\ q \in Seq(Ways)
  BY CanonicalGood, NamesAreWays
<1>2. w.at = <<>> /\ c = Eval[w]
  BY DEF From, Canonical
<1>3. With(w, q) = From(<<>>, p \o q, MaxLinks)
  <2>1. w.rest = p
    BY DEF From
  <2>2. \A r : [From(<<>>, p, MaxLinks) EXCEPT !.rest = r] = From(<<>>, r, MaxLinks)
    BY DEF From
  <2> QED BY <2>1, <2>2, Zenon DEF With
<1> HIDE DEF w
<1>4. Lock(w, q)
  BY <1>1, <1>2, RootIsDir, Lockstep
<1>5. Eval[With(w, q)] = Canonical(p \o q)
  BY <1>3 DEF Canonical
<1> HIDE DEF c
<1>6. ASSUME c.err = "nil" PROVE With(c, q) = From(c.at, q, c.links)
  <2>1. c \in Walks /\ c.rest = <<>>
    BY <1>1, <1>6 DEF Good
  <2>2. c.rest \o q = q
    BY <2>1, ConcatEmptySeq
  <2> QED BY <1>6, <2>1, <2>2 DEF With, From, Walks
<1> QED BY <1>2, <1>4, <1>5, <1>6 DEF Lock, c

\* The deepest ancestor that exists, and what canonicalizeForMapping makes of it.
Deepest(p, k) ==
  /\ k \in 0..Len(p) /\ Canonical(SubSeq(p, 1, k)).err # "missing"
  /\ \A j \in 0..Len(p) : k < j => Canonical(SubSeq(p, 1, j)).err = "missing"

MappedFrom(p, k) ==
  LET c == Canonical(SubSeq(p, 1, k))
  IN IF c.err = "nil" THEN Ok(c.at \o SubSeq(p, k + 1, Len(p))) ELSE c

LEMMA DeepestOnly ==
  ASSUME NEW p \in Seq(Names), NEW k, Deepest(p, k)
  PROVE  ForMapping(p) = MappedFrom(p, k)
<1> DEFINE existing == {j \in 0..Len(p) : Canonical(SubSeq(p, 1, j)).err # "missing"}
           deepest  == CHOOSE i \in existing : \A j \in existing : j <= i
<1>1. Len(p) \in Nat
  OBVIOUS
<1>2. k \in existing /\ \A j \in existing : j <= k
  BY <1>1 DEF Deepest
<1>3. existing \subseteq Nat
  BY <1>1
<1>4. deepest \in existing /\ \A j \in existing : j <= deepest
  <2> HIDE DEF existing
  <2> QED BY <1>2
<1>5. deepest = k
  <2> HIDE DEF existing, deepest
  <2>1. deepest <= k /\ k <= deepest /\ deepest \in Nat /\ k \in Nat
    BY <1>2, <1>3, <1>4
  <2> QED BY <2>1
<1>6. ForMapping(p) = MappedFrom(p, deepest)
  BY DEF ForMapping, MappedFrom
<1> QED BY <1>5, <1>6

LEMMA DeepestExists ==
  ASSUME IsTree(tree), MaxLinks \in Nat, NEW p \in Seq(Names)
  PROVE  \E k : Deepest(p, k)
<1> DEFINE T == {n \in 0..Len(p) : Canonical(SubSeq(p, 1, Len(p) - n)).err # "missing"}
<1>1. Len(p) \in Nat
  OBVIOUS
<1>2. Len(p) \in T
  <2>1. SubSeq(p, 1, 0) = <<>> /\ <<>> \in Seq(Names) /\ Len(p) - Len(p) = 0
    BY <1>1, SubSeqEmpty, EmptySeq
  <2>2. From(<<>>, <<>>, MaxLinks) \in Walks
    BY <2>1, CanonicalGood
  <2>3. Canonical(<<>>) = From(<<>>, <<>>, MaxLinks)
    BY <2>2, EvalEquation DEF Canonical, Ended, From
  <2>4. Canonical(<<>>).err = "nil"
    BY <2>3 DEF From
  <2>5. Canonical(SubSeq(p, 1, Len(p) - Len(p))).err # "missing"
    <3>1. SubSeq(p, 1, Len(p) - Len(p)) = <<>>
      BY <2>1
    <3> QED BY <2>4, <3>1
  <2>6. Len(p) \in 0..Len(p)
    BY <1>1
  <2> QED BY <2>5, <2>6
<1>3. PICK n \in T : \A m \in T : ~(m < n)
  <2>1. T \in SUBSET Nat /\ T # {}
    BY <1>1, <1>2
  <2> HIDE DEF T
  <2> QED BY <2>1, Least
<1>4. Len(p) - n \in 0..Len(p) /\ Canonical(SubSeq(p, 1, Len(p) - n)).err # "missing"
  BY <1>1, <1>3
<1>5. ASSUME NEW j \in 0..Len(p), Len(p) - n < j
      PROVE  Canonical(SubSeq(p, 1, j)).err = "missing"
  <2>1. Len(p) - j \in 0..Len(p) /\ Len(p) - j < n /\ Len(p) - (Len(p) - j) = j
    BY <1>1, <1>3, <1>5
  <2>2. Len(p) - j \notin T
    BY <1>3, <2>1
  <2> QED BY <2>1, <2>2
<1>6. Deepest(p, Len(p) - n)
  BY <1>4, <1>5 DEF Deepest
<1> QED BY <1>6

\* m is the canonical name of an entry, or of a directory with names behind it of which
\* the first leads to nothing.
Splits(m, a, z) ==
  /\ a \in Seq(Names) /\ z \in Seq(Names) /\ m = a \o z
  /\ \/ z = <<>> /\ Kind(a) \in {"dir", "file"}
     \/ z # <<>> /\ Kind(a) = "dir" /\ Canonical(a \o <<Head(z)>>).err = "missing"

LEMMA Mapped ==
  ASSUME IsTree(tree), MaxLinks \in Nat, ".." \notin Names, NEW p \in Seq(Names),
         ForMapping(p).err = "nil"
  PROVE  \E m, a, z : /\ ForMapping(p) = Ok(m) /\ Splits(m, a, z)
                      /\ z = <<>> => Canonical(p).err = "nil" /\ Canonical(p).at = m
                      /\ z # <<>> => Canonical(p).err = "missing"
<1>1. PICK k : Deepest(p, k)
  BY DeepestExists
<1>2. ForMapping(p) = MappedFrom(p, k)
  BY <1>1, DeepestOnly
<1> DEFINE b == SubSeq(p, 1, k)
           z == SubSeq(p, k + 1, Len(p))
           c == Canonical(b)
           a == c.at
<1>3. k \in 0..Len(p) /\ Len(p) \in Nat
  BY <1>1 DEF Deepest
<1>4. b \in Seq(Names) /\ z \in Seq(Names) /\ p = b \o z /\ Len(z) = Len(p) - k
  BY <1>3, Cut
<1>5. Good(c, MaxLinks)
  BY <1>4, CanonicalGood
<1>6. c.err = "nil" /\ ForMapping(p) = Ok(a \o z)
  BY <1>2, <1>5 DEF MappedFrom
<1>7. Kind(a) \in {"dir", "file"} /\ c.links \in Nat /\ c.links <= MaxLinks /\ a \in Seq(Names)
  BY <1>5, <1>6 DEF Good, Walks
<1>8. CASE k = Len(p)
  <2>1. z = <<>>
    BY <1>3, <1>8, SubSeqEmpty
  <2>2. b = p
    BY <1>8, SubSeqFull
  <2>3. a \o z = a
    BY <1>7, <2>1, ConcatEmptySeq
  <2>4. Splits(a \o z, a, z)
    BY <1>4, <1>7, <2>1 DEF Splits
  <2> HIDE DEF z
  <2>5. Canonical(p).err = "nil" /\ Canonical(p).at = a \o z
    BY <1>6, <2>2, <2>3
  <2> QED BY <1>6, <2>1, <2>4, <2>5
<1>9. CASE k # Len(p)
  <2>1. k + 1 \in 1..Len(p) /\ k < Len(p) /\ k + 1 \in 0..Len(p) /\ k < k + 1
    BY <1>3, <1>9
  <2>2. z # <<>> /\ Head(z) = p[k + 1] /\ Head(z) \in Names
    <3>1. k + 1 \in 1..Len(p) /\ Len(p) \in k + 1..Len(p)
      BY <1>3, <2>1
    <3>2. Head(z) = p[k + 1]
      BY <3>1, HeadTailOfSubSeq
    <3>3. Len(z) # 0
      <4> HIDE DEF z
      <4>1. Len(z) = Len(p) - k
        BY <1>4
      <4> QED BY <1>3, <2>1, <4>1
    <3>4. z # <<>>
      <4> HIDE DEF z
      <4> QED BY <3>3, EmptySeq
    <3>5. Head(z) \in Names
      <4> HIDE DEF z
      <4> QED BY <1>4, <3>4, HeadTailProperties
    <3> QED BY <3>2, <3>4, <3>5
  <2> DEFINE h == Head(z)
  <2>3. SubSeq(p, 1, k + 1) = b \o <<h>>
    <3>1. 1 \in 1..Len(p) /\ k + 1 \in 1..Len(p) /\ k + 1 - 1 = k
      BY <1>3, <2>1
    <3> DEFINE n == k + 1
    <3>2. n \in 1..Len(p) /\ n - 1 = k
      BY <1>3, <3>1
    <3> HIDE DEF n
    <3>3. SubSeq(p, 1, n) = SubSeq(p, 1, n - 1) \o <<p[n]>>
      BY <3>1, <3>2, SubSeqRecursiveSecond
    <3> QED BY <2>2, <3>2, <3>3 DEF n
  <2>4. Canonical(b \o <<h>>).err = "missing"
    BY <1>1, <2>1, <2>3 DEF Deepest
  <2>5. Canonical(p).err = "missing"
    <3>1. Len(p) \in 0..Len(p) /\ SubSeq(p, 1, Len(p)) = p
      BY <1>3, SubSeqFull
    <3> QED BY <1>1, <2>1, <3>1 DEF Deepest
  <2>6. <<h>> \in Seq(Names) /\ <<h>> # <<>> /\ <<h>> \in Seq(Ways)
    <3>1. h \in Names /\ h \in Ways
      BY <2>2 DEF Ways
    <3> HIDE DEF h
    <3> QED BY <3>1
  <2> HIDE DEF z, b, h
  <2>7. Kind(a) = "dir" /\ Eval[From(a, <<h>>, c.links)].err = "missing"
    BY <1>4, <1>6, <1>7, <2>4, <2>6, CanonicalLonger
  <2> DEFINE w == From(a, <<h>>, c.links)
  <2>8. w \in Walks /\ w.links <= MaxLinks /\ More(w, MaxLinks) = From(a, <<h>>, MaxLinks)
    <3> HIDE DEF a, c
    <3>1. w \in Walks
      BY <1>7, <2>6, WalkType
    <3>2. w.links = c.links
      BY DEF From
    <3>3. More(w, MaxLinks) = From(a, <<h>>, MaxLinks)
      BY DEF From, More
    <3> QED BY <1>7, <3>1, <3>2, <3>3
  <2>9. Eval[From(a, <<h>>, MaxLinks)].err = "missing"
    <3>1. Eval[w].err = "missing"
      BY <2>7
    <3> HIDE DEF w
    <3> QED BY <2>8, <3>1, MoreLinks
  <2>10. Canonical(a) = From(a, <<>>, MaxLinks)
    BY <2>7, CanonicalSelf
  <2>11. Canonical(a).err = "nil" /\ Canonical(a).at = a /\ Canonical(a).links = MaxLinks
    BY <2>10 DEF From
  <2> HIDE DEF a, w
  <2>12. Canonical(a \o <<h>>) = Eval[From(a, <<h>>, MaxLinks)]
    BY <1>7, <2>6, <2>7, <2>11, CanonicalLonger
  <2>13. Splits(a \o z, a, z)
    BY <1>4, <1>7, <2>2, <2>7, <2>9, <2>12 DEF Splits, h
  <2> QED BY <1>6, <2>2, <2>5, <2>13
<1> QED BY <1>8, <1>9

\* Such a name is canonical itself.
LEMMA SplitFixed ==
  ASSUME IsTree(tree), MaxLinks \in Nat, ".." \notin Names, NEW m, NEW a, NEW z, Splits(m, a, z)
  PROVE  m \in Seq(Names) /\ ForMapping(m) = Ok(m)
<1> DEFINE k == Len(a)
<1>1. a \in Seq(Names) /\ z \in Seq(Names) /\ m = a \o z
  BY DEF Splits
<1>2. m \in Seq(Names) /\ Len(m) = k + Len(z) /\ SubSeq(m, 1, k) = a /\ k \in Nat /\ Len(z) \in Nat
  BY <1>1, ConcatProperties, BeginningOfConcat
<1>3. Canonical(a) = From(a, <<>>, MaxLinks)
  BY CanonicalSelf DEF Splits
<1>4. Canonical(a).err = "nil" /\ Canonical(a).at = a
  BY <1>3 DEF From
<1>5. ASSUME NEW j \in 0..Len(m), k < j
      PROVE  Canonical(SubSeq(m, 1, j)).err = "missing"
  <2>1. z # <<>>
    <3>1. Len(z) # 0
      BY <1>2, <1>5
    <3> QED BY <3>1, EmptySeq
  <2> DEFINE h == Head(z)
             b == Append(a, h)
             s == SubSeq(m, 1, j)
  <2>2. Canonical(a \o <<h>>).err = "missing"
    BY <2>1 DEF Splits
  <2>3. h \in Names
    BY <1>1, <2>1, HeadTailProperties
  <2>4. b \in Seq(Names) /\ b = a \o <<h>> /\ Len(b) = k + 1
    <3> HIDE DEF h
    <3> QED BY <1>1, <2>3, AppendIsConcat, AppendProperties
  <2>5. m = b \o Tail(z) /\ Tail(z) \in Seq(Names)
    BY <1>1, <2>1, Shift, HeadTailProperties
  <2>6. s \in Seq(Names) /\ Len(s) = j
    BY <1>2, Beginning
  <2> HIDE DEF h, b
  <2>7. SubSeq(m, 1, k + 1) = b
    BY <2>4, <2>5, BeginningOfConcat
  <2>8. SubSeq(s, 1, k + 1) = SubSeq(m, 1, k + 1)
    <3> DEFINE n == k + 1
    <3>1. /\ 1 \in 1..Len(m) /\ j \in 1..Len(m) /\ 1 \in 1..j - 1 + 1 /\ n \in 1..j - 1 + 1
          /\ 1 + 1 - 1 = 1 /\ 1 + n - 1 = n
      BY <1>2, <1>5
    <3> HIDE DEF n, k
    <3>2. SubSeq(SubSeq(m, 1, j), 1, n) = SubSeq(m, 1 + 1 - 1, 1 + n - 1)
      BY <1>2, <3>1, SubSeqOfSubSeq
    <3> QED BY <3>1, <3>2 DEF n
  <2> DEFINE q == SubSeq(s, k + 2, Len(s))
  <2>9. q \in Seq(Names) /\ s = b \o q
    <3> DEFINE n == k + 1
    <3>1. n \in 0..Len(s) /\ n + 1 = k + 2
      BY <1>2, <1>5, <2>6
    <3> HIDE DEF n, s
    <3>2. SubSeq(s, n + 1, Len(s)) \in Seq(Names) /\ s = SubSeq(s, 1, n) \o SubSeq(s, n + 1, Len(s))
      BY <2>6, <3>1, Cut
    <3> QED BY <2>7, <2>8, <3>1, <3>2 DEF n
  <2> HIDE DEF q, s
  <2>10. CASE q = <<>>
    <3>1. s = a \o <<h>>
      BY <2>4, <2>9, <2>10, ConcatEmptySeq
    <3> QED BY <2>2, <3>1 DEF s
  <2>11. CASE q # <<>>
    <3>1. Canonical(b).err = "missing"
      BY <2>2, <2>4
    <3>2. Canonical(b \o q).err = "missing"
      BY <2>4, <2>9, <2>11, <3>1, CanonicalLonger
    <3> QED BY <2>9, <3>2 DEF s
  <2> QED BY <2>10, <2>11
<1>6. k \in 0..Len(m)
  BY <1>2
<1>7. Deepest(m, k)
  BY <1>2, <1>4, <1>5, <1>6 DEF Deepest
<1> HIDE DEF k
<1>8. m = SubSeq(m, 1, k) \o SubSeq(m, k + 1, Len(m))
  BY <1>2, <1>6, Cut
<1>9. MappedFrom(m, k) = Ok(m)
  BY <1>2, <1>4, <1>8 DEF MappedFrom
<1> QED BY <1>2, <1>7, <1>9, DeepestOnly

LEMMA OkIs ==
  ASSUME NEW p
  PROVE  Ok(p).at = p /\ Ok(p).err = "nil"
BY DEF Ok, From

LEMMA NotOk ==
  ASSUME IsTree(tree), MaxLinks \in Nat, NEW p \in Seq(Names)
  PROVE  ForMapping(p).err \in {"nil", "other"}
<1>1. PICK k : Deepest(p, k)
  BY DeepestExists
<1>2. ForMapping(p) = MappedFrom(p, k)
  BY <1>1, DeepestOnly
<1> DEFINE c == Canonical(SubSeq(p, 1, k))
<1>3. k \in 0..Len(p) /\ c.err # "missing"
  BY <1>1 DEF Deepest
<1>4. SubSeq(p, 1, k) \in Seq(Names)
  BY <1>3, Beginning
<1>5. c \in Walks
  BY <1>4, CanonicalGood DEF Good
<1>6. c.err \in {"nil", "other"}
  <2> HIDE DEF c
  <2> QED BY <1>3, <1>5 DEF Walks
<1> QED BY <1>2, <1>6, OkIs DEF MappedFrom

\* An absolute name is a fixed point of canonicalizeParent.
LEMMA ParentFixed ==
  ASSUME IsTree(tree), MaxLinks \in Nat, ".." \notin Names, NEW p \in Seq(Names),
         CanonicalizeParent(p).err = "nil"
  PROVE  LET b == CanonicalizeParent(p).at
         IN b \in Seq(Names) /\ CanonicalizeParent(b) = Ok(b)
<1>1. CASE p = <<>>
  <2>1. CanonicalizeParent(p).at = <<>>
    BY <1>1, OkIs DEF CanonicalizeParent
  <2> QED BY <2>1, EmptySeq DEF CanonicalizeParent
<1>2. CASE p # <<>>
  <2> DEFINE l == p[Len(p)]
  <2>1. Parent(p) \in Seq(Names) /\ l \in Names
    BY <1>2, ParentType
  <2>2. ForMapping(Parent(p)).err = "nil"
    BY <1>2, OkIs DEF CanonicalizeParent
  <2>3. PICK m, a, z : ForMapping(Parent(p)) = Ok(m) /\ Splits(m, a, z)
    BY <2>1, <2>2, Mapped
  <2>4. m \in Seq(Names) /\ ForMapping(m) = Ok(m)
    BY <2>3, SplitFixed
  <2>5. CanonicalizeParent(p) = Ok(Append(m, l))
    BY <1>2, <2>2, <2>3, OkIs DEF CanonicalizeParent
  <2> HIDE DEF l
  <2> DEFINE b == Append(m, l)
  <2>6. b \in Seq(Names) /\ b # <<>> /\ Parent(b) = m /\ b[Len(b)] = l
    BY <2>1, <2>4, ParentAppend
  <2> HIDE DEF b
  <2>7. CanonicalizeParent(b) = Ok(Append(m, l))
    BY <2>4, <2>6, OkIs DEF CanonicalizeParent
  <2>8. CanonicalizeParent(p).at = b
    BY <2>5, OkIs DEF b
  <2> QED BY <2>6, <2>7, <2>8 DEF b
<1> QED BY <1>1, <1>2

LEMMA ParentOk ==
  ASSUME NEW p
  PROVE  CanonicalizeParent(p).err = "nil" => CanonicalizeParent(p) = Ok(CanonicalizeParent(p).at)
BY OkIs DEF CanonicalizeParent

\* The canonical name of a root is the root.
LEMMA DirFixed ==
  ASSUME IsTree(tree), MaxLinks \in Nat, ".." \notin Names, NEW p, Kind(p) = "dir"
  PROVE  CanonicalizeParent(p) = Ok(p)
<1>1. p \in Seq(Names)
  BY Kinds
<1>2. CASE p = <<>>
  BY <1>2 DEF CanonicalizeParent
<1>3. CASE p # <<>>
  <2> DEFINE m == Parent(p)
             l == p[Len(p)]
  <2>1. m \in Seq(Names) /\ l \in Names /\ p = Append(m, l)
    BY <1>1, <1>3, ParentType
  <2>2. Kind(m) = "dir"
    <3>1. Len(p) - 1 \in 0..Len(p) - 1
      BY <1>1, <1>3
    <3> QED BY <3>1, AboveIsDir DEF Parent
  <2> HIDE DEF m
  <2>3. Splits(m, m, <<>>)
    BY <2>1, <2>2, EmptySeq, ConcatEmptySeq DEF Splits
  <2>4. ForMapping(m) = Ok(m)
    BY <2>3, SplitFixed
  <2> QED BY <1>3, <2>1, <2>4, OkIs DEF CanonicalizeParent, m
<1> QED BY <1>2, <1>3

\* Behind a name that leads to nothing there is nothing.
LEMMA NothingBehind ==
  ASSUME IsTree(tree), MaxLinks \in Nat, ".." \notin Names, NEW m, NEW a, NEW z,
         Splits(m, a, z), z # <<>>, NEW l \in Names
  PROVE  Kind(Append(m, l)) = "none"
<1> DEFINE h == Head(z)
           b == Append(a, h)
           q == Append(Tail(z), l)
           p == Append(m, l)
<1>1. a \in Seq(Names) /\ z \in Seq(Names) /\ m = a \o z /\ Canonical(a \o <<h>>).err = "missing"
  BY DEF Splits
<1>2. h \in Names /\ Tail(z) \in Seq(Names)
  BY <1>1, HeadTailProperties
<1>3. b \in Seq(Names) /\ b = a \o <<h>>
  <2> HIDE DEF h
  <2> QED BY <1>1, <1>2, AppendIsConcat, AppendProperties
<1>4. m = b \o Tail(z) /\ m \in Seq(Names)
  BY <1>1, Shift, ConcatProperties
<1> HIDE DEF h, b
<1>5. p = b \o q /\ q \in Seq(Names) /\ Len(q) > 0
  <2> DEFINE t == Tail(z)
  <2>1. t \in Seq(Names) /\ <<l>> \in Seq(Names)
    BY <1>2
  <2> HIDE DEF t
  <2>2. (b \o t) \o <<l>> = b \o (t \o <<l>>)
    BY <1>3, <2>1, ConcatAssociative
  <2>3. Append(t, l) = t \o <<l>> /\ Append(t, l) \in Seq(Names) /\ Len(Append(t, l)) = Len(t) + 1
    BY <2>1, AppendIsConcat, AppendProperties
  <2>4. Len(t) \in Nat
    BY <2>1
  <2>5. p = m \o <<l>>
    BY <1>4, AppendIsConcat
  <2>6. Len(Append(t, l)) > 0
    BY <2>3, <2>4
  <2>7. p = b \o Append(t, l)
    BY <1>4, <2>2, <2>3, <2>5, Zenon DEF t
  <2> QED BY <2>3, <2>6, <2>7 DEF t
<1> HIDE DEF q, p
<1>6. Len(b) \in 0..Len(p) - 1 /\ SubSeq(p, 1, Len(b)) = b
  <2>1. Len(p) = Len(b) + Len(q) /\ Len(b) \in Nat /\ Len(q) \in Nat /\ SubSeq(p, 1, Len(b)) = b
    BY <1>3, <1>5, ConcatProperties, BeginningOfConcat
  <2> QED BY <1>5, <2>1
<1>7. Kind(b) # "dir"
  <2>1. SUFFICES ASSUME Kind(b) = "dir" PROVE FALSE
    OBVIOUS
  <2>2. Canonical(b) = From(b, <<>>, MaxLinks)
    BY <2>1, CanonicalSelf
  <2>3. Canonical(b).err = "nil"
    BY <2>2 DEF From
  <2> QED BY <1>1, <1>3, <2>3
<1> QED BY <1>6, <1>7, AboveIsDir DEF p

\* What the handle of a root finds is the entry with the canonical name.
LEMMA FoundIs ==
  ASSUME IsTree(tree), MaxLinks \in Nat, ".." \notin Names, NEW R, Kind(R) = "dir",
         NEW rel \in Seq(Names), CanonicalizeParent(R \o rel).err = "nil"
  PROVE  LET found == RootWalk(R)[From(R, rel, MaxLinks)]
             b     == CanonicalizeParent(R \o rel).at
         IN /\ found.err \in {"nil", "missing", "other"}
            /\ found.err = "nil" => found.at = b
            /\ found.err = "missing" => Kind(b) = "none"
<1> DEFINE found == RootWalk(R)[From(R, rel, MaxLinks)]
<1>1. R \in Seq(Names)
  BY Kinds
<1>2. CASE rel = <<>>
  <2>1. R \o rel = R
    BY <1>1, <1>2, ConcatEmptySeq
  <2>2. CanonicalizeParent(R).at = R
    BY DirFixed, OkIs
  <2>3. From(R, rel, MaxLinks) \in Walks
    BY <1>1, NamesAreWays, WalkType
  <2>4. found = From(R, rel, MaxLinks)
    BY <1>2, <2>3, RootEquation DEF Ended, From
  <2> QED BY <2>1, <2>2, <2>4 DEF From
<1>3. CASE rel # <<>>
  <2> DEFINE f == Parent(rel)
             l == rel[Len(rel)]
             P == R \o f
             w == From(R, f, MaxLinks)
  <2>1. f \in Seq(Names) /\ l \in Names /\ rel = Append(f, l)
    BY <1>3, ParentType
  <2> HIDE DEF f, l
  <2>2. rel = f \o <<l>> /\ <<l>> \in Seq(Names) /\ P \in Seq(Names)
    BY <1>1, <2>1, AppendIsConcat, ConcatProperties
  <2>3. R \o rel = Append(P, l)
    <3>1. (R \o f) \o <<l>> = R \o (f \o <<l>>)
      BY <1>1, <2>1, <2>2, ConcatAssociative
    <3>2. Append(P, l) = P \o <<l>>
      BY <2>1, <2>2, AppendIsConcat
    <3> QED BY <2>2, <3>1, <3>2, Zenon
  <2>4. With(w, <<l>>) = From(R, rel, MaxLinks) /\ w.err = "nil" /\ w \in Walks
    <3>1. w \in Walks
      BY <1>1, <2>1, NamesAreWays, WalkType
    <3>2. w.rest = f /\ w.err = "nil"
      BY DEF From
    <3>3. \A r : [From(R, f, MaxLinks) EXCEPT !.rest = r] = From(R, r, MaxLinks)
      BY DEF From
    <3>4. With(w, <<l>>) = From(R, f \o <<l>>, MaxLinks)
      BY <3>2, <3>3, Zenon DEF With
    <3> QED BY <2>2, <3>1, <3>2, <3>4
  <2>5. Canonical(P) = Eval[w]
    <3>1. Canonical(R) = From(R, <<>>, MaxLinks)
      BY CanonicalSelf
    <3>2. CASE f = <<>>
      <4>1. P = R
        BY <1>1, <3>2, ConcatEmptySeq
      <4>2. Eval[w] = w
        BY <2>4, <3>2, EvalEquation DEF Ended, From
      <4> QED BY <3>1, <3>2, <4>1, <4>2
    <3>3. CASE f # <<>>
      <4>1. Canonical(R).err = "nil" /\ Canonical(R).at = R /\ Canonical(R).links = MaxLinks
        BY <3>1 DEF From
      <4> QED BY <1>1, <2>1, <3>3, <4>1, CanonicalLonger
    <3> QED BY <3>2, <3>3
  <2> HIDE DEF w, P
  <2>6. Same(R, w, l)
    BY <2>1, <2>4, RootSame
  <2>7. /\ found.err \in {"nil", "missing", "other"}
        /\ found.err = "nil" => Canonical(P).err = "nil" /\ found.at = Append(Canonical(P).at, l)
        /\ found.err = "missing" => Canonical(P).err = "missing"
    BY <2>4, <2>5, <2>6 DEF Same
  <2>8. /\ Append(P, l) # <<>> /\ Parent(Append(P, l)) = P
        /\ Append(P, l)[Len(Append(P, l))] = l
    BY <2>1, <2>2, ParentAppend
  <2>9. ForMapping(P).err = "nil"
    BY <2>3, <2>8, OkIs DEF CanonicalizeParent
  <2>10. PICK m, a, z : /\ ForMapping(P) = Ok(m) /\ Splits(m, a, z)
                        /\ z = <<>> => Canonical(P).err = "nil" /\ Canonical(P).at = m
                        /\ z # <<>> => Canonical(P).err = "missing"
    BY <2>2, <2>9, Mapped
  <2>11. CanonicalizeParent(R \o rel) = Ok(Append(m, l))
    BY <2>3, <2>8, <2>10, OkIs DEF CanonicalizeParent
  <2>12. CanonicalizeParent(R \o rel).at = Append(m, l)
    BY <2>11, OkIs
  <2>13. z # <<>> => Kind(Append(m, l)) = "none"
    BY <2>1, <2>10, NothingBehind
  <2> HIDE DEF found
  <2> QED BY <2>7, <2>10, <2>12, <2>13 DEF found
<1> QED BY <1>2, <1>3

--------------------------------------------------------------------------------
(* Clean and Open.                                                          *)

\* Loops over a sequence end with it: their turns take its first element.
Rests(S, step) == \A w \in S : w.rest # <<>> => step[w] \in S /\ step[w].rest = Tail(w.rest)

LEMMA ListExists ==
  ASSUME NEW S, NEW step, Rests(S, step)
  PROVE  \E h : h = [w \in S |-> IF w.rest = <<>> THEN w ELSE h[step[w]]]
<1> DEFINE F == {w \in S : w.rest = <<>>}
<1>1. F \in SUBSET S
  OBVIOUS
<1>2. \A w \in S \ F : step[w] \in S
  BY DEF Rests
<1>3. \A w \in S : w \in F <=> w.rest = <<>>
  OBVIOUS
<1> HIDE DEF F
<1>4. PICK h : Loop(h, S, F, step)
  BY <1>1, <1>2, LoopExists
<1>5. h = [w \in S |-> IF w.rest = <<>> THEN w ELSE h[step[w]]]
  BY <1>3, <1>4 DEF Loop
<1> QED BY <1>5

LEMMA ListInduction ==
  ASSUME NEW S, NEW X, NEW step, Rests(S, step), \A w \in S : w.rest \in Seq(X), NEW J,
         \A w \in S : w.rest = <<>> => w \in J,
         \A w \in S : w.rest # <<>> /\ step[w] \in J => w \in J
  PROVE  \A w \in S : w \in J
<1> DEFINE F == {w \in S : w.rest = <<>>}
           m == [w \in S |-> Len(w.rest)]
<1>1. m \in [S -> Nat]
  OBVIOUS
<1>2. ASSUME NEW w \in S \ F PROVE step[w] \in S /\ m[step[w]] < m[w]
  <2>1. step[w] \in S /\ step[w].rest = Tail(w.rest) /\ w.rest \in Seq(X) /\ w.rest # <<>>
    BY DEF Rests
  <2>2. Len(w.rest) \in Nat /\ Len(Tail(w.rest)) = Len(w.rest) - 1
    BY <2>1, HeadTailProperties
  <2>3. m[step[w]] = Len(w.rest) - 1 /\ m[w] = Len(w.rest)
    BY <2>1, <2>2
  <2> HIDE DEF m
  <2> QED BY <2>1, <2>2, <2>3
<1>3. Falling(S, F, step, m, m)
  <2> HIDE DEF m, F
  <2> QED BY <1>1, <1>2 DEF Falling
<1>4. Back(S, F, step, J)
  BY DEF Back
<1> HIDE DEF F, m
<1> QED BY <1>3, <1>4, LoopInduction

Cleans          == [done : Seq(Ways), rest : Seq(Words)]
CleanStep(a, w) == [done |-> Add(a, w.done, Head(w.rest)), rest |-> Tail(w.rest)]

\* h is the loop of filepath.Clean.
Cleaned(h, a) == h = [w \in Cleans |-> IF w.rest = <<>> THEN w ELSE h[CleanStep(a, w)]]

LEMMA AddType ==
  ASSUME NEW a, NEW d \in Seq(Ways), NEW n \in Words
  PROVE  Add(a, d, n) \in Seq(Ways)
<1>1. Parent(d) \in Seq(Ways)
  BY ParentType
<1>2. n # "." => n \in Ways
  BY DEF Words
<1>3. n \in Ways => Append(d, n) \in Seq(Ways)
  BY AppendProperties
<1> QED BY <1>1, <1>2, <1>3 DEF Add

LEMMA CleanRests ==
  ASSUME NEW a
  PROVE  Rests(Cleans, [w \in Cleans |-> CleanStep(a, w)])
<1>1. ASSUME NEW w \in Cleans, w.rest # <<>>
      PROVE  CleanStep(a, w) \in Cleans /\ CleanStep(a, w).rest = Tail(w.rest)
  <2>1. w.done \in Seq(Ways) /\ Head(w.rest) \in Words /\ Tail(w.rest) \in Seq(Words)
    BY <1>1, HeadTailProperties DEF Cleans
  <2>2. Add(a, w.done, Head(w.rest)) \in Seq(Ways)
    BY <2>1, AddType
  <2> QED BY <2>1, <2>2 DEF Cleans, CleanStep
<1> QED BY <1>1 DEF Rests

LEMMA CleanExists ==
  ASSUME NEW a
  PROVE  \E h : /\ Cleaned(h, a)
                /\ \A names : Clean(a, names) = h[[done |-> <<>>, rest |-> names]].done
<1> DEFINE step == [w \in Cleans |-> CleanStep(a, w)]
           h == CHOOSE h : h = [w \in [done : Seq(Ways), rest : Seq(Words)] |->
                  IF w.rest = <<>> THEN w
                  ELSE h[[done |-> Add(a, w.done, Head(w.rest)), rest |-> Tail(w.rest)]]]
<1>1. Rests(Cleans, step)
  BY CleanRests
<1>2. \A w \in Cleans : step[w] = CleanStep(a, w)
  OBVIOUS
<1> HIDE DEF step
<1>3. PICK g : g = [w \in Cleans |-> IF w.rest = <<>> THEN w ELSE g[step[w]]]
  BY <1>1, ListExists
<1>4. g = [w \in Cleans |-> IF w.rest = <<>> THEN w ELSE g[CleanStep(a, w)]]
  BY <1>2, <1>3
<1>5. h = [w \in [done : Seq(Ways), rest : Seq(Words)] |->
             IF w.rest = <<>> THEN w
             ELSE h[[done |-> Add(a, w.done, Head(w.rest)), rest |-> Tail(w.rest)]]]
  BY <1>4, Zenon DEF Cleans, CleanStep
<1>6. \A names : Clean(a, names) = h[[done |-> <<>>, rest |-> names]].done
  BY Zenon DEF Clean
<1> HIDE DEF h
<1>7. Cleaned(h, a)
  BY <1>5, Zenon DEF Cleaned, Cleans, CleanStep
<1> QED BY <1>6, <1>7

LEMMA CleanEquation ==
  ASSUME NEW a, NEW h, Cleaned(h, a), NEW w \in Cleans
  PROVE  h[w] = IF w.rest = <<>> THEN w ELSE h[CleanStep(a, w)]
BY DEF Cleaned

LEMMA CleanInduction ==
  ASSUME NEW a, NEW J,
         \A w \in Cleans : w.rest = <<>> => w \in J,
         \A w \in Cleans : w.rest # <<>> /\ CleanStep(a, w) \in J => w \in J
  PROVE  \A w \in Cleans : w \in J
<1> DEFINE step == [w \in Cleans |-> CleanStep(a, w)]
<1>1. Rests(Cleans, step)
  BY CleanRests
<1>2. \A w \in Cleans : step[w] = CleanStep(a, w)
  OBVIOUS
<1> HIDE DEF step
<1>3. \A w \in Cleans : w.rest \in Seq(Words)
  BY DEF Cleans
<1>4. \A w \in Cleans : w.rest # <<>> /\ step[w] \in J => w \in J
  BY <1>2
<1> QED BY <1>1, <1>3, <1>4, ListInduction

\* What no name that is added takes away, Clean keeps.
LEMMA CleanKeeps ==
  ASSUME NEW a, NEW D \in SUBSET Seq(Ways), <<>> \in D,
         \A d \in D, n \in Words : Add(a, d, n) \in D,
         NEW names \in Seq(Words)
  PROVE  Clean(a, names) \in D
<1>1. PICK h : Cleaned(h, a) /\ \A p : Clean(a, p) = h[[done |-> <<>>, rest |-> p]].done
  BY CleanExists
<1> DEFINE J == {w \in Cleans : w.done \in D => h[w].done \in D}
<1>2. ASSUME NEW w \in Cleans, w.rest = <<>> PROVE w \in J
  BY <1>1, <1>2, CleanEquation
<1>3. ASSUME NEW w \in Cleans, w.rest # <<>>, CleanStep(a, w) \in J PROVE w \in J
  <2>1. h[w] = h[CleanStep(a, w)]
    BY <1>1, <1>3, CleanEquation
  <2>2. Head(w.rest) \in Words
    BY <1>3, HeadTailProperties DEF Cleans
  <2>3. w.done \in D => CleanStep(a, w).done \in D
    BY <2>2 DEF CleanStep
  <2> QED BY <1>3, <2>1, <2>3
<1>4. \A w \in Cleans : w \in J
  <2> HIDE DEF J
  <2> QED BY <1>2, <1>3, CleanInduction
<1>5. [done |-> <<>>, rest |-> names] \in Cleans
  BY DEF Cleans
<1>6. h[[done |-> <<>>, rest |-> names]].done \in D
  BY <1>4, <1>5
<1> QED BY <1>1, <1>6

\* A clean absolute path has no ".." left.
LEMMA CleanAbsolute ==
  ASSUME NEW names \in Seq(Words)
  PROVE  Clean(TRUE, names) \in Seq(Names)
<1>1. Seq(Names) \in SUBSET Seq(Ways)
  BY NamesAreWays
<1>2. ASSUME NEW d \in Seq(Names), NEW n \in Words PROVE Add(TRUE, d, n) \in Seq(Names)
  <2>1. Parent(d) \in Seq(Names)
    BY ParentType
  <2>2. n # "." /\ n # ".." => n \in Names
    BY DEF Words, Ways
  <2>3. n \in Names => Append(d, n) \in Seq(Names)
    BY AppendProperties
  <2> QED BY <2>1, <2>2, <2>3 DEF Add
<1>3. <<>> \in Seq(Names)
  BY EmptySeq
<1> HIDE DEF Add
<1> QED BY <1>1, <1>2, <1>3, CleanKeeps

\* A clean relative path that does not begin with ".." has none.
LEMMA CleanRelative ==
  ASSUME ".." \notin Names, NEW names \in Seq(Words), ~Escapes(Clean(FALSE, names))
  PROVE  Clean(FALSE, names) \in Seq(Names)
<1> DEFINE D == {d \in Seq(Ways) : d \in Seq(Names) \/ (d # <<>> /\ d[1] = "..")}
<1>1. D \in SUBSET Seq(Ways) /\ <<>> \in D
  BY EmptySeq
<1>2. ASSUME NEW d \in D, NEW n \in Words PROVE Add(FALSE, d, n) \in D
  <2>1. Add(FALSE, d, n) \in Seq(Ways)
    BY AddType
  <2>2. CASE n = "."
    BY <2>2 DEF Add
  <2>3. CASE n # "." /\ n # ".."
    <3>1. Add(FALSE, d, n) = Append(d, n)
      BY <2>3 DEF Add
    <3>2. n \in Names /\ n \in Ways
      BY <2>3 DEF Words, Ways
    <3>3. CASE d \in Seq(Names)
      <4>1. Append(d, n) \in Seq(Names)
        BY <3>2, <3>3, AppendProperties
      <4> QED BY <2>1, <3>1, <4>1
    <3>4. CASE d # <<>> /\ d[1] = ".."
      <4>1. 1 \in 1..Len(d)
        BY <3>4
      <4>2. Append(d, n)[1] = d[1] /\ Append(d, n) # <<>>
        BY <3>2, <4>1, AppendProperties
      <4> QED BY <2>1, <3>1, <3>4, <4>2
    <3> QED BY <3>3, <3>4
  <2>4. CASE n = ".." /\ d # <<>> /\ d[Len(d)] # ".."
    <3>1. Add(FALSE, d, n) = Parent(d)
      BY <2>4 DEF Add
    <3>2. CASE d \in Seq(Names)
      BY <2>1, <3>1, <3>2, ParentType
    <3>3. CASE d[1] = ".."
      <4>1. Len(d) \in Nat \ {0} /\ Len(d) # 1
        BY <2>4, <3>3
      <4> DEFINE k == Len(d)
      <4>2. k - 1 \in 0..k /\ 1 \in 1..k - 1
        <5>1. k \in Nat \ {0} /\ k # 1
          BY <4>1
        <5> HIDE DEF k
        <5> QED BY <5>1
      <4>3. Parent(d)[1] = d[1] /\ Len(Parent(d)) = Len(d) - 1
        BY <4>2, Beginning DEF Parent
      <4>4. Len(Parent(d)) # 0
        BY <4>1, <4>3
      <4>5. Parent(d) # <<>>
        BY <4>4, EmptySeq
      <4> QED BY <2>1, <3>1, <3>3, <4>3, <4>5
    <3> QED BY <2>4, <3>2, <3>3
  <2>5. CASE n = ".." /\ ~(d # <<>> /\ d[Len(d)] # "..")
    <3>1. Add(FALSE, d, n) = Append(d, "..")
      BY <2>5 DEF Add
    <3>2. CASE d = <<>>
      <4>1. Append(d, "..") # <<>> /\ Append(d, "..")[1] = ".."
        BY <3>2
      <4> QED BY <2>1, <3>1, <4>1
    <3>3. CASE d # <<>> /\ d[Len(d)] = ".."
      <4>1. Len(d) \in Nat \ {0} /\ Len(d) \in 1..Len(d) /\ 1 \in 1..Len(d)
        BY <3>3
      <4>2. d \notin Seq(Names)
        BY <3>3, <4>1
      <4>3. ".." \in Ways
        BY DEF Ways
      <4>4. Append(d, "..")[1] = d[1] /\ Append(d, "..") # <<>>
        BY <4>1, <4>3, AppendProperties
      <4> QED BY <2>1, <3>1, <4>2, <4>4
    <3> QED BY <2>5, <3>2, <3>3
  <2> QED BY <2>2, <2>3, <2>4, <2>5
<1>3. Clean(FALSE, names) \in D
  <2> HIDE DEF D
  <2> QED BY <1>1, <1>2, CleanKeeps
<1> QED BY <1>3 DEF Escapes

\* A clean path stays as it is.
LEMMA CleanSame ==
  ASSUME "." \notin Names, ".." \notin Names, NEW p \in Seq(Names)
  PROVE  Clean(TRUE, p) = p
<1>1. PICK h : Cleaned(h, TRUE) /\ \A q : Clean(TRUE, q) = h[[done |-> <<>>, rest |-> q]].done
  BY CleanExists
<1> DEFINE Plain(w) == w.done \in Seq(Names) /\ w.rest \in Seq(Names)
           J == {w \in Cleans : Plain(w) => h[w].done = w.done \o w.rest}
<1>2. ASSUME NEW w \in Cleans, w.rest = <<>> PROVE w \in J
  <2>1. h[w] = w
    BY <1>1, <1>2, CleanEquation
  <2>2. w.done \in Seq(Names) => w.done \o <<>> = w.done
    BY ConcatEmptySeq
  <2> QED BY <1>2, <2>1, <2>2
<1>3. ASSUME NEW w \in Cleans, w.rest # <<>>, CleanStep(TRUE, w) \in J PROVE w \in J
  <2>1. SUFFICES ASSUME Plain(w) PROVE h[w].done = w.done \o w.rest
    OBVIOUS
  <2> DEFINE n == CleanStep(TRUE, w)
  <2>2. h[w] = h[n]
    BY <1>1, <1>3, CleanEquation
  <2>3. Head(w.rest) \in Names /\ Tail(w.rest) \in Seq(Names)
    BY <1>3, <2>1, HeadTailProperties
  <2>4. n.done = Append(w.done, Head(w.rest)) /\ n.rest = Tail(w.rest)
    BY <2>3 DEF CleanStep, Add
  <2>5. Append(w.done, Head(w.rest)) \in Seq(Names)
        /\ w.done \o w.rest = Append(w.done, Head(w.rest)) \o Tail(w.rest)
    BY <1>3, <2>1, Shift
  <2>6. h[n].done = n.done \o n.rest
    BY <1>3, <2>3, <2>4, <2>5
  <2> HIDE DEF n
  <2> QED BY <2>2, <2>4, <2>5, <2>6
<1>4. \A w \in Cleans : w \in J
  <2> HIDE DEF J
  <2> QED BY <1>2, <1>3, CleanInduction
<1>5. [done |-> <<>>, rest |-> p] \in Cleans
  BY NamesAreWays, WaysAreWords, EmptySeq DEF Cleans
<1>6. h[[done |-> <<>>, rest |-> p]].done = <<>> \o p
  <2> DEFINE w == [done |-> <<>>, rest |-> p]
  <2>1. w.done = <<>> /\ w.rest = p /\ Plain(w)
    BY EmptySeq
  <2> HIDE DEF w
  <2> QED BY <1>4, <1>5, <2>1 DEF w
<1>7. <<>> \o p = p
  BY ConcatEmptySeq
<1> QED BY <1>1, <1>6, <1>7

Opens       == [set : Seq(Seq(Names)), rest : Seq(Seq(Names))]
OpenStep(w) == [set |-> Join(w.set, Canonical(Head(w.rest)).at), rest |-> Tail(w.rest)]

\* h is the loop of Open.
OpenedBy(h) == h = [w \in Opens |-> IF w.rest = <<>> THEN w ELSE h[OpenStep(w)]]

LEMMA JoinType ==
  ASSUME NEW set \in Seq(Seq(Names)), NEW p \in Seq(Names)
  PROVE  Join(set, p) \in Seq(Seq(Names))
BY AppendProperties DEF Join

LEMMA OpenRests ==
  ASSUME IsTree(tree), MaxLinks \in Nat
  PROVE  Rests(Opens, [w \in Opens |-> OpenStep(w)])
<1>1. ASSUME NEW w \in Opens, w.rest # <<>>
      PROVE  OpenStep(w) \in Opens /\ OpenStep(w).rest = Tail(w.rest)
  <2>1. w.set \in Seq(Seq(Names)) /\ Head(w.rest) \in Seq(Names) /\ Tail(w.rest) \in Seq(Seq(Names))
    BY <1>1, HeadTailProperties DEF Opens
  <2>2. Canonical(Head(w.rest)).at \in Seq(Names)
    <3> DEFINE x == Head(w.rest)
    <3>1. x \in Seq(Names)
      BY <2>1
    <3> HIDE DEF x
    <3>2. Good(Canonical(x), MaxLinks)
      BY <3>1, CanonicalGood
    <3>3. Canonical(x).at \in Seq(Names)
      BY <3>2 DEF Good, Walks
    <3> QED BY <3>3 DEF x
  <2>3. Join(w.set, Canonical(Head(w.rest)).at) \in Seq(Seq(Names))
    BY <2>1, <2>2, JoinType
  <2> QED BY <2>1, <2>3 DEF Opens, OpenStep
<1> QED BY <1>1 DEF Rests

LEMMA OpenExists ==
  ASSUME IsTree(tree), MaxLinks \in Nat
  PROVE  \E h : /\ OpenedBy(h)
                /\ \A args : Opened(args) = h[[set |-> <<>>, rest |-> args]].set
<1> DEFINE step == [w \in Opens |-> OpenStep(w)]
           h == CHOOSE h : h = [w \in [set : Seq(Seq(Names)), rest : Seq(Seq(Names))] |->
                  IF w.rest = <<>> THEN w
                  ELSE h[[set |-> Join(w.set, Canonical(Head(w.rest)).at), rest |-> Tail(w.rest)]]]
<1>1. Rests(Opens, step)
  BY OpenRests
<1>2. \A w \in Opens : step[w] = OpenStep(w)
  OBVIOUS
<1> HIDE DEF step
<1>3. PICK g : g = [w \in Opens |-> IF w.rest = <<>> THEN w ELSE g[step[w]]]
  BY <1>1, ListExists
<1>4. g = [w \in Opens |-> IF w.rest = <<>> THEN w ELSE g[OpenStep(w)]]
  BY <1>2, <1>3
<1>5. h = [w \in [set : Seq(Seq(Names)), rest : Seq(Seq(Names))] |->
             IF w.rest = <<>> THEN w
             ELSE h[[set |-> Join(w.set, Canonical(Head(w.rest)).at), rest |-> Tail(w.rest)]]]
  BY <1>4, Zenon DEF Opens, OpenStep
<1>6. \A args : Opened(args) = h[[set |-> <<>>, rest |-> args]].set
  BY Zenon DEF Opened
<1> HIDE DEF h
<1>7. OpenedBy(h)
  BY <1>5, Zenon DEF OpenedBy, Opens, OpenStep
<1> QED BY <1>6, <1>7

LEMMA OpenEquation ==
  ASSUME NEW h, OpenedBy(h), NEW w \in Opens
  PROVE  h[w] = IF w.rest = <<>> THEN w ELSE h[OpenStep(w)]
BY DEF OpenedBy

LEMMA OpenInduction ==
  ASSUME IsTree(tree), MaxLinks \in Nat, NEW J,
         \A w \in Opens : w.rest = <<>> => w \in J,
         \A w \in Opens : w.rest # <<>> /\ OpenStep(w) \in J => w \in J
  PROVE  \A w \in Opens : w \in J
<1> DEFINE step == [w \in Opens |-> OpenStep(w)]
<1>1. Rests(Opens, step)
  BY OpenRests
<1>2. \A w \in Opens : step[w] = OpenStep(w)
  OBVIOUS
<1> HIDE DEF step
<1>3. \A w \in Opens : w.rest \in Seq(Seq(Names))
  BY DEF Opens
<1>4. \A w \in Opens : w.rest # <<>> /\ step[w] \in J => w \in J
  BY <1>2
<1> QED BY <1>1, <1>3, <1>4, ListInduction

\* Roots are directories, and each is in the set once.
Sound(set) ==
  /\ set \in Seq(Seq(Names))
  /\ \A i \in DOMAIN set : Kind(set[i]) = "dir"
  /\ \A i, j \in DOMAIN set : set[i] = set[j] => i = j

LEMMA JoinSound ==
  ASSUME NEW set, Sound(set), NEW p \in Seq(Names), Kind(p) = "dir"
  PROVE  Sound(Join(set, p)) /\ Join(set, p) # <<>>
<1>1. CASE \E i \in DOMAIN set : set[i] = p
  BY <1>1 DEF Join, Sound
<1>2. CASE ~\E i \in DOMAIN set : set[i] = p
  <2> DEFINE new == Append(set, p)
             n == Len(set)
  <2>1. Join(set, p) = new /\ set \in Seq(Seq(Names)) /\ n \in Nat /\ DOMAIN set = 1..n
    BY <1>2 DEF Join, Sound
  <2>2. /\ new \in Seq(Seq(Names)) /\ new # <<>> /\ Len(new) = n + 1
        /\ new[n + 1] = p /\ \A i \in 1..n : new[i] = set[i]
    BY <2>1, AppendProperties
  <2> HIDE DEF new, n
  <2>3. DOMAIN new = 1..n + 1
    BY <2>2
  <2>4. \A i \in 1..n + 1 : i \in 1..n \/ i = n + 1
    BY <2>1
  <2>5. \A i \in 1..n : Kind(set[i]) = "dir" /\ set[i] # p
    BY <1>2, <2>1 DEF Sound
  <2>6. \A i, j \in 1..n : set[i] = set[j] => i = j
    BY <2>1 DEF Sound
  <2>7. \A i \in 1..n + 1 : Kind(new[i]) = "dir"
    BY <2>2, <2>4, <2>5
  <2>8. \A i, j \in 1..n + 1 : new[i] = new[j] => i = j
    BY <2>2, <2>4, <2>5, <2>6
  <2> QED BY <2>1, <2>2, <2>3, <2>7, <2>8 DEF Sound
<1> QED BY <1>1, <1>2

LEMMA OpenedSound ==
  ASSUME IsTree(tree), MaxLinks \in Nat, NEW args \in Seq(Seq(Names)), args # <<>>, CanOpen(args)
  PROVE  Sound(Opened(args)) /\ Opened(args) # <<>>
<1>1. PICK h : OpenedBy(h) /\ \A x : Opened(x) = h[[set |-> <<>>, rest |-> x]].set
  BY OpenExists
<1> DEFINE Dirs(rest) == \A i \in 1..Len(rest) : Kind(Canonical(rest[i]).at) = "dir"
           J == {w \in Opens : Sound(w.set) /\ Dirs(w.rest)
                               => /\ Sound(h[w].set)
                                  /\ w.set # <<>> \/ w.rest # <<>> => h[w].set # <<>>}
<1>2. ASSUME NEW w \in Opens, w.rest = <<>> PROVE w \in J
  BY <1>1, <1>2, OpenEquation
<1>3. ASSUME NEW w \in Opens, w.rest # <<>>, OpenStep(w) \in J PROVE w \in J
  <2>1. SUFFICES ASSUME Sound(w.set), Dirs(w.rest) PROVE Sound(h[w].set) /\ h[w].set # <<>>
    OBVIOUS
  <2> DEFINE r == w.rest
             n == OpenStep(w)
             p == Canonical(Head(r)).at
  <2>2. h[w] = h[n]
    BY <1>1, <1>3, OpenEquation
  <2>3. r \in Seq(Seq(Names)) /\ r # <<>>
    BY <1>3 DEF Opens
  <2>4. n.set = Join(w.set, p) /\ n.rest = Tail(r)
    BY DEF OpenStep
  <2> HIDE DEF r, n
  <2>5. /\ Head(r) = r[1] /\ Head(r) \in Seq(Names) /\ 1 \in 1..Len(r)
        /\ Len(Tail(r)) = Len(r) - 1 /\ Tail(r) \in Seq(Seq(Names)) /\ Len(r) \in Nat
        /\ \A i \in 1..Len(Tail(r)) : Tail(r)[i] = r[i + 1]
    BY <2>3, HeadTailProperties
  <2>6. Kind(p) = "dir" /\ p \in Seq(Names)
    <3>1. Good(Canonical(Head(r)), MaxLinks)
      BY <2>5, CanonicalGood
    <3>2. Kind(Canonical(r[1]).at) = "dir"
      BY <2>1, <2>5 DEF r
    <3> QED BY <2>5, <3>1, <3>2 DEF Good, Walks
  <2>7. Dirs(Tail(r))
    <3>1. ASSUME NEW i \in 1..Len(Tail(r)) PROVE Kind(Canonical(Tail(r)[i]).at) = "dir"
      <4>1. i + 1 \in 1..Len(r)
        BY <2>5
      <4>2. Kind(Canonical(r[i + 1]).at) = "dir"
        BY <2>1, <4>1 DEF r
      <4> QED BY <2>5, <4>2
    <3> QED BY <3>1
  <2>8. Sound(n.set) /\ n.set # <<>>
    BY <2>1, <2>4, <2>6, JoinSound
  <2> HIDE DEF Dirs, p
  <2>9. n \in J
    BY <1>3 DEF n
  <2> QED BY <2>2, <2>4, <2>7, <2>8, <2>9
<1>4. \A w \in Opens : w \in J
  <2> HIDE DEF J
  <2> QED BY <1>2, <1>3, OpenInduction
<1> DEFINE w == [set |-> <<>>, rest |-> args]
<1>5. w \in Opens /\ w.set = <<>> /\ w.rest = args
  BY EmptySeq DEF Opens
<1>6. Sound(<<>>)
  BY EmptySeq DEF Sound
<1>7. Dirs(args)
  BY DEF CanOpen
<1> HIDE DEF w, Dirs
<1>8. Sound(h[w].set) /\ h[w].set # <<>>
  BY <1>4, <1>5, <1>6, <1>7
<1> QED BY <1>1, <1>8 DEF w

\* Opened again, canonical roots stay as they are, in their order.
LEMMA OpenedSame ==
  ASSUME IsTree(tree), MaxLinks \in Nat, ".." \notin Names, NEW set, Sound(set)
  PROVE  Opened(set) = set
<1>1. PICK h : OpenedBy(h) /\ \A x : Opened(x) = h[[set |-> <<>>, rest |-> x]].set
  BY OpenExists
<1> DEFINE J == {w \in Opens : Sound(w.set \o w.rest) => h[w].set = w.set \o w.rest}
<1>2. ASSUME NEW w \in Opens, w.rest = <<>> PROVE w \in J
  <2>1. w.set \o <<>> = w.set
    BY ConcatEmptySeq DEF Opens
  <2> QED BY <1>1, <1>2, <2>1, OpenEquation
<1>3. ASSUME NEW w \in Opens, w.rest # <<>>, OpenStep(w) \in J PROVE w \in J
  <2> DEFINE r == w.rest
             d == w.set
             x == Head(r)
             n == OpenStep(w)
  <2>1. SUFFICES ASSUME Sound(d \o r) PROVE h[w].set = d \o r
    OBVIOUS
  <2>2. h[w] = h[n]
    BY <1>1, <1>3, OpenEquation
  <2>3. n.set = Join(d, Canonical(x).at) /\ n.rest = Tail(r)
    BY DEF OpenStep
  <2>4. d \in Seq(Seq(Names)) /\ r \in Seq(Seq(Names)) /\ r # <<>>
    BY <1>3 DEF Opens
  <2>5. n \in J
    BY <1>3
  <2> HIDE DEF d, r, n
  <2>6. Append(d, x) \in Seq(Seq(Names)) /\ d \o r = Append(d, x) \o Tail(r) /\ x = r[1]
    BY <2>4, Shift
  <2> HIDE DEF x
  <2> DEFINE k == Len(d)
             all == d \o r
  <2>7. /\ k \in Nat /\ DOMAIN d = 1..k /\ k + 1 \in DOMAIN all /\ all[k + 1] = x
        /\ \A i \in 1..k : i \in DOMAIN all /\ all[i] = d[i]
    <3>1. /\ k \in Nat /\ Len(r) \in Nat \ {0} /\ DOMAIN d = 1..k
          /\ all \in Seq(Seq(Names)) /\ Len(all) = k + Len(r)
          /\ \A i \in 1..k + Len(r) : all[i] = IF i <= k THEN d[i] ELSE r[i - k]
      BY <2>4, ConcatProperties
    <3>2. DOMAIN all = 1..k + Len(r)
      BY <3>1
    <3>3. k + 1 \in 1..k + Len(r) /\ ~(k + 1 <= k) /\ k + 1 - k = 1
      BY <3>1
    <3>4. \A i \in 1..k : i \in 1..k + Len(r) /\ i <= k
      BY <3>1
    <3> HIDE DEF all, k
    <3> QED BY <2>6, <3>1, <3>2, <3>3, <3>4
  <2> HIDE DEF k, all
  <2>8. Kind(x) = "dir"
    BY <2>1, <2>7 DEF Sound, all
  <2>9. Canonical(x).at = x
    <3>1. Canonical(x) = From(x, <<>>, MaxLinks)
      BY <2>8, CanonicalSelf
    <3> QED BY <3>1 DEF From
  <2>10. ~\E i \in DOMAIN d : d[i] = x
    <3>1. SUFFICES ASSUME NEW i \in 1..k, d[i] = x PROVE FALSE
      BY <2>7
    <3>2. i = k + 1
      BY <2>1, <2>7, <3>1 DEF Sound, all
    <3> QED BY <2>7, <3>2
  <2>11. n.set = Append(d, x)
    BY <2>3, <2>9, <2>10 DEF Join
  <2>12. n.set \o n.rest = d \o r
    BY <2>3, <2>6, <2>11
  <2> QED BY <2>1, <2>2, <2>5, <2>12
<1>4. \A w \in Opens : w \in J
  <2> HIDE DEF J
  <2> QED BY <1>2, <1>3, OpenInduction
<1> DEFINE w == [set |-> <<>>, rest |-> set]
<1>5. w \in Opens /\ w.set = <<>> /\ w.rest = set
  BY EmptySeq DEF Opens, Sound
<1>6. <<>> \o set = set
  BY ConcatEmptySeq DEF Sound
<1> HIDE DEF w
<1>7. h[w].set = set
  BY <1>4, <1>5, <1>6
<1> QED BY <1>1, <1>7 DEF w

--------------------------------------------------------------------------------
(* Resolve.                                                                 *)

LEMMA Constants ==
  /\ MaxLinks \in Nat /\ "." \notin Names /\ ".." \notin Names
  /\ \A t \in Trees : IsTree(t)
  /\ \A args \in Roots : args \in Seq(Seq(Names)) /\ args # <<>>
  /\ \A s \in Spellings : s.names \in Seq(Words)
BY PathsAssumption

\* The roots are open in a file system.
Ready == IsTree(tree) /\ Sound(roots) /\ roots # <<>>

\* An accepted path: its root and relative path lead to its absolute name.
Means(r) ==
  /\ r.root \in DOMAIN roots /\ r.rel \in Seq(Names) /\ r.abs \in Seq(Names)
  /\ CanonicalizeParent(roots[r.root] \o r.rel).err = "nil"
  /\ CanonicalizeParent(roots[r.root] \o r.rel).at = r.abs
  /\ CanonicalizeParent(r.abs) = Ok(r.abs)
  /\ ~InState(r.abs)
  /\ \E i \in DOMAIN roots : Within(r.abs, roots[i])

LEMMA RelativeMeans ==
  ASSUME Ready, NEW names \in Seq(Words), ResolveRelative(names) # Denied
  PROVE  Means(ResolveRelative(names))
<1> DEFINE clean  == Clean(FALSE, names)
           mapped == CanonicalizeParent(Primary \o clean)
           r      == ResolveRelative(names)
<1>1. /\ ~Escapes(clean) /\ mapped.err = "nil" /\ Within(mapped.at, Primary)
      /\ ~InState(mapped.at) /\ r = [root |-> 1, rel |-> clean, abs |-> mapped.at]
  BY Zenon DEF ResolveRelative
<1>2. clean \in Seq(Names)
  BY <1>1, Constants, CleanRelative
<1>3. r.root = 1 /\ r.rel = clean /\ r.abs = mapped.at
  BY <1>1
<1>4. 1 \in DOMAIN roots /\ Primary \in Seq(Names)
  BY DEF Ready, Sound, Primary
<1> HIDE DEF clean, r
<1>5. Primary \o clean \in Seq(Names)
  BY <1>2, <1>4, ConcatProperties
<1>6. mapped.at \in Seq(Names) /\ CanonicalizeParent(mapped.at) = Ok(mapped.at)
  <2> DEFINE p == Primary \o clean
  <2> HIDE DEF p
  <2>1. CanonicalizeParent(p).at \in Seq(Names)
        /\ CanonicalizeParent(CanonicalizeParent(p).at) = Ok(CanonicalizeParent(p).at)
    BY <1>1, <1>5, Constants, ParentFixed DEF Ready, p
  <2> QED BY <2>1 DEF p
<1>7. mapped.err = "nil" /\ mapped.at = r.abs
  BY <1>1, <1>3
<1>8. CanonicalizeParent(roots[r.root] \o r.rel) = mapped
  BY <1>3 DEF Primary
<1> HIDE DEF mapped
<1>9. \E i \in DOMAIN roots : Within(r.abs, roots[i])
  BY <1>1, <1>3, <1>4 DEF Primary
<1> QED BY <1>1, <1>2, <1>3, <1>4, <1>6, <1>7, <1>8, <1>9 DEF Means, r

\* What is in a root is the root and the rest.
LEMMA WithinIs ==
  ASSUME NEW p \in Seq(Names), NEW R \in Seq(Names), Within(p, R)
  PROVE  /\ SubSeq(p, Len(R) + 1, Len(p)) \in Seq(Names)
         /\ p = R \o SubSeq(p, Len(R) + 1, Len(p))
<1>1. Len(R) \in 0..Len(p) /\ SubSeq(p, 1, Len(R)) = R
  BY DEF Within
<1> DEFINE k == Len(R)
<1> HIDE DEF k
<1>2. p = SubSeq(p, 1, k) \o SubSeq(p, k + 1, Len(p)) /\ SubSeq(p, k + 1, Len(p)) \in Seq(Names)
  BY <1>1, Cut DEF k
<1> QED BY <1>1, <1>2 DEF k

\* One of the roots that a path is in is the most specific.
LEMMA MostSpecific ==
  ASSUME Sound(roots), NEW p \in Seq(Names), NEW C \in SUBSET DOMAIN roots, C # {},
         \A i \in C : Within(p, roots[i])
  PROVE  \E i \in C : \A j \in C : Len(roots[j]) <= Len(roots[i])
<1> DEFINE T == {n \in 0..Len(p) : \E i \in C : Len(roots[i]) = Len(p) - n}
<1>1. Len(p) \in Nat /\ \A i \in C : Len(roots[i]) \in 0..Len(p)
  BY DEF Sound, Within
<1>2. \A i \in C : Len(p) - Len(roots[i]) \in T
  <2>1. ASSUME NEW i \in C PROVE Len(p) - Len(roots[i]) \in T
    <3> DEFINE a == Len(p)
               b == Len(roots[i])
    <3>1. a \in Nat /\ b \in 0..a
      BY <1>1
    <3> HIDE DEF a, b
    <3>2. a - b \in 0..a /\ b = a - (a - b)
      BY <3>1
    <3> QED BY <3>2 DEF a, b
  <2> HIDE DEF T
  <2> QED BY <2>1
<1>3. PICK n \in T : \A m \in T : ~(m < n)
  <2>1. T \in SUBSET Nat
    BY <1>1
  <2> HIDE DEF T
  <2>2. T # {}
    BY <1>2
  <2> QED BY <2>1, <2>2, Least
<1>4. PICK i \in C : Len(roots[i]) = Len(p) - n
  BY <1>3
<1>5. n \in 0..Len(p)
  BY <1>3
<1> HIDE DEF T
<1>6. ASSUME NEW j \in C PROVE Len(roots[j]) <= Len(roots[i])
  <2> DEFINE a == Len(p)
             b == Len(roots[i])
             c == Len(roots[j])
  <2>1. a \in Nat /\ b \in 0..a /\ c \in 0..a /\ ~(a - c < n) /\ b = a - n /\ n \in 0..a
    BY <1>1, <1>2, <1>3, <1>4, <1>5
  <2> HIDE DEF a, b, c
  <2>2. c <= b
    BY <2>1
  <2> QED BY <2>2 DEF b, c
<1> QED BY <1>6

LEMMA AbsoluteMeans ==
  ASSUME Ready, NEW names \in Seq(Words), ResolveAbsolute(names) # Denied
  PROVE  Means(ResolveAbsolute(names))
<1> DEFINE p          == Clean(TRUE, names)
           mapped     == CanonicalizeParent(p)
           b          == mapped.at
           candidates == {i \in DOMAIN roots : Within(b, roots[i])}
           root       == CHOOSE i \in candidates :
                           \A j \in candidates : Len(roots[j]) <= Len(roots[i])
           r          == ResolveAbsolute(names)
<1>1. /\ mapped.err = "nil" /\ ~InState(b) /\ candidates # {}
      /\ r = [root |-> root, rel |-> SubSeq(b, Len(roots[root]) + 1, Len(b)), abs |-> b]
  BY Zenon DEF ResolveAbsolute
<1>2. p \in Seq(Names)
  BY CleanAbsolute
<1> HIDE DEF p, r
<1>3. b \in Seq(Names) /\ CanonicalizeParent(b) = Ok(b)
  BY <1>1, <1>2, Constants, ParentFixed DEF Ready
<1> HIDE DEF b
<1>4. root \in candidates
  <2>1. candidates \in SUBSET DOMAIN roots /\ \A i \in candidates : Within(b, roots[i])
    OBVIOUS
  <2> HIDE DEF candidates
  <2>2. \E i \in candidates : \A j \in candidates : Len(roots[j]) <= Len(roots[i])
    BY <1>1, <1>3, <2>1, MostSpecific DEF Ready
  <2> QED BY <2>2
<1>5. root \in DOMAIN roots /\ Within(b, roots[root])
  BY <1>4
<1> HIDE DEF root, candidates, mapped
<1>6. roots[root] \in Seq(Names)
  BY <1>5 DEF Ready, Sound
<1> DEFINE rel == SubSeq(b, Len(roots[root]) + 1, Len(b))
<1>7. rel \in Seq(Names) /\ b = roots[root] \o rel
  BY <1>3, <1>5, <1>6, WithinIs
<1>8. r.root = root /\ r.rel = rel /\ r.abs = b
  BY <1>1
<1> HIDE DEF rel
<1>9. CanonicalizeParent(roots[r.root] \o r.rel) = Ok(b)
  BY <1>3, <1>7, <1>8
<1>10. Ok(b).err = "nil" /\ Ok(b).at = b
  BY OkIs
<1> QED BY <1>1, <1>3, <1>5, <1>7, <1>8, <1>9, <1>10, Zenon DEF Means, r

LEMMA AcceptedMeans ==
  ASSUME Ready, NEW r \in Accepted
  PROVE  Means(r)
<1>1. PICK s \in Spellings : r = Resolve(s) /\ r # Denied
  BY DEF Accepted
<1>2. s.names \in Seq(Words)
  BY Constants
<1>3. CASE s.abs
  <2>1. r = ResolveAbsolute(s.names)
    BY <1>1, <1>3 DEF Resolve
  <2> QED BY <1>1, <1>2, <2>1, AbsoluteMeans
<1>4. CASE ~s.abs
  <2>1. r = ResolveRelative(s.names)
    BY <1>1, <1>4 DEF Resolve
  <2> QED BY <1>1, <1>2, <2>1, RelativeMeans
<1> QED BY <1>3, <1>4

\* A path whose way leads to its absolute name.
Leads(r) ==
  /\ r.root \in DOMAIN roots /\ r.rel \in Seq(Names) /\ r.abs \in Seq(Names)
  /\ StillLeads(r)

\* What the handle finds of it.
LEMMA ReachedIs ==
  ASSUME Ready, NEW r, Leads(r)
  PROVE  /\ Reached(r).err \in {"nil", "missing", "other"}
         /\ Reached(r).err = "nil" => Reached(r).at = r.abs
         /\ Reached(r).err = "missing" => Kind(r.abs) = "none"
<1> DEFINE R == roots[r.root]
<1>1. Kind(R) = "dir" /\ r.rel \in Seq(Names)
  BY DEF Ready, Sound, Leads
<1>2. CanonicalizeParent(R \o r.rel).err = "nil" /\ CanonicalizeParent(R \o r.rel).at = r.abs
  BY DEF Leads, StillLeads
<1>3. Reached(r) = RootWalk(R)[From(R, r.rel, MaxLinks)]
  BY DEF Reached
<1> HIDE DEF R
<1> QED BY <1>1, <1>2, <1>3, Constants, FoundIs DEF Ready

--------------------------------------------------------------------------------
(* The invariant.                                                           *)

\* Open roots are canonical directories, each once, and those of the journal.
RootsInv ==
  /\ phase \in {"open", "killed"} => /\ journaled = roots /\ roots # <<>>
                                     /\ roots \in Seq(Seq(Names))
                                     /\ \A i, j \in DOMAIN roots : roots[i] = roots[j] => i = j
  /\ phase \in {"open", "reopened"} => Sound(roots) /\ roots # <<>>
  /\ phase = "closed" => kept = Denied

\* What the journal keeps names a root of the journal, and nothing reserved.
KeptInv ==
  kept # Denied => /\ kept.root \in DOMAIN journaled
                   /\ kept.rel \in Seq(Names) /\ kept.abs \in Seq(Names)
                   /\ ~Within(kept.abs, Append(journaled[1], State))

Inv ==
  /\ tree \in Trees /\ phase \in {"closed", "open", "killed", "reopened", "refused"}
  /\ RootsInv
  /\ KeptInv

LEMMA InvReady ==
  ASSUME Inv, phase = "open"
  PROVE  Ready /\ journaled = roots
BY Constants DEF Inv, RootsInv, Ready

LEMMA InitInv == Init => Inv
BY DEF Init, Inv, RootsInv, KeptInv

LEMMA OpenInv ==
  ASSUME Inv, Open
  PROVE  Inv'
<1>1. /\ tree' = tree /\ tree \in Trees /\ IsTree(tree) /\ kept' = kept
      /\ phase = "closed" /\ kept = Denied
  BY Constants DEF Open, Inv, RootsInv
<1>2. KeptInv'
  BY <1>1 DEF KeptInv, Denied
<1>3. PICK args \in Roots :
        \/ phase' = "refused"
        \/ CanOpen(args) /\ phase' = "open" /\ roots' = Opened(args) /\ journaled' = Opened(args)
  BY Zenon DEF Open
<1>4. CASE phase' = "refused"
  BY <1>1, <1>2, <1>4 DEF Inv, RootsInv
<1>5. CASE CanOpen(args) /\ phase' = "open" /\ roots' = Opened(args) /\ journaled' = Opened(args)
  <2>1. Sound(roots') /\ roots' # <<>>
    BY <1>1, <1>5, Constants, OpenedSound
  <2>2. Sound(roots)'
    BY <1>1, <2>1 DEF Sound, Kind
  <2>3. RootsInv'
    BY <1>5, <2>1, <2>2 DEF RootsInv, Sound
  <2> QED BY <1>1, <1>2, <1>5, <2>3 DEF Inv
<1> QED BY <1>3, <1>4, <1>5

LEMMA PrepareInv ==
  ASSUME Inv, Prepare
  PROVE  Inv'
<1>1. /\ phase = "open" /\ kept' \in Accepted
      /\ tree' = tree /\ roots' = roots /\ journaled' = journaled /\ phase' = phase
  BY DEF Prepare
<1>2. Means(kept') /\ journaled = roots
  BY <1>1, InvReady, AcceptedMeans
<1>3. KeptInv'
  BY <1>1, <1>2 DEF KeptInv, Means, InState, Primary
<1>4. RootsInv'
  BY <1>1 DEF Inv, RootsInv, Sound, Kind
<1> QED BY <1>1, <1>3, <1>4 DEF Inv

LEMMA KillInv ==
  ASSUME Inv, Kill
  PROVE  Inv'
<1>1. /\ phase = "open" /\ phase' = "killed"
      /\ tree' = tree /\ roots' = roots /\ journaled' = journaled /\ kept' = kept
  BY DEF Kill
<1>2. RootsInv'
  BY <1>1 DEF Inv, RootsInv
<1>3. KeptInv'
  BY <1>1 DEF Inv, KeptInv
<1> QED BY <1>1, <1>2, <1>3 DEF Inv

LEMMA ChangeInv ==
  ASSUME Inv, Change
  PROVE  Inv'
<1>1. /\ phase \in {"open", "killed"} /\ tree' \in Trees
      /\ roots' = roots /\ journaled' = journaled /\ kept' = kept /\ phase' = phase
      /\ phase = "open" => RootsInPlace'
  BY DEF Change
<1>2. KeptInv'
  BY <1>1 DEF Inv, KeptInv
<1>3. phase = "open" => Sound(roots)'
  BY <1>1 DEF Inv, RootsInv, Sound, RootsInPlace
<1>4. RootsInv'
  BY <1>1, <1>3 DEF Inv, RootsInv
<1> QED BY <1>1, <1>2, <1>4 DEF Inv

LEMMA ReopenInv ==
  ASSUME Inv, Reopen
  PROVE  Inv'
<1>1. /\ tree' = tree /\ tree \in Trees /\ IsTree(tree) /\ phase = "killed"
      /\ journaled' = journaled /\ kept' = kept
      /\ journaled \in Seq(Seq(Names)) /\ journaled # <<>>
  BY Constants DEF Reopen, Inv, RootsInv
<1>2. KeptInv'
  BY <1>1 DEF Inv, KeptInv
<1>3. CASE phase' = "refused"
  BY <1>1, <1>2, <1>3 DEF Inv, RootsInv
<1>4. CASE CanOpen(journaled) /\ phase' = "reopened" /\ roots' = Opened(journaled)
  <2>1. Sound(roots') /\ roots' # <<>>
    BY <1>1, <1>4, Constants, OpenedSound
  <2>2. Sound(roots)'
    BY <1>1, <2>1 DEF Sound, Kind
  <2> QED BY <1>1, <1>2, <1>4, <2>1, <2>2 DEF Inv, RootsInv
<1> QED BY <1>3, <1>4 DEF Reopen

LEMMA NextInv == Inv /\ [Next]_vars => Inv'
<1>1. ASSUME Inv, Next PROVE Inv'
  BY <1>1, OpenInv, PrepareInv, KillInv, ChangeInv, ReopenInv DEF Next
<1>2. ASSUME Inv, UNCHANGED vars PROVE Inv'
  BY <1>2 DEF Inv, RootsInv, KeptInv, Sound, Kind, vars
<1> QED BY <1>1, <1>2

\* Of open roots and of a path kept, whatever others change, the invariant holds in a run,
\* after its death and in its recovery.
THEOREM Invariance == Spec => []Inv
<1> QED BY InitInv, NextInv, PTL DEF Spec

--------------------------------------------------------------------------------
(* The theorems.                                                            *)

\* The variables have their types: the roots of a set are directories (Open), and a
\* path, accepted or kept, has one of them (Resolve).
THEOREM TypeCorrect == Spec => []TypeOK
<1>1. Inv => TypeOK
  <2>1. ASSUME Inv, phase = "open" PROVE \A r \in Accepted : r.root \in DOMAIN roots
    BY <2>1, InvReady, AcceptedMeans DEF Means
  <2> QED BY <2>1 DEF Inv, RootsInv, KeptInv, TypeOK, Sound, RootsInPlace
<1> QED BY <1>1, Invariance, PTL

\* What a run uses leads to its absolute name, and that is not reserved.
LEMMA UsedLeads ==
  ASSUME Inv, phase = "open", NEW r \in Used
  PROVE  Leads(r) /\ ~Within(r.abs, Append(roots[1], State))
<1>1. CASE r \in Accepted
  <2>1. Means(r)
    BY <1>1, InvReady, AcceptedMeans
  <2> QED BY <2>1 DEF Means, Leads, StillLeads, InState, Primary
<1>2. CASE r = kept /\ kept # Denied /\ StillLeads(r)
  BY <1>2, InvReady DEF Inv, KeptInv, Leads
<1> QED BY <1>1, <1>2 DEF Used

LEMMA VerdictIs ==
  ASSUME Inv, phase = "open", NEW r \in Used, NEW c \in Conditions
  PROVE  Evaluate(c, Reached(r)) \in {"error", Verdict(c, Kind(r.abs))}
<1>1. /\ Reached(r).err \in {"nil", "missing", "other"}
      /\ Reached(r).err = "nil" => Reached(r).at = r.abs
      /\ Reached(r).err = "missing" => Kind(r.abs) = "none"
  BY InvReady, UsedLeads, ReachedIs
<1>2. CASE Reached(r).err = "nil"
  BY <1>1, <1>2 DEF Evaluate
<1>3. CASE Reached(r).err = "missing"
  BY <1>1, <1>3 DEF Evaluate
<1>4. CASE Reached(r).err = "other"
  BY <1>4 DEF Evaluate
<1> QED BY <1>1, <1>2, <1>3, <1>4

\* While a run lasts, the name the planner uses (Resolve's Absolute) and the entry that
\* the handle of the root opens are one, of what it resolves and of what it has kept.
THEOREM NameCorrect == Spec => []NameIsEntry
<1>1. Inv => NameIsEntry
  <2>1. SUFFICES ASSUME Inv, phase = "open"
                 PROVE  \A r \in Used :
                          LET found == Reached(r) IN
                          /\ found.err = "nil" => found.at = r.abs
                          /\ \A c \in Conditions :
                               Evaluate(c, found) \in {"error", Verdict(c, Kind(r.abs))}
    BY Zenon DEF NameIsEntry
  <2>2. \A r \in Used : Reached(r).err = "nil" => Reached(r).at = r.abs
    BY <2>1, InvReady, UsedLeads, ReachedIs
  <2>3. \A r \in Used, c \in Conditions :
          Evaluate(c, Reached(r)) \in {"error", Verdict(c, Kind(r.abs))}
    BY <2>1, VerdictIs
  <2> QED BY <2>2, <2>3, Zenon
<1> QED BY <1>1, Invariance, PTL

\* Whatever root, links and spelling a script uses, what Resolve accepts is neither the
\* state directory nor in it.
THEOREM ReservedCorrect == Spec => []StateIsReserved
<1>1. Inv => StateIsReserved
  <2>1. ASSUME Inv, phase = "open", NEW r \in Used
        PROVE  /\ ~Within(r.abs, Append(roots[1], State))
               /\ Reached(r).err = "nil" => ~Within(Reached(r).at, Append(roots[1], State))
    BY <2>1, InvReady, UsedLeads, ReachedIs
  <2> QED BY <2>1, Zenon DEF StateIsReserved
<1> QED BY <1>1, Invariance, PTL

\* A recovery (Recover: pathcap.Open, then handles by number) finds the roots of the run
\* under the numbers of the journal if they are still there, and under the path that was
\* kept the entry it was prepared for, if its links still lead there.
THEOREM RecoveryCorrect == Spec => RecoveryReaches
<1> DEFINE Step == phase = "killed" /\ phase' = "reopened" /\ RootsInPlace =>
                     /\ roots' = roots
                     /\ kept # Denied =>
                          LET found == Reached(kept)' IN
                          StillLeads(kept) /\ found.err = "nil" =>
                            found.at = kept.abs /\ ~Within(found.at, Append(roots[1], State))
<1>1. Inv /\ [Next]_vars => [Step]_vars
  <2>1. SUFFICES ASSUME Inv, Next, phase = "killed", phase' = "reopened", RootsInPlace
                 PROVE  /\ roots' = roots
                        /\ kept # Denied =>
                             LET found == Reached(kept)' IN
                             StillLeads(kept) /\ found.err = "nil" =>
                               found.at = kept.abs /\ ~Within(found.at, Append(roots[1], State))
    BY Zenon
  <2>2. /\ tree' = tree /\ kept' = kept /\ roots' = Opened(journaled) /\ tree \in Trees
    BY <2>1 DEF Next, Open, Prepare, Kill, Change, Reopen, Inv
  <2>3. journaled = roots /\ Sound(roots) /\ Ready
    BY <2>1, <2>2, Constants DEF Inv, RootsInv, RootsInPlace, Sound, Ready
  <2>4. roots' = roots
    BY <2>2, <2>3, Constants, OpenedSame
  <2>5. Reached(kept)' = Reached(kept)
    BY <2>2, <2>4 DEF Reached, RootWalk, RootStep, Kind, Follow, Entry
  <2>6. ASSUME kept # Denied, StillLeads(kept), Reached(kept).err = "nil"
        PROVE  Reached(kept).at = kept.abs /\ ~Within(kept.abs, Append(roots[1], State))
    <3>1. Leads(kept)
      BY <2>1, <2>3, <2>6 DEF Inv, KeptInv, Leads
    <3> QED BY <2>1, <2>3, <2>6, <3>1, ReachedIs DEF Inv, KeptInv
  <2> QED BY <2>4, <2>5, <2>6
<1>2. Spec => [][Step]_vars
  BY <1>1, Invariance, PTL DEF Spec
<1> QED BY <1>2 DEF RecoveryReaches

\* Resolving the absolute name of an accepted path gives that name again (requireParent
\* and markDirectoryChain of the planner resolve names a second time).
THEOREM AgainCorrect == Spec => []ResolvedAgain
<1>1. Inv => ResolvedAgain
  <2>1. ASSUME Inv, phase = "open", NEW r \in Accepted
        PROVE  Resolve([abs |-> TRUE, names |-> r.abs]).abs = r.abs
    <3> DEFINE candidates == {i \in DOMAIN roots : Within(r.abs, roots[i])}
    <3>1. Means(r)
      BY <2>1, InvReady, AcceptedMeans
    <3>2. Clean(TRUE, r.abs) = r.abs
      BY <3>1, Constants, CleanSame DEF Means
    <3>3. CanonicalizeParent(Clean(TRUE, r.abs)) = Ok(r.abs) /\ ~InState(r.abs) /\ candidates # {}
      BY <3>1, <3>2 DEF Means
    <3>4. Ok(r.abs).err = "nil" /\ Ok(r.abs).at = r.abs
      BY OkIs
    <3> HIDE DEF candidates
    <3>5. ResolveAbsolute(r.abs).abs = r.abs
      BY <3>3, <3>4 DEF ResolveAbsolute, candidates
    <3> QED BY <3>5 DEF Resolve
  <2> QED BY <2>1, Zenon DEF ResolvedAgain
<1> QED BY <1>1, Invariance, PTL

================================================================================
