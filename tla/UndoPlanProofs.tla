----------------------------- MODULE UndoPlanProofs ----------------------------
(***************************************************************************)
(* The planner foresees what the engine will find, proved for all sets of  *)
(* paths, all trees on disk and scripts of any length, without the three   *)
(* habits.                                                                 *)
(***************************************************************************)
EXTENDS UndoPlan, SequenceTheorems, WellFoundedInduction, TLAPS

\* No script has a habit that the overlay does not foresee.
Careful == Habits \subseteq Avoid

--------------------------------------------------------------------------------
(* Paths.                                                                      *)

LEMMA PathType ==
  ASSUME NEW p \in Paths
  PROVE  p \in Seq(STRING) /\ Len(p) \in Nat
BY PathsAssumption, LenProperties

LEMMA BelowTransitive ==
  ASSUME NEW p \in Paths, NEW q \in Paths, NEW r \in Paths, Below(p, q), Below(q, r)
  PROVE  Below(p, r)
<1>1. Len(p) \in Nat /\ Len(q) \in Nat /\ Len(r) \in Nat
  BY PathType
<1>2. \A i \in 1..Len(r) : p[i] = q[i] /\ q[i] = r[i]
  BY <1>1 DEF Below
<1>3. Len(r) < Len(p)
  BY <1>1 DEF Below
<1> QED BY <1>2, <1>3 DEF Below

LEMMA BelowIrreflexive ==
  ASSUME NEW p \in Paths, NEW q \in Paths, Below(p, q)
  PROVE  p # q /\ ~Below(q, p)
BY PathType DEF Below

\* Two paths above the same one are above each other.
LEMMA AboveLinear ==
  ASSUME NEW p \in Paths, NEW q \in Paths, NEW r \in Paths, Below(p, q), Below(p, r)
  PROVE  q = r \/ Below(q, r) \/ Below(r, q)
<1>1. Len(p) \in Nat /\ Len(q) \in Nat /\ Len(r) \in Nat
  BY PathType
<1>2. CASE Len(q) < Len(r)
  <2>1. \A i \in 1..Len(q) : r[i] = q[i]
    BY <1>1, <1>2 DEF Below
  <2> QED BY <1>2, <2>1 DEF Below
<1>3. CASE Len(r) < Len(q)
  <2>1. \A i \in 1..Len(r) : q[i] = r[i]
    BY <1>1, <1>3 DEF Below
  <2> QED BY <1>3, <2>1 DEF Below
<1>4. CASE Len(q) = Len(r)
  <2>1. \A i \in 1..Len(q) : q[i] = r[i]
    BY <1>1, <1>4 DEF Below
  <2> QED BY <1>4, <2>1, PathType, SeqEqual
<1> QED BY <1>1, <1>2, <1>3, <1>4

LEMMA RootAbove ==
  ASSUME NEW p \in Paths, p # Root
  PROVE  Root \in Paths /\ Below(p, Root) /\ ~Below(Root, p)
<1>1. p \in Seq(STRING) /\ Len(p) \in Nat \ {0} /\ Len(Root) = 0
  BY PathType, EmptySeq DEF Root
<1> QED BY <1>1, PathsAssumption DEF Below

\* The parent is the lowest of the paths above.
LEMMA ParentAbove ==
  ASSUME NEW p \in Paths, p # Root
  PROVE  /\ Parent(p) \in Paths
         /\ Below(p, Parent(p))
         /\ \A q \in Paths : Below(p, q) => q = Parent(p) \/ Below(Parent(p), q)
<1>1. p \in Seq(STRING) /\ Len(p) \in Nat \ {0}
  BY PathType, EmptySeq DEF Root
<1>2. /\ Parent(p) \in Seq(STRING)
      /\ Len(Parent(p)) = Len(p) - 1
      /\ \A i \in 1..Len(p) - 1 : Parent(p)[i] = p[i]
  <2>1. \A i \in 1..Len(p) - 1 : p[i] \in STRING
    BY <1>1, ElementOfSeq
  <2>2. /\ SubSeq(p, 1, Len(p) - 1) \in Seq(STRING)
        /\ Len(SubSeq(p, 1, Len(p) - 1)) = IF 1 <= Len(p) - 1 THEN Len(p) - 1 - 1 + 1 ELSE 0
        /\ \A i \in 1..(Len(p) - 1) - 1 + 1 : SubSeq(p, 1, Len(p) - 1)[i] = p[1 + i - 1]
    BY <1>1, <2>1, SubSeqProperties
  <2>3. Len(SubSeq(p, 1, Len(p) - 1)) = Len(p) - 1
    <3>1. \A n \in Nat \ {0} : (IF 1 <= n - 1 THEN n - 1 - 1 + 1 ELSE 0) = n - 1
      OBVIOUS
    <3> QED BY <1>1, <2>2, <3>1
  <2>4. \A i \in 1..Len(p) - 1 : SubSeq(p, 1, Len(p) - 1)[i] = p[i]
    <3> SUFFICES ASSUME NEW i \in 1..Len(p) - 1
                 PROVE  SubSeq(p, 1, Len(p) - 1)[i] = p[i]
      OBVIOUS
    <3>1. i \in 1..(Len(p) - 1) - 1 + 1 /\ 1 + i - 1 = i
      BY <1>1
    <3> QED BY <2>2, <3>1
  <2> QED BY <2>2, <2>3, <2>4 DEF Parent
<1>3. Parent(p) \in Paths
  BY <1>1, PathsAssumption DEF Parent
<1>4. Below(p, Parent(p))
  <2>1. Len(Parent(p)) < Len(p)
    BY <1>1, <1>2
  <2> QED BY <1>1, <1>2, <2>1 DEF Below
<1>5. \A q \in Paths : Below(p, q) => Len(q) <= Len(Parent(p))
  <2> SUFFICES ASSUME NEW q \in Paths, Below(p, q)
               PROVE  Len(q) <= Len(Parent(p))
    OBVIOUS
  <2>1. Len(q) \in Nat /\ Len(q) < Len(p)
    BY PathType DEF Below
  <2> QED BY <1>1, <1>2, <2>1
<1>6. \A q \in Paths : Below(q, Parent(p)) => Len(Parent(p)) < Len(q)
  BY DEF Below
<1>7. \A q \in Paths : Below(p, q) => ~Below(q, Parent(p))
  <2> SUFFICES ASSUME NEW q \in Paths, Below(p, q), Below(q, Parent(p))
               PROVE  FALSE
    OBVIOUS
  <2>1. Len(q) <= Len(Parent(p)) /\ Len(Parent(p)) < Len(q)
    BY <1>5, <1>6
  <2>2. Len(q) \in Nat /\ Len(Parent(p)) \in Nat
    BY <1>3, PathType
  <2> QED BY <2>1, <2>2
<1> QED BY <1>3, <1>4, <1>7, AboveLinear

\* Among numbers there is a least one.
LEMMA Least ==
  ASSUME NEW T, T \subseteq Nat, T # {}
  PROVE  \E x \in T : \A y \in T : ~(y < x)
<1> DEFINE R == OpToRel(<, Nat)
<1>1. IsWellFoundedOn(R, Nat)
  BY NatLessThanWellFounded
<1>2. \A x, y \in Nat : x < y => <<x, y>> \in R
  BY DEF OpToRel
<1>3. PICK x \in T : \A y \in T : ~(<<y, x>> \in R)
  <2> HIDE DEF R
  <2> QED BY <1>1, WFMin
<1> QED BY <1>2, <1>3

\* Of the paths above another one, if there are any, one is the lowest.
LEMMA Lowest ==
  ASSUME NEW s \in SUBSET Paths, NEW p \in Paths, \E q \in s : Below(p, q)
  PROVE  \E q \in s : /\ Below(p, q)
                      /\ \A r \in s : Below(p, r) => Len(r) <= Len(q)
<1> DEFINE T == {Len(p) - Len(q) : q \in {r \in s : Below(p, r)}}
<1>1. \A q \in s : Below(p, q) => Len(p) - Len(q) \in Nat /\ Len(q) \in Nat /\ Len(p) \in Nat
  <2> SUFFICES ASSUME NEW q \in s, Below(p, q)
               PROVE  Len(p) - Len(q) \in Nat /\ Len(q) \in Nat /\ Len(p) \in Nat
    OBVIOUS
  <2>1. Len(q) \in Nat /\ Len(p) \in Nat /\ Len(q) < Len(p)
    BY PathType DEF Below
  <2> QED BY <2>1
<1>2. T \subseteq Nat /\ T # {}
  BY <1>1
<1>3. PICK x \in T : \A y \in T : ~(y < x)
  BY <1>2, Least
<1>4. PICK q \in s : Below(p, q) /\ x = Len(p) - Len(q)
  BY <1>3
<1>5. \A r \in s : Below(p, r) => Len(r) <= Len(q)
  <2> SUFFICES ASSUME NEW r \in s, Below(p, r)
               PROVE  Len(r) <= Len(q)
    OBVIOUS
  <2>1. ~(Len(p) - Len(r) < Len(p) - Len(q))
    BY <1>3, <1>4
  <2> QED BY <1>1, <1>4, <2>1
<1> QED BY <1>4, <1>5

--------------------------------------------------------------------------------
(* The overlay: values v, synthetic paths s and unstable ones u, over disk d,  *)
(* and the tree t that it stands for.                                          *)

Covered(s, p) == \E q \in s : Below(p, q)

OverlayType(v, s, u, t) ==
  /\ v \in [Paths -> Kinds \cup {"unread"}]
  /\ s \subseteq Paths /\ u \subseteq s
  /\ t \in [Paths -> Kinds] /\ WellFormed(t)

\* What is known of a path is true of the tree; what no operation set, of the disk too.
Agreed(v, s, t, d) ==
  \A p \in Paths :
    /\ v[p] # "unread" => v[p] = t[p]
    /\ v[p] = "unread" => p \notin s
    /\ v[p] # "unread" /\ p \notin s => v[p] = d[p]

\* What was read and exists is below nothing that an operation set.
Apparent(v, s) == \A p \in Paths \ s : v[p] \notin {"unread", "none"} => ~Covered(s, p)

\* Where nothing is known the operations have done nothing, ...
Untouched(v, s, t, d) ==
  \A p \in Paths : v[p] = "unread" /\ ~Covered(s, p) => t[p] = d[p]

\* ... or left nothing, if nothing above is unstable.
Emptied(v, s, u, t) ==
  \A p \in Paths : v[p] = "unread" /\ Covered(s, p) /\ ~Covered(u, p) => t[p] = "none"

\* Below an unstable directory nothing is known.
Opaque(v, s, u) ==
  \A q \in u : v[q] = "dir" /\ \A p \in Paths : Below(p, q) => p \notin s /\ v[p] = "unread"

Overlay(v, s, u, t, d) ==
  /\ OverlayType(v, s, u, t) /\ Agreed(v, s, t, d) /\ Apparent(v, s)
  /\ Untouched(v, s, t, d) /\ Emptied(v, s, u, t) /\ Opaque(v, s, u)

\* Paths that no operation covers may be looked up on disk.
LEMMA Look ==
  ASSUME NEW v, NEW s, NEW u, NEW t, NEW d, NEW w, Overlay(v, s, u, t, d),
         w \in [Paths -> Kinds \cup {"unread"}],
         \A p \in Paths : w[p] # v[p] => v[p] = "unread" /\ ~Covered(s, p) /\ w[p] = d[p]
  PROVE  Overlay(w, s, u, t, d)
<1> USE DEF Overlay
<1>1. OverlayType(w, s, u, t)
  BY DEF OverlayType
<1>2. Agreed(w, s, t, d)
  BY DEF Agreed, Untouched
<1>3. Apparent(w, s)
  BY DEF Apparent
<1>4. Untouched(w, s, t, d)
  BY DEF Untouched
<1>5. Emptied(w, s, u, t)
  BY DEF Emptied
<1>6. Opaque(w, s, u)
  <2> SUFFICES ASSUME NEW q \in u
               PROVE  /\ w[q] = "dir"
                      /\ \A p \in Paths : Below(p, q) => p \notin s /\ w[p] = "unread"
    BY DEF Opaque
  <2>1. q \in s /\ q \in Paths /\ v[q] = "dir"
    BY DEF OverlayType, Opaque
  <2>2. w[q] = "dir"
    BY <2>1
  <2>3. \A p \in Paths : Below(p, q) => Covered(s, p)
    BY <2>1 DEF Covered
  <2> QED BY <2>2, <2>3 DEF Opaque
<1> QED BY <1>1, <1>2, <1>3, <1>4, <1>5, <1>6

\* Paths c that are not directories, below nothing unstable, are made of kind k.
LEMMA Make ==
  ASSUME NEW v, NEW s, NEW u, NEW t, NEW d, NEW w, NEW z, NEW c \in SUBSET Paths, NEW k \in Kinds,
         Overlay(v, s, u, t, d), WellFormed(z),
         \A p \in c : t[p] # "dir" /\ ~Covered(u, p),
         z = [p \in Paths |-> IF p \in c THEN k ELSE t[p]],
         w = [p \in Paths |-> IF p \in c THEN k ELSE v[p]]
  PROVE  Overlay(w, s \cup c, u \ c, z, d)
<1> USE DEF Overlay
<1>1. \A p \in Paths : Covered(c, p) => t[p] = "none"
  BY DEF Covered, OverlayType, WellFormed
<1>2. \A p \in Paths : Covered(s \cup c, p) <=> Covered(s, p) \/ Covered(c, p)
  BY DEF Covered
<1>3. u \cap c = {} /\ u \ c = u
  <2>1. \A q \in u : v[q] = "dir" /\ q \in Paths
    BY DEF Opaque, OverlayType
  <2>2. \A q \in u : t[q] = "dir"
    BY <2>1 DEF Agreed
  <2> QED BY <2>2
<1>4. k # "unread"
  BY DEF Kinds
<1>5. OverlayType(w, s \cup c, u \ c, z)
  BY <1>3, <1>4 DEF OverlayType
<1>6. Agreed(w, s \cup c, z, d)
  BY <1>4 DEF Agreed
<1>7. Apparent(w, s \cup c)
  <2> SUFFICES ASSUME NEW p \in Paths \ (s \cup c), w[p] \notin {"unread", "none"}
               PROVE  ~Covered(s \cup c, p)
    BY DEF Apparent
  <2>1. w[p] = v[p]
    OBVIOUS
  <2>2. t[p] # "none" /\ ~Covered(s, p)
    BY <2>1 DEF Agreed, Apparent
  <2> QED BY <1>1, <1>2, <2>2
<1>8. Untouched(w, s \cup c, z, d)
  BY <1>2, <1>4 DEF Untouched
<1>9. Emptied(w, s \cup c, u \ c, z)
  BY <1>1, <1>2, <1>3, <1>4 DEF Emptied
<1>10. Opaque(w, s \cup c, u \ c)
  <2> SUFFICES ASSUME NEW q \in u
               PROVE  /\ w[q] = "dir"
                      /\ \A p \in Paths : Below(p, q) => p \notin s \cup c /\ w[p] = "unread"
    BY <1>3 DEF Opaque
  <2>1. w[q] = "dir"
    BY <1>3 DEF Opaque, OverlayType
  <2>2. \A p \in c : ~Below(p, q)
    BY DEF Covered
  <2> QED BY <2>1, <2>2 DEF Opaque
<1> QED BY <1>5, <1>6, <1>7, <1>8, <1>9, <1>10

\* Of what is at and below x nothing is known but x: it becomes of kind k, with
\* anything below if k is a directory, and nothing otherwise.
LEMMA Graft ==
  ASSUME NEW v, NEW s, NEW u, NEW t, NEW d, NEW w, NEW z, NEW r, NEW x \in Paths, NEW k \in Kinds,
         Overlay(v, s, u, t, d), z \in [Paths -> Kinds], WellFormed(z),
         ~Covered(u, x),
         \A p \in Paths : Below(p, x) => p \notin s /\ v[p] = "unread",
         z[x] = k,
         \A p \in Paths : p # x /\ ~Below(p, x) => z[p] = t[p],
         k # "dir" => \A p \in Paths : Below(p, x) => z[p] = "none",
         w = [v EXCEPT ![x] = k],
         r = IF k = "dir" THEN u \cup {x} ELSE u \ {x}
  PROVE  Overlay(w, s \cup {x}, r, z, d)
<1> USE DEF Overlay
<1>1. /\ w \in [Paths -> Kinds \cup {"unread"}] /\ w[x] = k
      /\ \A p \in Paths : p # x => w[p] = v[p]
  BY DEF OverlayType
<1>2. \A p \in Paths : Covered(s \cup {x}, p) <=> Covered(s, p) \/ Below(p, x)
  BY DEF Covered
<1>3. \A p \in Paths : ~Below(p, x) /\ Covered(u, p) => Covered(r, p)
  BY DEF Covered
<1>4. k # "unread"
  BY DEF Kinds
<1>5. OverlayType(w, s \cup {x}, r, z)
  BY <1>1 DEF OverlayType
<1>6. Agreed(w, s \cup {x}, z, d)
  BY <1>1, <1>4 DEF Agreed
<1>7. Apparent(w, s \cup {x})
  BY <1>1, <1>2 DEF Apparent
<1>8. Untouched(w, s \cup {x}, z, d)
  BY <1>1, <1>2, <1>4 DEF Untouched
<1>9. Emptied(w, s \cup {x}, r, z)
  <2> SUFFICES ASSUME NEW p \in Paths, w[p] = "unread", Covered(s \cup {x}, p), ~Covered(r, p)
               PROVE  z[p] = "none"
    BY DEF Emptied
  <2>1. CASE Below(p, x)
    <3>1. k # "dir"
      BY <2>1 DEF Covered
    <3> QED BY <2>1, <3>1
  <2>2. CASE ~Below(p, x)
    <3>1. p # x /\ v[p] = "unread" /\ Covered(s, p) /\ ~Covered(u, p)
      BY <1>1, <1>2, <1>3, <1>4, <2>2
    <3> QED BY <2>2, <3>1 DEF Emptied
  <2> QED BY <2>1, <2>2
<1>10. Opaque(w, s \cup {x}, r)
  <2> SUFFICES ASSUME NEW q \in r
               PROVE  /\ w[q] = "dir"
                      /\ \A p \in Paths : Below(p, q) => p \notin s \cup {x} /\ w[p] = "unread"
    BY DEF Opaque
  <2>1. CASE q = x
    <3>1. k = "dir"
      BY <2>1
    <3>2. \A p \in Paths : Below(p, x) => p # x
      BY BelowIrreflexive
    <3> QED BY <1>1, <2>1, <3>1, <3>2
  <2>2. CASE q # x
    <3>1. q \in u /\ q \in Paths
      BY <2>2 DEF OverlayType
    <3>2. ~Below(x, q)
      BY <3>1 DEF Covered
    <3> QED BY <1>1, <2>2, <3>1, <3>2 DEF Opaque
  <2> QED BY <2>1, <2>2
<1> QED BY <1>5, <1>6, <1>7, <1>8, <1>9, <1>10

--------------------------------------------------------------------------------
(* The invariant, and what Get then says.                                       *)

Now == Overlay(values, synthetic, unstable, tree, disk)

Inv == TypeOK /\ NoSurprise /\ Now

\* Cover(p) is empty or has the one path.
LEMMA CoverIs ==
  ASSUME NEW p \in Paths, synthetic \subseteq Paths
  PROVE  /\ Cover(p) = {} <=> ~Covered(synthetic, p)
         /\ \A q \in Cover(p) : /\ q \in synthetic /\ Below(p, q)
                                /\ \A r \in synthetic : Below(p, r) => r = q \/ Below(q, r)
<1>1. Covered(synthetic, p) => Cover(p) # {}
  BY Lowest DEF Covered, Cover
<1>2. ASSUME NEW q \in Cover(p)
      PROVE  /\ q \in synthetic /\ Below(p, q)
             /\ \A r \in synthetic : Below(p, r) => r = q \/ Below(q, r)
  <2>1. q \in synthetic /\ Below(p, q) /\ \A r \in synthetic : Below(p, r) => Len(r) <= Len(q)
    BY <1>2 DEF Cover
  <2>2. ASSUME NEW r \in synthetic, Below(p, r)
        PROVE  r = q \/ Below(q, r)
    <3>1. r = q \/ Below(q, r) \/ Below(r, q)
      BY <2>1, <2>2, AboveLinear
    <3>2. ~Below(r, q)
      BY <2>1, <2>2, PathType DEF Below
    <3> QED BY <3>1, <3>2
  <2> QED BY <2>1, <2>2
<1> QED BY <1>1, <1>2 DEF Covered

\* If p is below an unstable path the overlay says that it does not know.
LEMMA GetUnstable ==
  ASSUME Inv, NEW p \in Paths, Covered(unstable, p)
  PROVE  Get(p) = "conflict"
<1>1. PICK q \in unstable : Below(p, q)
  BY DEF Covered
<1>2. /\ q \in synthetic /\ q \in Paths /\ synthetic \subseteq Paths /\ values[q] = "dir"
      /\ values[p] = "unread" /\ \A r \in synthetic : ~Below(r, q)
  BY <1>1 DEF Inv, Now, Overlay, OverlayType, Opaque
<1>3. PICK r \in Cover(p) : TRUE
  BY <1>1, <1>2, CoverIs DEF Covered
<1>4. r = q
  BY <1>1, <1>2, <1>3, CoverIs
<1> QED BY <1>1, <1>2, <1>3, <1>4 DEF Get

\* Otherwise it is right, or there is a file or link above on disk.
LEMMA GetStable ==
  ASSUME Inv, NEW p \in Paths, ~Covered(unstable, p)
  PROVE  \/ Get(p) = tree[p]
         \/ /\ Get(p) = "error" /\ values[p] = "unread" /\ ~Covered(synthetic, p)
            /\ \E q \in Paths : Below(p, q) /\ disk[q] \in {"file", "link"}
<1>1. synthetic \subseteq Paths
  BY DEF Inv, Now, Overlay, OverlayType
<1>2. CASE values[p] # "unread"
  <2>1. Get(p) = values[p]
    BY <1>2 DEF Get
  <2> QED BY <1>2, <2>1 DEF Inv, Now, Overlay, Agreed
<1>3. CASE values[p] = "unread" /\ Covered(synthetic, p)
  <2>1. Cover(p) # {} /\ ~ \E q \in Cover(p) : q \in unstable
    BY <1>1, <1>3, CoverIs DEF Covered
  <2>2. Get(p) = "none"
    BY <1>3, <2>1 DEF Get
  <2> QED BY <1>3, <2>2 DEF Inv, Now, Overlay, Emptied
<1>4. CASE values[p] = "unread" /\ ~Covered(synthetic, p)
  <2>1. Cover(p) = {} /\ tree[p] = disk[p]
    BY <1>1, <1>4, CoverIs DEF Inv, Now, Overlay, Untouched
  <2>2. ~ \E q \in Cover(p) : values[q] # "none" /\ q \in unstable
    BY <2>1
  <2>3. Get(p) = IF \E q \in Paths : Below(p, q) /\ disk[q] \in {"file", "link"}
                 THEN "error" ELSE disk[p]
    BY <1>4, <2>1, <2>2 DEF Get
  <2> QED BY <1>4, <2>1, <2>3
<1> QED BY <1>2, <1>3, <1>4

\* An answer that is a kind is the right one.
LEMMA GetKind ==
  ASSUME Inv, NEW p \in Paths, Get(p) \in Kinds
  PROVE  Get(p) = tree[p] /\ ~Covered(unstable, p)
BY GetUnstable, GetStable DEF Kinds

\* ... and if nothing is known and the path exists, nothing above was set.
LEMMA GetOnDisk ==
  ASSUME Inv, NEW p \in Paths, Exists(Get(p)), p \notin synthetic
  PROVE  disk[p] = tree[p] /\ ~Covered(synthetic, p) /\ Get(p) = disk[p]
<1>1. Get(p) = tree[p] /\ ~Covered(unstable, p) /\ tree[p] # "none" /\ tree[p] # "unread"
  BY GetKind DEF Exists, Kinds
<1>2. CASE values[p] = "unread"
  BY <1>1, <1>2 DEF Inv, Now, Overlay, Untouched, Emptied
<1>3. CASE values[p] # "unread"
  BY <1>1, <1>3 DEF Inv, Now, Overlay, Agreed, Apparent
<1> QED BY <1>1, <1>2, <1>3

\* What is above a path that exists are directories.
LEMMA AboveExisting ==
  ASSUME NEW t \in [Paths -> Kinds], WellFormed(t), NEW p \in Paths, t[p] # "none"
  PROVE  \A q \in Paths : Below(p, q) => t[q] = "dir"
BY DEF WellFormed

\* The planner looks at the parent only: above it are directories too.
LEMMA ParentEnough ==
  ASSUME Inv, NEW p \in Named, RequireParent(p)
  PROVE  /\ p \in Paths /\ p # Root /\ Parent(p) \in Paths /\ tree[Parent(p)] = "dir"
         /\ Parented(p) /\ ~Covered(unstable, p)
<1>1. p \in Paths /\ p # Root
  BY PathsAssumption
<1>2. /\ Parent(p) \in Paths /\ Below(p, Parent(p))
      /\ \A q \in Paths : Below(p, q) => q = Parent(p) \/ Below(Parent(p), q)
  BY <1>1, ParentAbove
<1>3. tree[Parent(p)] = "dir" /\ ~Covered(unstable, Parent(p)) /\ Parent(p) \notin unstable
  BY <1>2, GetKind DEF RequireParent, Kinds
<1>4. tree \in [Paths -> Kinds] /\ WellFormed(tree) /\ unstable \subseteq Paths
  BY DEF Inv, Now, Overlay, OverlayType
<1>5. \A q \in Paths : Below(Parent(p), q) => tree[q] = "dir"
  BY <1>2, <1>3, <1>4, AboveExisting
<1>6. ~Covered(unstable, p)
  BY <1>2, <1>3, <1>4 DEF Covered
<1> QED BY <1>1, <1>2, <1>3, <1>5, <1>6 DEF Parented

\* What get keeps of lookups changes nothing that the overlay stands for.
LEMMA Lookups ==
  ASSUME Inv, NEW ps \in SUBSET Paths
  PROVE  Overlay(Cached(ps), synthetic, unstable, tree, disk)
<1>1. /\ values \in [Paths -> Kinds \cup {"unread"}] /\ synthetic \subseteq Paths
      /\ disk \in [Paths -> Kinds]
  BY PathsAssumption DEF Inv, TypeOK, Now, Overlay, OverlayType
<1>2. Cached(ps) \in [Paths -> Kinds \cup {"unread"}]
  BY <1>1 DEF Cached
<1>3. \A p \in Paths : Cached(ps)[p] # values[p]
        => values[p] = "unread" /\ ~Covered(synthetic, p) /\ Cached(ps)[p] = disk[p]
  BY <1>1, CoverIs DEF Cached
<1> QED BY <1>2, <1>3, Look DEF Inv, Now

--------------------------------------------------------------------------------
(* Trees after an operation.                                                   *)

\* The path below s that corresponds to p, name by name.
LEMMA OriginIs ==
  ASSUME NEW p \in Paths, NEW s \in Paths, NEW d \in Paths, p = d \/ Below(p, d)
  PROVE  /\ Origin(p, s, d) \in Seq(STRING)
         /\ Len(Origin(p, s, d)) = Len(s) + (Len(p) - Len(d))
         /\ Len(p) - Len(d) \in Nat
         /\ \A i \in 1..Len(s) : Origin(p, s, d)[i] = s[i]
         /\ \A i \in 1..Len(s) + (Len(p) - Len(d)) :
              i > Len(s) => Origin(p, s, d)[i] = p[i - Len(s) + Len(d)]
<1> DEFINE e == SubSeq(p, Len(d) + 1, Len(p))
<1>1. /\ p \in Seq(STRING) /\ s \in Seq(STRING)
      /\ Len(p) \in Nat /\ Len(s) \in Nat /\ Len(d) \in Nat /\ Len(p) - Len(d) \in Nat
  <2>1. Len(p) \in Nat /\ Len(d) \in Nat /\ Len(d) <= Len(p)
    BY PathType DEF Below
  <2> QED BY <2>1, PathType
<1>2. /\ e \in Seq(STRING) /\ Len(e) = Len(p) - Len(d)
      /\ \A i \in 1..Len(p) - Len(d) : e[i] = p[i + Len(d)]
  <2>1. \A i \in Len(d) + 1..Len(p) : p[i] \in STRING
    BY <1>1, ElementOfSeq
  <2>2. /\ e \in Seq(STRING)
        /\ Len(e) = IF Len(d) + 1 <= Len(p) THEN Len(p) - (Len(d) + 1) + 1 ELSE 0
        /\ \A i \in 1..Len(p) - (Len(d) + 1) + 1 : e[i] = p[Len(d) + 1 + i - 1]
    BY <1>1, <2>1, SubSeqProperties
  <2>3. \A m, n \in Nat : m - n \in Nat =>
          (IF n + 1 <= m THEN m - (n + 1) + 1 ELSE 0) = m - n
    OBVIOUS
  <2>4. Len(e) = Len(p) - Len(d)
    BY <1>1, <2>2, <2>3
  <2>5. ASSUME NEW i \in 1..Len(p) - Len(d)
        PROVE  e[i] = p[i + Len(d)]
    <3>1. i \in 1..Len(p) - (Len(d) + 1) + 1 /\ Len(d) + 1 + i - 1 = i + Len(d)
      BY <1>1
    <3> QED BY <2>2, <3>1
  <2> QED BY <2>2, <2>4, <2>5
<1>3. Origin(p, s, d) = s \o e
  BY DEF Origin
<1> HIDE DEF e
<1>4. /\ s \o e \in Seq(STRING) /\ Len(s \o e) = Len(s) + Len(e)
      /\ \A i \in 1..Len(s) + Len(e) : (s \o e)[i] = IF i <= Len(s) THEN s[i] ELSE e[i - Len(s)]
  <2>1. \A S : \A s1, s2 \in Seq(S) :
          /\ s1 \o s2 \in Seq(S)
          /\ Len(s1 \o s2) = Len(s1) + Len(s2)
          /\ \A i \in 1..Len(s1) + Len(s2) :
               (s1 \o s2)[i] = IF i <= Len(s1) THEN s1[i] ELSE s2[i - Len(s1)]
    BY ConcatProperties, Zenon
  <2>2. s \in Seq(STRING) /\ e \in Seq(STRING)
    BY <1>1, <1>2
  <2> QED BY <2>1, <2>2, Zenon
<1>5. \A i \in 1..Len(s) : (s \o e)[i] = s[i]
  <2> SUFFICES ASSUME NEW i \in 1..Len(s)
               PROVE  (s \o e)[i] = s[i]
    OBVIOUS
  <2>1. i \in 1..Len(s) + Len(e) /\ i <= Len(s)
    BY <1>1, <1>2
  <2> QED BY <1>4, <2>1
<1>6. ASSUME NEW i \in 1..Len(s) + (Len(p) - Len(d)), i > Len(s)
      PROVE  (s \o e)[i] = p[i - Len(s) + Len(d)]
  <2>1. i \in 1..Len(s) + Len(e) /\ ~(i <= Len(s)) /\ i - Len(s) \in 1..Len(p) - Len(d)
    BY <1>1, <1>2, <1>6
  <2>2. (s \o e)[i] = e[i - Len(s)]
    BY <1>4, <2>1
  <2> QED BY <1>2, <2>1, <2>2
<1> QED BY <1>1, <1>2, <1>3, <1>4, <1>5, <1>6

LEMMA OriginTop ==
  ASSUME NEW s \in Paths, NEW d \in Paths
  PROVE  Origin(d, s, d) = s
<1>1. Len(s) \in Nat /\ Len(d) \in Nat
  BY PathType
<1>2. Origin(d, s, d) \in Seq(STRING) /\ Len(Origin(d, s, d)) = Len(s)
  BY <1>1, OriginIs
<1>3. \A i \in 1..Len(Origin(d, s, d)) : Origin(d, s, d)[i] = s[i]
  BY <1>2, OriginIs
<1> QED BY <1>2, <1>3, SeqEqual, PathType

LEMMA OriginBelow ==
  ASSUME NEW p \in Paths, NEW s \in Paths, NEW d \in Paths, Below(p, d)
  PROVE  Below(Origin(p, s, d), s)
<1>1. Len(p) \in Nat /\ Len(s) \in Nat /\ Len(d) \in Nat /\ Len(d) < Len(p)
  BY PathType DEF Below
<1>2. Len(s) < Len(Origin(p, s, d))
  BY <1>1, OriginIs
<1>3. \A i \in 1..Len(s) : Origin(p, s, d)[i] = s[i]
  BY OriginIs
<1> QED BY <1>2, <1>3 DEF Below

LEMMA OriginOrder ==
  ASSUME NEW p \in Paths, NEW q \in Paths, NEW s \in Paths, NEW d \in Paths,
         Below(p, q), q = d \/ Below(q, d)
  PROVE  /\ Below(Origin(p, s, d), Origin(q, s, d))
         /\ Origin(p, s, d) \in Paths => Origin(q, s, d) \in Paths
<1> DEFINE a == Origin(p, s, d)  b == Origin(q, s, d)
<1>1. /\ Len(p) \in Nat /\ Len(q) \in Nat /\ Len(s) \in Nat /\ Len(d) \in Nat
      /\ Len(q) < Len(p) /\ Len(d) <= Len(q)
  BY PathType DEF Below
<1>2. Below(p, d)
  BY BelowTransitive
<1>3. /\ a \in Seq(STRING) /\ Len(a) = Len(s) + (Len(p) - Len(d))
      /\ \A i \in 1..Len(s) : a[i] = s[i]
      /\ \A i \in 1..Len(s) + (Len(p) - Len(d)) : i > Len(s) => a[i] = p[i - Len(s) + Len(d)]
  BY <1>2, OriginIs
<1>4. /\ b \in Seq(STRING) /\ Len(b) = Len(s) + (Len(q) - Len(d))
      /\ \A i \in 1..Len(s) : b[i] = s[i]
      /\ \A i \in 1..Len(s) + (Len(q) - Len(d)) : i > Len(s) => b[i] = q[i - Len(s) + Len(d)]
  BY OriginIs
<1> HIDE DEF a, b
<1>5. Len(b) < Len(a) /\ Len(a) \in Nat /\ Len(b) \in Nat
  BY <1>1, <1>3, <1>4
<1>6. ASSUME NEW i \in 1..Len(b)
      PROVE  a[i] = b[i]
  <2>1. CASE i <= Len(s)
    <3>1. i \in 1..Len(s)
      BY <1>1, <2>1, <1>4
    <3> QED BY <1>3, <1>4, <3>1
  <2>2. CASE i > Len(s)
    <3>1. /\ i \in 1..Len(s) + (Len(p) - Len(d)) /\ i \in 1..Len(s) + (Len(q) - Len(d))
          /\ i - Len(s) + Len(d) \in 1..Len(q)
      BY <1>1, <1>4, <2>2
    <3>2. p[i - Len(s) + Len(d)] = q[i - Len(s) + Len(d)]
      BY <3>1 DEF Below
    <3> QED BY <1>3, <1>4, <2>2, <3>1, <3>2
  <2> QED BY <1>1, <1>5, <2>1, <2>2
<1>7. Below(a, b)
  BY <1>5, <1>6 DEF Below
<1>8. ASSUME a \in Paths
      PROVE  b \in Paths
  <2>1. SubSeq(a, 1, Len(b)) \in Paths
    BY <1>5, <1>8, PathsAssumption
  <2>2. Len(SubSeq(a, 1, Len(b))) = Len(b)
    <3>1. \A i \in 1..Len(b) : a[i] \in STRING
      BY <1>3, <1>5, ElementOfSeq
    <3>2. Len(SubSeq(a, 1, Len(b))) = IF 1 <= Len(b) THEN Len(b) - 1 + 1 ELSE 0
      BY <1>5, <3>1, SubSeqProperties
    <3>3. \A n \in Nat : (IF 1 <= n THEN n - 1 + 1 ELSE 0) = n
      OBVIOUS
    <3> QED BY <1>5, <3>2, <3>3
  <2>3. \A i \in 1..Len(b) : SubSeq(a, 1, Len(b))[i] = a[i]
    <3>1. \A i \in 1..Len(b) : a[i] \in STRING
      BY <1>3, <1>5, ElementOfSeq
    <3>2. \A i \in 1..Len(b) - 1 + 1 : SubSeq(a, 1, Len(b))[i] = a[1 + i - 1]
      BY <1>5, <3>1, SubSeqProperties
    <3>3. \A i \in 1..Len(b) : i \in 1..Len(b) - 1 + 1 /\ 1 + i - 1 = i
      BY <1>5
    <3> QED BY <3>2, <3>3
  <2>4. SubSeq(a, 1, Len(b)) = b
    BY <1>4, <1>6, <2>1, <2>2, <2>3, SeqEqual, PathType
  <2> QED BY <2>1, <2>4
<1> QED BY <1>7, <1>8 DEF a, b

\* Without what is at and below x a tree is still one.
LEMMA StripWell ==
  ASSUME NEW t \in [Paths -> Kinds], WellFormed(t), NEW x \in Paths, x # Root, NEW z,
         z = [p \in Paths |-> IF p = x \/ Below(p, x) THEN "none" ELSE t[p]]
  PROVE  z \in [Paths -> Kinds] /\ WellFormed(z)
<1>1. z \in [Paths -> Kinds]
  BY DEF Kinds
<1>2. z[Root] = "dir"
  BY RootAbove DEF WellFormed
<1>3. ASSUME NEW p \in Paths, NEW q \in Paths, Below(p, q), z[q] # "dir"
      PROVE  z[p] = "none"
  <2>1. CASE q = x \/ Below(q, x)
    BY <1>3, <2>1, BelowTransitive
  <2>2. CASE ~(q = x \/ Below(q, x))
    <3>1. t[p] = "none"
      BY <1>3, <2>2 DEF WellFormed
    <3> QED BY <3>1
  <2> QED BY <2>1, <2>2
<1> QED BY <1>1, <1>2, <1>3 DEF WellFormed

\* What copy leaves.
LEMMA CopiedWell ==
  ASSUME tree \in [Paths -> Kinds], WellFormed(tree), NEW s \in Paths, NEW d \in Paths, d # Root,
         Parented(d)
  PROVE  /\ Copied(s, d) \in [Paths -> Kinds] /\ WellFormed(Copied(s, d))
         /\ Copied(s, d)[d] = tree[s]
         /\ \A p \in Paths : p # d /\ ~Below(p, d) => Copied(s, d)[p] = tree[p]
         /\ tree[s] # "dir" => \A p \in Paths : Below(p, d) => Copied(s, d)[p] = "none"
<1> DEFINE z == Copied(s, d)
<1>1. /\ z \in [Paths -> Kinds]
      /\ \A p \in Paths : p # d /\ ~Below(p, d) => z[p] = tree[p]
      /\ \A p \in Paths : p = d \/ Below(p, d) =>
           z[p] = IF Origin(p, s, d) \in Paths THEN tree[Origin(p, s, d)] ELSE "none"
  BY DEF Copied, Kinds
<1>2. z[d] = tree[s]
  BY <1>1, OriginTop
<1>3. ASSUME tree[s] # "dir", NEW p \in Paths, Below(p, d)
      PROVE  z[p] = "none"
  BY <1>1, <1>3, OriginBelow DEF WellFormed
<1> HIDE DEF z
<1>4. z[Root] = "dir"
  BY <1>1, RootAbove DEF WellFormed
<1>5. ASSUME NEW p \in Paths, NEW q \in Paths, Below(p, q), z[q] # "dir"
      PROVE  z[p] = "none"
  <2>1. CASE q = d \/ Below(q, d)
    <3>1. Below(p, d)
      BY <1>5, <2>1, BelowTransitive
    <3>2. CASE Origin(p, s, d) \in Paths
      <4>1. Origin(q, s, d) \in Paths /\ Below(Origin(p, s, d), Origin(q, s, d))
        BY <1>5, <2>1, <3>2, OriginOrder
      <4>2. z[q] = tree[Origin(q, s, d)] /\ z[p] = tree[Origin(p, s, d)]
        BY <1>1, <2>1, <3>1, <3>2, <4>1
      <4> QED BY <1>5, <3>2, <4>1, <4>2 DEF WellFormed
    <3>3. CASE Origin(p, s, d) \notin Paths
      BY <1>1, <3>1, <3>3
    <3> QED BY <3>2, <3>3
  <2>2. CASE ~(q = d \/ Below(q, d))
    <3>1. z[q] = tree[q]
      BY <1>1, <2>2
    <3>2. ~Below(d, q)
      BY <1>5, <3>1 DEF Parented
    <3>3. p # d /\ ~Below(p, d)
      BY <1>5, <2>2, <3>2, AboveLinear
    <3>4. z[p] = tree[p]
      BY <1>1, <3>3
    <3> QED BY <1>5, <3>1, <3>4 DEF WellFormed
  <2> QED BY <2>1, <2>2
<1> QED BY <1>1, <1>2, <1>3, <1>4, <1>5 DEF WellFormed, z

--------------------------------------------------------------------------------
(* The steps.                                                                   *)

LEMMA NowType ==
  ASSUME Inv
  PROVE  /\ values \in [Paths -> Kinds \cup {"unread"}] /\ synthetic \subseteq Paths
         /\ unstable \subseteq synthetic /\ tree \in [Paths -> Kinds] /\ WellFormed(tree)
         /\ disk \in [Paths -> Kinds] /\ WellFormed(disk)
BY PathsAssumption DEF Inv, TypeOK, Now, Overlay, OverlayType

\* What mkdir finds above its target: directories that are there or missing ones.
LEMMA MkdirFinds ==
  ASSUME Careful, Inv, NEW t \in Named, Mkdir(t)
  PROVE  \A q \in Paths : q = t \/ Below(t, q) =>
           Get(q) = tree[q] /\ tree[q] \in {"none", "dir"} /\ ~Covered(unstable, q)
<1>1. t \in Paths /\ Get(t) = tree[t] /\ tree[t] = "none" /\ ~Covered(unstable, t)
  BY GetKind, PathsAssumption DEF Mkdir, PlansMkdir, Kinds
<1>2. \A q \in Paths : Below(t, q) => Get(q) \notin {"file", "link"}
  BY DEF Careful, Mkdir, Allows, Habits
<1>3. ASSUME NEW q \in Paths, Below(t, q)
      PROVE  ~Covered(unstable, q)
  BY <1>1, <1>3, NowType, BelowTransitive DEF Covered
<1>4. ASSUME NEW q \in Paths, Below(t, q)
      PROVE  Get(q) = tree[q]
  <2> SUFFICES ASSUME ~Covered(synthetic, q),
                      \E r \in Paths : Below(q, r) /\ disk[r] \in {"file", "link"}
               PROVE  FALSE
    BY <1>3, <1>4, GetStable
  <2>1. PICK r \in Paths : Below(q, r) /\ disk[r] \in {"file", "link"}
    OBVIOUS
  <2>2. Below(t, r) /\ r \notin synthetic /\ ~Covered(unstable, r)
    <3>1. Below(t, r)
      BY <1>1, <1>4, <2>1, BelowTransitive
    <3>2. r \notin synthetic
      BY <2>1 DEF Covered
    <3> QED BY <1>3, <2>1, <3>1, <3>2
  <2>3. ~Covered(synthetic, r)
    BY <2>1, NowType, BelowTransitive DEF Covered
  <2>4. tree[r] = disk[r]
    BY <2>2, <2>3 DEF Inv, Now, Overlay, Agreed, Untouched
  <2>5. \A p \in Paths : Below(r, p) => disk[p] = "dir"
    BY <2>1, NowType, AboveExisting
  <2>6. Get(r) = tree[r]
    BY <2>2, <2>5, GetStable
  <2> QED BY <1>2, <2>1, <2>2, <2>4, <2>6
<1> QED BY <1>1, <1>2, <1>3, <1>4, NowType DEF Kinds

LEMMA MkdirStep ==
  ASSUME Careful, Inv, NEW t \in Named, Mkdir(t)
  PROVE  Now' /\ CanMkdir(t)
<1> DEFINE C == Chain(t)
           ps == {q \in Paths : Below(t, q) /\ \A r \in Paths : Below(t, r) /\ Below(r, q) => r \in Chain(t)}
<1>1. t \in Paths /\ t # Root /\ C \subseteq Paths /\ ps \subseteq Paths
  BY PathsAssumption DEF Chain
<1>2. \A q \in Paths : q = t \/ Below(t, q) =>
        Get(q) = tree[q] /\ tree[q] \in {"none", "dir"} /\ ~Covered(unstable, q)
  BY MkdirFinds
<1>3. CanMkdir(t)
  BY <1>2 DEF CanMkdir
<1>4. \A c \in C : (c = t \/ Below(t, c)) /\ tree[c] = "none" /\ ~Covered(unstable, c)
  <2> SUFFICES ASSUME NEW c \in C
               PROVE  (c = t \/ Below(t, c)) /\ tree[c] = "none" /\ ~Covered(unstable, c)
    OBVIOUS
  <2>1. c \in Paths /\ (c = t \/ Below(t, c)) /\ ~Exists(Get(c))
    BY PathType DEF Chain
  <2> QED BY <1>2, <2>1 DEF Exists
<1>5. ASSUME NEW q \in Paths, Below(t, q), q \notin C
      PROVE  tree[q] = "dir"
  <2>1. PICK r \in Paths : (r = t \/ Below(t, r)) /\ Len(q) <= Len(r) /\ Exists(Get(r))
    BY <1>5 DEF Chain
  <2>2. tree[r] = "dir" /\ r # t
    <3>1. Get(t) = "none"
      BY DEF Mkdir, PlansMkdir
    <3> QED BY <1>1, <1>2, <2>1, <3>1 DEF Exists
  <2>3. q = r \/ Below(r, q)
    <3>1. q = r \/ Below(r, q) \/ Below(q, r)
      BY <1>1, <1>5, <2>1, <2>2, AboveLinear
    <3>2. ~Below(q, r)
      BY <2>1, PathType DEF Below
    <3> QED BY <3>1, <3>2
  <2> QED BY <2>2, <2>3, NowType, AboveExisting
<1>6. t \in C
  <2> SUFFICES ASSUME NEW r \in Paths, r = t \/ Below(t, r), Len(t) <= Len(r)
               PROVE  ~Exists(Get(r))
    BY <1>1 DEF Chain
  <2>1. r = t
    BY <1>1, PathType DEF Below
  <2> QED BY <2>1 DEF Mkdir, PlansMkdir, Exists
<1>7. Made(t) = [p \in Paths |-> IF p \in C THEN "dir" ELSE tree[p]]
  BY <1>4, <1>5, <1>6 DEF Made
<1>8. WellFormed(Made(t))
  <2>1. Made(t)[Root] = "dir"
    BY <1>1, NowType, PathsAssumption DEF Made, WellFormed
  <2>2. ASSUME NEW p \in Paths, NEW q \in Paths, Below(p, q), Made(t)[q] # "dir"
        PROVE  Made(t)[p] = "none"
    <3>1. q # t /\ ~Below(t, q) /\ tree[q] # "dir"
      BY <1>1, <2>2 DEF Made
    <3>2. p # t /\ ~Below(t, p)
      BY <1>1, <2>2, <3>1, BelowTransitive
    <3>3. Made(t)[p] = tree[p]
      BY <3>2 DEF Made
    <3> QED BY <2>2, <3>1, <3>3, NowType DEF WellFormed
  <2> QED BY <2>1, <2>2 DEF WellFormed
<1>9. tree' = Made(t) /\ disk' = disk
  BY <1>3 DEF Mkdir, Join
<1>10. /\ values' = [p \in Paths |-> IF p \in C THEN "dir" ELSE Cached(ps)[p]]
       /\ synthetic' = synthetic \cup C /\ unstable' = unstable \ C
  BY DEF Mkdir, Set
<1>11. Overlay(Cached(ps), synthetic, unstable, tree, disk)
  BY <1>1, Lookups
<1>12. "dir" \in Kinds /\ \A p \in C : tree[p] # "dir" /\ ~Covered(unstable, p)
  BY <1>4 DEF Kinds
<1> HIDE DEF C, ps
<1>13. Overlay(values', synthetic \cup C, unstable \ C, tree', disk)
  BY <1>1, <1>7, <1>8, <1>9, <1>10, <1>11, <1>12, Make
<1> QED BY <1>3, <1>9, <1>10, <1>13 DEF Now

LEMMA MkdirNoopStep ==
  ASSUME Inv, NEW t \in Named, MkdirNoop(t)
  PROVE  Now' /\ CanMkdir(t)
<1>1. t \in Paths /\ tree[t] = "dir"
  BY GetKind, PathsAssumption DEF MkdirNoop, PlansNoop, Kinds
<1>2. \A q \in Paths : Below(t, q) => tree[q] = "dir"
  BY <1>1, NowType, AboveExisting
<1>3. CanMkdir(t)
  BY <1>1, <1>2 DEF CanMkdir
<1>4. Made(t) = tree
  BY <1>1, <1>2, NowType DEF Made
<1>5. tree' = tree /\ disk' = disk
  BY <1>3, <1>4 DEF MkdirNoop, Join
<1>6. values' = Cached({t}) /\ synthetic' = synthetic /\ unstable' = unstable
  <2>1. Cached({t}) = [p \in Paths |-> Cached({t})[p]]
    BY DEF Cached
  <2> QED BY <2>1 DEF MkdirNoop, Set
<1>7. Overlay(Cached({t}), synthetic, unstable, tree, disk)
  BY <1>1, Lookups
<1> QED BY <1>3, <1>5, <1>6, <1>7 DEF Now

LEMMA WriteStep ==
  ASSUME Inv, NEW t \in Named, Write(t)
  PROVE  Now' /\ CanWrite(t)
<1> DEFINE ps == {Parent(t)}
<1>1. /\ t \in Paths /\ t # Root /\ Parent(t) \in Paths
      /\ Parented(t) /\ ~Covered(unstable, t)
  BY ParentEnough DEF Write, PlansWrite
<1>2. tree[t] \in {"none", "file"}
  BY <1>1, GetKind DEF Write, PlansWrite, Kinds
<1>3. CanWrite(t)
  BY <1>1, <1>2 DEF CanWrite
<1>4. Put(t) = [p \in Paths |-> IF p \in {t} THEN "file" ELSE tree[p]]
  BY NowType DEF Put
<1>5. WellFormed(Put(t))
  <2>1. Put(t)[Root] = "dir"
    BY <1>1, <1>4, NowType, PathsAssumption DEF WellFormed
  <2>2. ASSUME NEW p \in Paths, NEW q \in Paths, Below(p, q), Put(t)[q] # "dir"
        PROVE  Put(t)[p] = "none"
    <3>1. tree[q] # "dir"
      BY <1>2, <1>4, <2>2
    <3>2. tree[p] = "none" /\ p # t
      BY <1>1, <2>2, <3>1, NowType DEF WellFormed, Parented
    <3> QED BY <1>4, <3>2
  <2> QED BY <2>1, <2>2 DEF WellFormed
<1>6. tree' = Put(t) /\ disk' = disk
  BY <1>3 DEF Write, Join
<1>7. /\ values' = [p \in Paths |-> IF p \in {t} THEN "file" ELSE Cached(ps)[p]]
      /\ synthetic' = synthetic \cup {t} /\ unstable' = unstable \ {t}
  BY DEF Write, Set
<1>8. Overlay(Cached(ps), synthetic, unstable, tree, disk)
  BY <1>1, Lookups
<1>9. "file" \in Kinds /\ \A p \in {t} : tree[p] # "dir" /\ ~Covered(unstable, p)
  BY <1>1, <1>2 DEF Kinds
<1> HIDE DEF ps
<1>10. Overlay(values', synthetic \cup {t}, unstable \ {t}, tree', disk)
  BY <1>1, <1>4, <1>5, <1>6, <1>7, <1>8, <1>9, Make
<1> QED BY <1>3, <1>6, <1>7, <1>10 DEF Now

LEMMA ReplaceStep ==
  ASSUME Inv, NEW t \in Named, Replace(t)
  PROVE  Now' /\ CanReplace(t)
<1>1. t \in Paths /\ tree[t] = "file"
  BY GetKind, PathsAssumption DEF Replace, PlansReplace, Kinds
<1>2. CanReplace(t)
  BY <1>1, NowType, AboveExisting DEF CanReplace, Parented
<1>3. tree' = tree /\ disk' = disk
  BY <1>2 DEF Replace, Join
<1>4. values' = Cached({t}) /\ synthetic' = synthetic /\ unstable' = unstable
  <2>1. Cached({t}) = [p \in Paths |-> Cached({t})[p]]
    BY DEF Cached
  <2> QED BY <2>1 DEF Replace, Set
<1>5. Overlay(Cached({t}), synthetic, unstable, tree, disk)
  BY <1>1, Lookups
<1> QED BY <1>2, <1>3, <1>4, <1>5 DEF Now

\* What neither an operation nor a lookup has reached below x.
LEMMA Unknown ==
  ASSUME Inv, NEW x \in Paths, ~HasChangedDescendant(x), ~ReadBelow(x),
         NEW ps \in SUBSET Paths, \A p \in ps : ~Below(p, x)
  PROVE  \A p \in Paths : Below(p, x) => p \notin synthetic /\ Cached(ps)[p] = "unread"
BY DEF HasChangedDescendant, ReadBelow, Cached

LEMMA DeleteStep ==
  ASSUME Careful, Inv, NEW t \in Named, Delete(t)
  PROVE  Now' /\ CanDelete(t)
<1> DEFINE w == [Cached({}) EXCEPT ![t] = "none"]
<1>1. t \in Paths /\ t # Root /\ tree[t] # "none" /\ ~Covered(unstable, t)
  BY GetKind, PathsAssumption DEF Delete, PlansDelete, Exists, Kinds
<1>2. CanDelete(t)
  BY <1>1 DEF CanDelete
<1>3. tree' = Removed(t) /\ disk' = disk
  BY <1>2 DEF Delete, Join
<1>4. Overlay(Cached({}), synthetic, unstable, tree, disk)
  BY Lookups
<1>5. /\ values' = w /\ synthetic' = synthetic \cup {t} /\ unstable' = unstable \ {t}
  <2>1. Cached({}) \in [Paths -> Kinds \cup {"unread"}]
    BY <1>4 DEF Overlay, OverlayType
  <2>2. values' = [p \in Paths |-> IF p \in {t} THEN "none" ELSE Cached({})[p]]
    BY DEF Delete, Set
  <2> QED BY <2>1, <2>2 DEF Delete, Set
<1>6. \A p \in Paths : Below(p, t) => p \notin synthetic /\ Cached({})[p] = "unread"
  <2>1. ~HasChangedDescendant(t) /\ ~ReadBelow(t)
    BY DEF Careful, Delete, PlansDelete, Allows, Habits
  <2> QED BY <1>1, <2>1, Unknown
<1>7. Removed(t) \in [Paths -> Kinds] /\ WellFormed(Removed(t))
  BY <1>1, NowType, StripWell DEF Removed
<1>8. /\ Removed(t)[t] = "none"
      /\ \A p \in Paths : p # t /\ ~Below(p, t) => Removed(t)[p] = tree[p]
      /\ \A p \in Paths : Below(p, t) => Removed(t)[p] = "none"
  BY <1>1 DEF Removed
<1>9. "none" \in Kinds
  BY DEF Kinds
<1>10. Overlay(w, synthetic \cup {t}, unstable \ {t}, Removed(t), disk)
  BY <1>1, <1>4, <1>6, <1>7, <1>8, <1>9, Graft
<1> QED BY <1>2, <1>3, <1>5, <1>10 DEF Now

\* What the planner has found out of a transfer.
LEMMA TransferFinds ==
  ASSUME Careful, Inv, NEW s \in Named, NEW d \in Named, NEW overwrite \in BOOLEAN,
         PlansMove(s, d, overwrite), TransferAllowed(s, d)
  PROVE  /\ s \in Paths /\ d \in Paths /\ s # Root /\ d # Root /\ s # d
         /\ ~Below(s, d) /\ ~Below(d, s)
         /\ Get(s) = tree[s] /\ tree[s] # "none"
         /\ ~Covered(unstable, s) /\ ~Covered(unstable, d)
         /\ Parent(d) \in Paths /\ Parented(d)
         /\ ~HasChangedDescendant(s) /\ ~HasChangedDescendant(d) /\ ~ReadBelow(d)
         /\ CanMove(s, d, overwrite)
<1>1. s \in Paths /\ d \in Paths /\ s # Root /\ d # Root
  BY PathsAssumption
<1>2. /\ s # d /\ ~Below(s, d) /\ ~Below(d, s)
      /\ ~HasChangedDescendant(s) /\ ~HasChangedDescendant(d)
      /\ Exists(Get(s)) /\ RequireParent(d)
      /\ Get(d) = "none" \/ (overwrite /\ Exists(Get(d)))
  BY DEF PlansMove
<1>3. Get(s) = tree[s] /\ tree[s] # "none" /\ ~Covered(unstable, s)
  BY <1>1, <1>2, GetKind DEF Exists, Kinds
<1>4. Parent(d) \in Paths /\ Parented(d) /\ ~Covered(unstable, d)
  BY <1>2, ParentEnough
<1>5. tree[d] # "none" => overwrite
  BY <1>1, <1>2, GetKind DEF Kinds
<1>6. ~ReadBelow(d)
  BY DEF Careful, TransferAllowed, Allows, Habits
<1>7. CanMove(s, d, overwrite)
  BY <1>2, <1>3, <1>4, <1>5 DEF CanMove
<1> QED BY <1>1, <1>2, <1>3, <1>4, <1>6, <1>7

\* The overlay between the two effects of a transfer: d is there, s not yet gone.
Half(s, d) == [Cached({s, Parent(d)}) EXCEPT ![d] = Get(s)]
Vague(s, d) == IF Get(s) = "dir" THEN unstable \cup {d} ELSE unstable \ {d}

LEMMA CopiedStep ==
  ASSUME Careful, Inv, NEW s \in Named, NEW d \in Named, NEW overwrite \in BOOLEAN,
         PlansMove(s, d, overwrite), TransferAllowed(s, d)
  PROVE  Overlay(Half(s, d), synthetic \cup {d}, Vague(s, d), Copied(s, d), disk)
<1> DEFINE ps == {s, Parent(d)}
<1>1. /\ s \in Paths /\ d \in Paths /\ d # Root /\ ~Below(s, d) /\ ~Covered(unstable, d)
      /\ Get(s) = tree[s] /\ Parent(d) \in Paths /\ Parented(d)
      /\ ~HasChangedDescendant(d) /\ ~ReadBelow(d)
  BY TransferFinds
<1>2. Overlay(Cached(ps), synthetic, unstable, tree, disk)
  BY <1>1, Lookups
<1>3. /\ Copied(s, d) \in [Paths -> Kinds] /\ WellFormed(Copied(s, d))
      /\ Copied(s, d)[d] = tree[s]
      /\ \A p \in Paths : p # d /\ ~Below(p, d) => Copied(s, d)[p] = tree[p]
      /\ tree[s] # "dir" => \A p \in Paths : Below(p, d) => Copied(s, d)[p] = "none"
  BY <1>1, NowType, CopiedWell
<1>4. ~Below(Parent(d), d)
  BY <1>1, ParentAbove, BelowIrreflexive
<1>5. \A p \in Paths : Below(p, d) => p \notin synthetic /\ Cached(ps)[p] = "unread"
  <2>1. \A p \in ps : ~Below(p, d)
    BY <1>1, <1>4
  <2>2. ps \in SUBSET Paths
    BY <1>1
  <2> HIDE DEF ps
  <2> QED BY <1>1, <2>1, <2>2, Unknown
<1>6. tree[s] \in Kinds
  BY <1>1, NowType
<1>7. Half(s, d) = [Cached(ps) EXCEPT ![d] = tree[s]]
  BY <1>1 DEF Half
<1>8. Vague(s, d) = IF tree[s] = "dir" THEN unstable \cup {d} ELSE unstable \ {d}
  BY <1>1 DEF Vague
<1> DEFINE v == Cached(ps)  k == tree[s]  z == Copied(s, d)  w == Half(s, d)  r == Vague(s, d)
<1>9. /\ Overlay(v, synthetic, unstable, tree, disk) /\ k \in Kinds /\ d \in Paths
      /\ z \in [Paths -> Kinds] /\ WellFormed(z) /\ ~Covered(unstable, d)
      /\ \A p \in Paths : Below(p, d) => p \notin synthetic /\ v[p] = "unread"
      /\ z[d] = k
      /\ \A p \in Paths : p # d /\ ~Below(p, d) => z[p] = tree[p]
      /\ k # "dir" => \A p \in Paths : Below(p, d) => z[p] = "none"
      /\ w = [v EXCEPT ![d] = k]
      /\ r = IF k = "dir" THEN unstable \cup {d} ELSE unstable \ {d}
  BY <1>1, <1>2, <1>3, <1>5, <1>6, <1>7, <1>8
<1>10. Overlay(w, synthetic \cup {d}, r, z, disk)
  <2> HIDE DEF v, k, z, w, r
  <2> QED BY <1>9, Graft
<1> QED BY <1>10

\* The tree that copy finds is the one that the planner has inspected on disk.
LEMMA CopyFinds ==
  ASSUME Careful, Inv, NEW s \in Named, NEW d \in Named, NEW overwrite \in BOOLEAN,
         PlansCopy(s, d, overwrite), TransferAllowed(s, d)
  PROVE  CanCopy(s, d, overwrite)
<1>1. /\ s \in Paths /\ Get(s) = tree[s] /\ tree[s] # "none" /\ tree[s] # "link"
      /\ ~HasChangedDescendant(s) /\ CanMove(s, d, overwrite)
  BY TransferFinds DEF PlansCopy
<1>2. ASSUME tree[s] = "dir", NEW p \in Paths, Below(p, s)
      PROVE  tree[p] # "link"
  <2>1. s \notin synthetic /\ NoLinkOnDisk(s)
    BY <1>1, <1>2 DEF Careful, TransferAllowed, Allows, Habits, PlansCopy
  <2>2. ~Covered(synthetic, s)
    BY <1>1, <1>2, <2>1, GetOnDisk DEF Exists
  <2>3. p \notin synthetic
    BY <1>1, <1>2 DEF HasChangedDescendant
  <2>4. ~Covered(synthetic, p)
    <3> SUFFICES ASSUME NEW q \in synthetic, Below(p, q)
                 PROVE  FALSE
      BY DEF Covered
    <3>1. q = s \/ Below(q, s) \/ Below(s, q)
      BY <1>1, <1>2, NowType, AboveLinear
    <3> QED BY <1>1, <2>1, <2>2, <3>1 DEF Covered, HasChangedDescendant
  <2>5. tree[p] = disk[p]
    BY <2>3, <2>4 DEF Inv, Now, Overlay, Agreed, Untouched
  <2> QED BY <1>2, <2>1, <2>5 DEF NoLinkOnDisk
<1>3. ASSUME tree[s] # "dir", NEW p \in Paths, Below(p, s)
      PROVE  tree[p] # "link"
  BY <1>1, <1>3, NowType DEF WellFormed
<1> QED BY <1>1, <1>2, <1>3 DEF CanCopy

LEMMA CopyStep ==
  ASSUME Careful, Inv, NEW s \in Named, NEW d \in Named, NEW overwrite \in BOOLEAN,
         Copy(s, d, overwrite)
  PROVE  Now' /\ CanCopy(s, d, overwrite)
<1>1. PlansMove(s, d, overwrite) /\ PlansCopy(s, d, overwrite) /\ TransferAllowed(s, d)
  BY DEF Copy, PlansCopy
<1>2. CanCopy(s, d, overwrite)
  BY <1>1, CopyFinds
<1>3. tree' = Copied(s, d) /\ disk' = disk
  BY <1>2 DEF Copy, Join
<1>4. Overlay(Half(s, d), synthetic \cup {d}, Vague(s, d), Copied(s, d), disk)
  BY <1>1, CopiedStep
<1>5. Cached({s, Parent(d)}) = [p \in Paths |-> Cached({s, Parent(d)})[p]]
  BY DEF Cached
<1>6. Half(s, d) = [p \in Paths |-> IF p = d THEN Get(s) ELSE Cached({s, Parent(d)})[p]]
  BY <1>5 DEF Half
<1>7. values' = Half(s, d) /\ synthetic' = synthetic \cup {d} /\ unstable' = Vague(s, d)
  BY <1>6 DEF Copy, Transferred, Set, Vague
<1> QED BY <1>2, <1>3, <1>4, <1>7 DEF Now

LEMMA MoveStep ==
  ASSUME Careful, Inv, NEW s \in Named, NEW d \in Named, NEW overwrite \in BOOLEAN,
         Move(s, d, overwrite)
  PROVE  Now' /\ CanMove(s, d, overwrite)
<1> DEFINE h == Half(s, d)  r == Vague(s, d)  z == Copied(s, d)
           w == [h EXCEPT ![s] = "none"]
<1>1. PlansMove(s, d, overwrite) /\ TransferAllowed(s, d) /\ ~ReadBelow(s)
  BY DEF Careful, Move, Allows, Habits
<1>2. /\ s \in Paths /\ d \in Paths /\ s # Root /\ s # d /\ ~Below(s, d) /\ ~Below(d, s)
      /\ ~Covered(unstable, s) /\ Parent(d) \in Paths /\ d # Root
      /\ ~HasChangedDescendant(s) /\ CanMove(s, d, overwrite)
  BY <1>1, TransferFinds
<1>3. tree' = Moved(s, d) /\ disk' = disk
  BY <1>2 DEF Move, Join
<1>4. Overlay(h, synthetic \cup {d}, r, z, disk)
  BY <1>1, CopiedStep
<1>5. ~Covered(r, s)
  BY <1>2 DEF Covered, Vague
<1>6. \A p \in Paths : Below(p, s) => p \notin synthetic \cup {d} /\ h[p] = "unread"
  <2>1. ~Below(Parent(d), s)
    <3> SUFFICES ASSUME Below(Parent(d), s)
                 PROVE  FALSE
      OBVIOUS
    <3>1. Below(d, Parent(d))
      BY <1>2, ParentAbove
    <3> QED BY <1>2, <3>1, BelowTransitive
  <2>2. ~Below(s, s)
    BY <1>2, BelowIrreflexive
  <2>3. \A p \in Paths : Below(p, s) => p \notin synthetic /\ Cached({s, Parent(d)})[p] = "unread"
    BY <1>1, <1>2, <2>1, <2>2, Unknown
  <2>4. \A p \in Paths : p # d => h[p] = Cached({s, Parent(d)})[p]
    BY DEF Half, Cached
  <2> QED BY <1>2, <2>3, <2>4
<1>7. Moved(s, d) = [p \in Paths |-> IF p = s \/ Below(p, s) THEN "none" ELSE z[p]]
  BY DEF Moved
<1>8. z \in [Paths -> Kinds] /\ WellFormed(z)
  BY <1>4 DEF Overlay, OverlayType
<1>9. Moved(s, d) \in [Paths -> Kinds] /\ WellFormed(Moved(s, d))
  <2> HIDE DEF z
  <2> QED BY <1>2, <1>7, <1>8, StripWell
<1>10. /\ Moved(s, d)[s] = "none"
       /\ \A p \in Paths : p # s /\ ~Below(p, s) => Moved(s, d)[p] = z[p]
       /\ \A p \in Paths : Below(p, s) => Moved(s, d)[p] = "none"
  <2> HIDE DEF z
  <2> QED BY <1>2, <1>7
<1>11. "none" \in Kinds
  BY DEF Kinds
<1>12. Overlay(w, (synthetic \cup {d}) \cup {s}, r \ {s}, Moved(s, d), disk)
  <2> HIDE DEF h, r, z
  <2> QED BY <1>2, <1>4, <1>5, <1>6, <1>9, <1>10, <1>11, Graft
<1>13. values' = w
  <2>1. w = [p \in Paths |-> IF p = s THEN "none" ELSE IF p = d THEN Get(s)
                             ELSE Cached({s, Parent(d)})[p]]
    BY DEF Half, Cached
  <2> QED BY <2>1 DEF Move, Transferred, Set
<1>14. synthetic' = (synthetic \cup {d}) \cup {s} /\ unstable' = r \ {s}
  BY <1>2 DEF Move, Transferred, Set, Vague
<1> QED BY <1>2, <1>3, <1>12, <1>13, <1>14 DEF Now

\* What every operation that joins the plan leaves of the rest of the types.
LEMMA Kept ==
  ASSUME Inv, Planning, Now', disk' = disk, length' = length + 1, verdict' = verdict,
         mutated' \subseteq synthetic' \cup {p \in Paths : disk[p] = "file"}
  PROVE  Inv'
<1>1. /\ values' \in [Paths -> Kinds \cup {"unread"}] /\ synthetic' \subseteq Paths
      /\ unstable' \subseteq synthetic' /\ tree' \in [Paths -> Kinds] /\ WellFormed(tree')
  BY DEF Now, Overlay, OverlayType
<1>2. disk' \in Disks /\ verdict' \in {"planned", "refused", "surprised"}
  BY DEF Inv, TypeOK
<1>3. length' \in 0..MaxOps
  BY PathsAssumption DEF Inv, TypeOK, Planning
<1>4. TypeOK'
  BY <1>1, <1>2, <1>3 DEF TypeOK
<1> QED BY <1>4 DEF Inv, NoSurprise

LEMMA KnownMutated ==
  ASSUME Inv
  PROVE  mutated \subseteq synthetic \cup {p \in Paths : disk[p] = "file"}
BY DEF Inv, TypeOK

\* An operation that the planner accepts keeps the overlay true, and the engine
\* accepts it.
LEMMA OperationKeeps ==
  ASSUME Careful, Inv, NEW t \in Named,
         Mkdir(t) \/ MkdirNoop(t) \/ Write(t) \/ Replace(t) \/ Delete(t)
  PROVE  Inv'
<1>1. t \in Paths
  BY PathsAssumption
<1>2. CASE Mkdir(t)
  <2>1. Now' /\ CanMkdir(t)
    BY <1>2, MkdirStep
  <2>2. Planning /\ disk' = disk /\ length' = length + 1 /\ verdict' = verdict
    BY <1>2, <2>1 DEF Mkdir, Join
  <2>3. t \in Chain(t)
    <3> SUFFICES ASSUME NEW r \in Paths, r = t \/ Below(t, r), Len(t) <= Len(r)
                 PROVE  ~Exists(Get(r))
      BY <1>1 DEF Chain
    <3>1. r = t
      BY <1>1, PathType DEF Below
    <3> QED BY <1>2, <3>1 DEF Mkdir, PlansMkdir, Exists
  <2>4. mutated' = mutated \cup {t} /\ t \in synthetic' /\ synthetic \subseteq synthetic'
    BY <1>2, <2>3 DEF Mkdir, Set
  <2> QED BY <2>1, <2>2, <2>4, Kept, KnownMutated
<1>3. CASE MkdirNoop(t)
  <2>1. Now' /\ CanMkdir(t)
    BY <1>3, MkdirNoopStep
  <2>2. Planning /\ disk' = disk /\ length' = length + 1 /\ verdict' = verdict
    BY <1>3, <2>1 DEF MkdirNoop, Join
  <2>3. mutated' = mutated /\ synthetic \subseteq synthetic'
    BY <1>3 DEF MkdirNoop, Set
  <2> QED BY <2>1, <2>2, <2>3, Kept, KnownMutated
<1>4. CASE Write(t)
  <2>1. Now' /\ CanWrite(t)
    BY <1>4, WriteStep
  <2>2. Planning /\ disk' = disk /\ length' = length + 1 /\ verdict' = verdict
    BY <1>4, <2>1 DEF Write, Join
  <2>3. mutated' = mutated \cup {t} /\ t \in synthetic' /\ synthetic \subseteq synthetic'
    BY <1>4 DEF Write, Set
  <2> QED BY <2>1, <2>2, <2>3, Kept, KnownMutated
<1>5. CASE Replace(t)
  <2>1. Now' /\ CanReplace(t)
    BY <1>5, ReplaceStep
  <2>2. Planning /\ disk' = disk /\ length' = length + 1 /\ verdict' = verdict
    BY <1>5, <2>1 DEF Replace, Join
  <2>3. disk[t] = "file"
    BY <1>1, <1>5, GetOnDisk DEF Replace, PlansReplace, Exists
  <2>4. mutated' \subseteq mutated \cup {t} /\ synthetic \subseteq synthetic'
    BY <1>5 DEF Replace, Set
  <2> QED BY <1>1, <2>1, <2>2, <2>3, <2>4, Kept, KnownMutated
<1>6. CASE Delete(t)
  <2>1. Now' /\ CanDelete(t)
    BY <1>6, DeleteStep
  <2>2. Planning /\ disk' = disk /\ length' = length + 1 /\ verdict' = verdict
    BY <1>6, <2>1 DEF Delete, Join
  <2>3. mutated' = mutated \cup {t} /\ t \in synthetic' /\ synthetic \subseteq synthetic'
    BY <1>6 DEF Delete, Set
  <2> QED BY <2>1, <2>2, <2>3, Kept, KnownMutated
<1> QED BY <1>2, <1>3, <1>4, <1>5, <1>6

LEMMA TransferKeeps ==
  ASSUME Careful, Inv, NEW s \in Named, NEW d \in Named, NEW overwrite \in BOOLEAN,
         Copy(s, d, overwrite) \/ Move(s, d, overwrite)
  PROVE  Inv'
<1>1. CASE Copy(s, d, overwrite)
  <2>1. Now' /\ CanCopy(s, d, overwrite)
    BY <1>1, CopyStep
  <2>2. Planning /\ disk' = disk /\ length' = length + 1 /\ verdict' = verdict
    BY <1>1, <2>1 DEF Copy, Join
  <2>3. mutated' = mutated \cup {d} /\ d \in synthetic' /\ synthetic \subseteq synthetic'
    BY <1>1 DEF Copy, Transferred, Set
  <2> QED BY <2>1, <2>2, <2>3, Kept, KnownMutated
<1>2. CASE Move(s, d, overwrite)
  <2>1. Now' /\ CanMove(s, d, overwrite)
    BY <1>2, MoveStep
  <2>2. Planning /\ disk' = disk /\ length' = length + 1 /\ verdict' = verdict
    BY <1>2, <2>1 DEF Move, Join
  <2>3. /\ mutated' = mutated \cup {d} \cup {s} /\ d \in synthetic' /\ s \in synthetic'
        /\ synthetic \subseteq synthetic'
    BY <1>2 DEF Move, Transferred, Set
  <2> QED BY <2>1, <2>2, <2>3, Kept, KnownMutated
<1> QED BY <1>1, <1>2

\* Before the first operation.
Fresh ==
  /\ disk \in Disks /\ tree = disk /\ length = 0 /\ verdict \in {"planned", "refused"}
  /\ values = [p \in Paths |-> "unread"]
  /\ synthetic = {} /\ unstable = {} /\ mutated = {}

LEMMA FreshIsRight ==
  ASSUME Fresh
  PROVE  Inv
<1>1. disk \in [Paths -> Kinds] /\ WellFormed(disk)
  BY PathsAssumption DEF Fresh
<1>2. OverlayType(values, synthetic, unstable, tree)
  BY <1>1 DEF Fresh, OverlayType
<1>3. \A p \in Paths : values[p] = "unread" /\ tree[p] = disk[p]
  BY DEF Fresh
<1>4. Now
  BY <1>2, <1>3 DEF Fresh, Now, Overlay, Agreed, Apparent, Untouched, Emptied, Opaque, Covered
<1>5. 0 \in 0..MaxOps
  BY PathsAssumption
<1>6. TypeOK
  BY <1>1, <1>2, <1>5 DEF Fresh, TypeOK, OverlayType
<1> QED BY <1>4, <1>6 DEF Inv, NoSurprise, Fresh

LEMMA Steps ==
  ASSUME Careful, Inv, [Next]_vars
  PROVE  Inv'
<1>1. CASE \E t \in Named : Mkdir(t) \/ MkdirNoop(t) \/ Write(t) \/ Replace(t) \/ Delete(t)
  BY <1>1, OperationKeeps
<1>2. CASE \E s, d \in Named, overwrite \in BOOLEAN : Copy(s, d, overwrite) \/ Move(s, d, overwrite)
  BY <1>2, TransferKeeps
<1>3. CASE Refuse
  <2>1. UNCHANGED <<disk, values, synthetic, unstable, mutated, tree, length>> /\ verdict' = "refused"
    BY <1>3 DEF Refuse
  <2> QED BY <2>1 DEF Inv, TypeOK, NoSurprise, Now
<1>4. CASE UNCHANGED vars
  BY <1>4 DEF vars, Inv, TypeOK, NoSurprise, Now
<1> QED BY <1>1, <1>2, <1>3, <1>4 DEF Next

--------------------------------------------------------------------------------
(* Theorems.                                                                    *)

\* The overlay always stands for the tree that the operations so far will leave: what
\* it has set or read is true of it, what it covers is gone, the rest is as on disk.
THEOREM Invariance ==
  ASSUME Careful
  PROVE  Spec => []Inv
<1>1. Init => Inv
  BY FreshIsRight DEF Init, Fresh
<1>2. Inv /\ [Next]_vars => Inv'
  BY Steps
<1> QED BY <1>1, <1>2, PTL DEF Spec

\* The variables of the planner keep their types, and the tree stays one.
THEOREM TypeCorrect ==
  ASSUME Careful
  PROVE  Spec => []TypeOK
<1>1. Inv => TypeOK
  BY DEF Inv
<1> QED BY <1>1, Invariance, PTL

\* Whatever overlay.get answers is what the engine will find (plan.go, overlay.get).
THEOREM ForeseesCorrect ==
  ASSUME Careful
  PROVE  Spec => []Foresees
<1>1. Inv => Foresees
  <2> SUFFICES ASSUME Inv, NEW p \in Paths
               PROVE  Get(p) \in {"conflict", "error", tree[p]}
    BY DEF Foresees
  <2> QED BY GetUnstable, GetStable
<1> QED BY <1>1, Invariance, PTL

\* No operation of an accepted plan is refused when its turn comes (plan.go,
\* exactOperation and exactTransfer; engine.go, Prepare).
THEOREM NoSurpriseCorrect ==
  ASSUME Careful
  PROVE  Spec => []NoSurprise
<1>1. Inv => NoSurprise
  BY DEF Inv
<1> QED BY <1>1, Invariance, PTL

--------------------------------------------------------------------------------
(* The first operation.                                                         *)

LEMMA FreshGet ==
  ASSUME Fresh, NEW p \in Paths
  PROVE  /\ Get(p) \in {tree[p], "error"}
         /\ Get(p) = "error" => \E q \in Paths : Below(p, q) /\ tree[q] \in {"file", "link"}
         /\ (\E q \in Paths : Below(p, q) /\ tree[q] \in {"file", "link"}) => Get(p) = "error"
         /\ tree[p] \in Kinds
<1>1. values[p] = "unread" /\ Cover(p) = {} /\ disk[p] \in Kinds /\ disk = tree
  BY PathsAssumption DEF Fresh, Cover
<1>2. ~ \E q \in Cover(p) : values[q] # "none" /\ q \in unstable
  BY <1>1
<1>3. Get(p) = IF \E q \in Paths : Below(p, q) /\ disk[q] \in {"file", "link"}
               THEN "error" ELSE disk[p]
  BY <1>1, <1>2 DEF Get
<1>4. "error" \notin Kinds
  BY DEF Kinds
<1> QED BY <1>1, <1>3, <1>4

\* Below directories the overlay answers with the tree.
LEMMA FreshBelow ==
  ASSUME Fresh, NEW p \in Paths, Parented(p) \/ tree[p] # "none"
  PROVE  Get(p) = tree[p]
<1>1. \A q \in Paths : Below(p, q) => tree[q] = "dir"
  BY NowType, FreshIsRight, AboveExisting DEF Parented
<1> QED BY <1>1, FreshGet

LEMMA FreshParent ==
  ASSUME Fresh, NEW p \in Named
  PROVE  RequireParent(p) <=> Parented(p)
<1>1. RequireParent(p) => Parented(p)
  BY FreshIsRight, ParentEnough
<1>2. ASSUME Parented(p)
      PROVE  RequireParent(p)
  <2>1. Parent(p) \in Paths /\ tree[Parent(p)] = "dir"
    BY <1>2, PathsAssumption, ParentAbove DEF Parented
  <2>2. Get(Parent(p)) = "dir"
    BY <2>1, FreshBelow
  <2> QED BY <2>2 DEF RequireParent, Fresh
<1> QED BY <1>1, <1>2

LEMMA ExactOperation ==
  ASSUME Fresh, NEW t \in Named
  PROVE  /\ PlansMkdir(t) \/ PlansNoop(t) <=> CanMkdir(t)
         /\ PlansWrite(t) <=> CanWrite(t)
         /\ PlansReplace(t) <=> CanReplace(t)
         /\ PlansDelete(t) <=> CanDelete(t)
<1>1. t \in Paths /\ t \notin mutated /\ t \notin synthetic /\ ~HasChangedDescendant(t)
  BY PathsAssumption DEF Fresh, HasChangedDescendant
<1>2. tree \in [Paths -> Kinds] /\ disk = tree
  BY NowType, FreshIsRight DEF Fresh
<1>3. PlansMkdir(t) \/ PlansNoop(t) => CanMkdir(t)
  <2> SUFFICES ASSUME Get(t) \in {"none", "dir"}
               PROVE  CanMkdir(t)
    BY DEF PlansMkdir, PlansNoop
  <2>1. Get(t) = tree[t] /\ \A q \in Paths : Below(t, q) => tree[q] \notin {"file", "link"}
    BY <1>1, FreshGet
  <2> QED BY <1>2, <2>1 DEF CanMkdir, Kinds
<1>4. CanMkdir(t) => PlansMkdir(t) \/ PlansNoop(t)
  <2> SUFFICES ASSUME CanMkdir(t)
               PROVE  Get(t) \in {"none", "dir"}
    BY <1>1 DEF PlansMkdir, PlansNoop
  <2>1. tree[t] \in {"none", "dir"} /\ \A q \in Paths : Below(t, q) => tree[q] \in {"none", "dir"}
    BY <1>1 DEF CanMkdir
  <2> QED BY <1>1, <2>1, FreshGet
<1>5. PlansWrite(t) <=> CanWrite(t)
  BY <1>1, FreshParent, FreshBelow DEF PlansWrite, CanWrite
<1>6. PlansReplace(t) => CanReplace(t)
  <2> SUFFICES ASSUME Get(t) = "file"
               PROVE  CanReplace(t)
    BY DEF PlansReplace
  <2>1. tree[t] = "file"
    BY <1>1, FreshGet
  <2> QED BY <1>1, <2>1, NowType, FreshIsRight, AboveExisting DEF CanReplace, Parented
<1>7. CanReplace(t) => PlansReplace(t)
  BY <1>1, FreshBelow DEF PlansReplace, CanReplace
<1>8. PlansDelete(t) => CanDelete(t)
  BY <1>1, FreshGet DEF PlansDelete, CanDelete, Exists
<1>9. CanDelete(t) => PlansDelete(t)
  <2> SUFFICES ASSUME tree[t] # "none"
               PROVE  PlansDelete(t)
    BY DEF CanDelete
  <2>1. Get(t) = tree[t] /\ Exists(tree[t])
    BY <1>1, <1>2, FreshBelow DEF Exists, Kinds
  <2> QED BY <1>1, <1>2, <2>1 DEF PlansDelete, TreeOnDisk
<1> QED BY <1>3, <1>4, <1>5, <1>6, <1>7, <1>8, <1>9

LEMMA ExactTransfer ==
  ASSUME Fresh, NEW s \in Named, NEW d \in Named, NEW overwrite \in BOOLEAN
  PROVE  /\ PlansMove(s, d, overwrite) <=> CanMove(s, d, overwrite)
         /\ PlansCopy(s, d, overwrite) <=> CanCopy(s, d, overwrite)
<1>1. /\ s \in Paths /\ d \in Paths /\ d \notin mutated
      /\ ~HasChangedDescendant(s) /\ ~HasChangedDescendant(d)
  BY PathsAssumption DEF Fresh, HasChangedDescendant
<1>2. tree \in [Paths -> Kinds] /\ WellFormed(tree) /\ disk = tree
  BY NowType, FreshIsRight DEF Fresh
<1>3. ASSUME PlansMove(s, d, overwrite)
      PROVE  CanMove(s, d, overwrite) /\ Get(s) = tree[s]
  <2>1. Exists(Get(s)) /\ RequireParent(d) /\ (Get(d) = "none" \/ (overwrite /\ Exists(Get(d))))
    BY <1>3 DEF PlansMove
  <2>2. tree[s] # "none" /\ Get(s) = tree[s]
    BY <1>1, <2>1, FreshGet DEF Exists
  <2>3. Parented(d)
    BY <2>1, FreshParent
  <2>4. tree[d] # "none" => overwrite
    BY <1>1, <2>1, FreshGet
  <2> QED BY <1>3, <2>2, <2>3, <2>4 DEF PlansMove, CanMove
<1>4. ASSUME CanMove(s, d, overwrite)
      PROVE  PlansMove(s, d, overwrite) /\ Get(s) = tree[s]
  <2>1. Get(s) = tree[s] /\ Exists(tree[s])
    BY <1>1, <1>2, <1>4, FreshBelow DEF CanMove, Exists, Kinds
  <2>2. RequireParent(d) /\ Get(d) = tree[d]
    BY <1>1, <1>4, FreshParent, FreshBelow DEF CanMove
  <2>3. TreeOnDisk(s) /\ (tree[d] # "none" => TreeOnDisk(d) /\ Exists(tree[d]) /\ overwrite)
    BY <1>1, <1>2, <1>4 DEF CanMove, TreeOnDisk, Exists, Kinds
  <2> QED BY <1>1, <1>4, <2>1, <2>2, <2>3 DEF PlansMove, CanMove
<1>5. ASSUME Get(s) = tree[s]
      PROVE  (Get(s) # "link" /\ (Get(s) = "dir" => NoLinkOnDisk(s)))
             <=> \A p \in Paths : p = s \/ Below(p, s) => tree[p] # "link"
  <2>1. tree[s] # "dir" => \A p \in Paths : Below(p, s) => tree[p] = "none"
    BY <1>1, <1>2 DEF WellFormed
  <2>2. NoLinkOnDisk(s) <=> \A p \in Paths : p = s \/ Below(p, s) => tree[p] # "link"
    BY <1>2 DEF NoLinkOnDisk
  <2> QED BY <1>1, <1>5, <2>1, <2>2
<1> QED BY <1>3, <1>4, <1>5 DEF PlansCopy, CanCopy

\* The plan of one operation is refused if and only if the engine refuses the
\* operation, with or without the habits (plan.go, exactOperation and exactTransfer;
\* engine.go, Prepare).
THEOREM ExactCorrect == Spec => []Exact
<1> DEFINE First == length \in Nat /\ (length = 0 => Fresh)
<1>1. Init => First
  BY DEF Init, Fresh
<1>2. First /\ [Next]_vars => First'
  <2> SUFFICES ASSUME First, [Next]_vars
               PROVE  First'
    OBVIOUS
  <2>1. CASE UNCHANGED vars
    BY <2>1 DEF vars, Fresh
  <2>2. CASE Refuse
    BY <2>2 DEF Refuse, Fresh
  <2>3. CASE length' = length + 1
    BY <2>3
  <2>4. \A t \in Named : Mkdir(t) \/ MkdirNoop(t) \/ Write(t) \/ Replace(t) \/ Delete(t)
          => length' = length + 1
    BY DEF Mkdir, MkdirNoop, Write, Replace, Delete, Join
  <2>5. \A s, d \in Named, overwrite \in BOOLEAN :
          Copy(s, d, overwrite) \/ Move(s, d, overwrite) => length' = length + 1
    BY DEF Copy, Move, Join
  <2> QED BY <2>1, <2>2, <2>3, <2>4, <2>5 DEF Next
<1>3. First => Exact
  <2> SUFFICES ASSUME Fresh
               PROVE  Exact
    BY DEF Exact
  <2> QED BY ExactOperation, ExactTransfer DEF Exact
<1> QED BY <1>1, <1>2, <1>3, PTL DEF Spec

================================================================================
