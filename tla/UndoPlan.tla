-------------------------------- MODULE UndoPlan -------------------------------
(***************************************************************************)
(* The exact plan of one transaction (src/internal/plan/plan.go): an       *)
(* overlay over the files on disk foresees what the operations planned so  *)
(* far will have done, and every operation is judged against it.  Beside   *)
(* it runs what the plan is about: tree, the files as the engine           *)
(* (src/internal/fsop) will have left them when it has executed the same   *)
(* operations.  The plan never sees tree, only disk.                       *)
(*                                                                         *)
(* Kinds of entries only: contents, modes, sizes and counts are left out,  *)
(* the pattern of a replace is always found, and no named path leads       *)
(* through a symbolic link.                                                *)
(***************************************************************************)
EXTENDS Naturals, Sequences

CONSTANTS
  Paths,      \* sequences of names; the root of the tree is <<>>
  Named,      \* the paths that scripts name
  Disks,      \* the trees a script may find
  MaxOps,     \* the longest script
  Avoid       \* the habits that scripts of this instance do not have

Root == <<>>
Parent(p) == SubSeq(p, 1, Len(p) - 1)
Below(p, q) == Len(q) < Len(p) /\ \A i \in 1..Len(q) : p[i] = q[i]

Kinds  == {"none", "file", "dir", "link"}
Habits == {"remove what was read", "mkdir below file", "use a moved tree"}

\* Nothing is below what is not a directory.
WellFormed(t) == /\ t[Root] = "dir"
                 /\ \A p, q \in Paths : Below(p, q) /\ t[q] # "dir" => t[p] = "none"

ASSUME PathsAssumption ==
  /\ \A p \in Paths : p \in Seq(STRING) /\ \A n \in 0..Len(p) : SubSeq(p, 1, n) \in Paths
  /\ Root \in Paths
  /\ Named \subseteq Paths \ {Root}
  /\ Disks \subseteq {t \in [Paths -> Kinds] : WellFormed(t)}
  /\ MaxOps \in Nat
  /\ Avoid \subseteq Habits

VARIABLES
  disk,       \* the files while the plan is built
  values,     \* overlay.values: the kind of a path, or "unread"
  synthetic,  \* the paths whose value an operation has set
  unstable,   \* ... and below which the overlay knows nothing
  mutated,    \* exactOperation: the targets so far
  tree,       \* the files after the operations planned so far
  length,     \* the number of these operations
  verdict

vars == <<disk, values, synthetic, unstable, mutated, tree, length, verdict>>

TypeOK ==
  /\ disk \in Disks
  /\ values \in [Paths -> Kinds \cup {"unread"}]
  /\ synthetic \subseteq Paths
  /\ unstable \subseteq synthetic
  /\ mutated \subseteq synthetic \cup {p \in Paths : disk[p] = "file"}
  /\ tree \in [Paths -> Kinds] /\ WellFormed(tree)
  /\ length \in 0..MaxOps
  /\ verdict \in {"planned", "refused", "surprised"}

Init ==
  /\ disk \in Disks
  /\ values = [p \in Paths |-> "unread"]
  /\ synthetic = {} /\ unstable = {} /\ mutated = {}
  /\ tree = disk
  /\ length = 0
  /\ verdict = "planned"

--------------------------------------------------------------------------------
(* The overlay.                                                             *)

\* The synthetic ancestor that answers for p.
Cover(p) == {q \in synthetic : /\ Below(p, q)
                               /\ \A r \in synthetic : Below(p, r) => Len(r) <= Len(q)}

\* overlay.get: a kind, or an error that refuses the script.
Get(p) ==
  IF values[p] # "unread" THEN values[p]
  ELSE IF \E q \in Cover(p) : values[q] # "none" /\ q \in unstable THEN "conflict"
  ELSE IF Cover(p) # {} THEN "none"
  ELSE IF \E q \in Paths : Below(p, q) /\ disk[q] \in {"file", "link"} THEN "error"
  ELSE disk[p]

Exists(k) == k \in {"file", "dir", "link"}

\* What get keeps of the paths it has looked up on disk.
Cached(ps) == [p \in Paths |-> IF p \in ps /\ values[p] = "unread" /\ Cover(p) = {}
                               THEN disk[p] ELSE values[p]]

\* overlay.set, after the lookups ps: the paths of dirs are directories, those of
\* gone are absent, and target, if any, has kind k.
Set(ps, dirs, gone, target, k) ==
  /\ values' = [p \in Paths |-> IF p \in dirs THEN "dir"
                                ELSE IF p \in gone THEN "none"
                                ELSE IF p \in target THEN k
                                ELSE Cached(ps)[p]]
  /\ synthetic' = synthetic \cup dirs \cup gone \cup target

HasChangedDescendant(p) == \E q \in synthetic : Below(q, p)

RequireParent(p) == Get(Parent(p)) = "dir" /\ Parent(p) \notin unstable

\* The directories that mkdir of t creates: up to the first that is there.
Chain(t) == {q \in Paths : /\ q = t \/ Below(t, q)
                           /\ \A r \in Paths : /\ r = t \/ Below(t, r)
                                               /\ Len(q) <= Len(r)
                                               => ~Exists(Get(r))}

--------------------------------------------------------------------------------
(* The engine: what Prepare refuses, what Apply leaves.                     *)

Made(t)      == [p \in Paths |-> IF p = t \/ Below(t, p) THEN "dir" ELSE tree[p]]
Put(t)       == [tree EXCEPT ![t] = "file"]

\* Mutant: what is in a removed directory stays.
RemovedAlone(t) == [tree EXCEPT ![t] = "none"]

Removed(t) == [p \in Paths |-> IF p = t \/ Below(p, t) THEN "none" ELSE tree[p]]

\* The path below s that corresponds to p at or below d.
Origin(p, s, d) == s \o SubSeq(p, Len(d) + 1, Len(p))

Copied(s, d) ==
  [p \in Paths |-> IF p = d \/ Below(p, d)
                   THEN IF Origin(p, s, d) \in Paths THEN tree[Origin(p, s, d)] ELSE "none"
                   ELSE tree[p]]

Moved(s, d) == [p \in Paths |-> IF p = s \/ Below(p, s) THEN "none" ELSE Copied(s, d)[p]]

Parented(t) == \A q \in Paths : Below(t, q) => tree[q] = "dir"

CanMkdir(t)   == \A q \in Paths : q = t \/ Below(t, q) => tree[q] \in {"none", "dir"}
CanWrite(t)   == Parented(t) /\ tree[t] \in {"none", "file"}
CanReplace(t) == Parented(t) /\ tree[t] = "file"
CanDelete(t)  == tree[t] # "none"

CanMove(s, d, overwrite) ==
  /\ s # d /\ ~Below(s, d) /\ ~Below(d, s)
  /\ tree[s] # "none"
  /\ Parented(d)
  /\ tree[d] # "none" => overwrite

CanCopy(s, d, overwrite) ==
  /\ CanMove(s, d, overwrite)
  /\ \A p \in Paths : p = s \/ Below(p, s) => tree[p] # "link"

--------------------------------------------------------------------------------
(* The planner.                                                             *)

\* inspectTree looks at the files on disk.
TreeOnDisk(p) == disk[p] # "none"

\* Mutant: only the source itself is looked at.
NoLinkAtTop(p) == disk[p] # "link"

NoLinkOnDisk(p) == \A q \in Paths : q = p \/ Below(q, p) => disk[q] # "link"

PlansMkdir(t)  == t \notin mutated /\ Get(t) = "none"
PlansNoop(t)   == t \notin mutated /\ Get(t) = "dir"
PlansWrite(t)  == t \notin mutated /\ RequireParent(t) /\ Get(t) \in {"none", "file"}
PlansReplace(t) == t \notin mutated /\ Get(t) = "file" /\ t \notin synthetic

\* Mutant: what was changed below the target is not looked at.
PlansDeleteAnyway(t) ==
  /\ t \notin mutated
  /\ Exists(Get(t))
  /\ Get(t) = "dir" => TreeOnDisk(t)

PlansDelete(t) ==
  /\ t \notin mutated
  /\ Exists(Get(t))
  /\ ~HasChangedDescendant(t)
  /\ Get(t) = "dir" => TreeOnDisk(t)

\* Mutant: the parent of the destination is not asked for.
PlansMoveOrphan(s, d, overwrite) ==
  /\ s # d /\ ~Below(s, d) /\ ~Below(d, s)
  /\ ~HasChangedDescendant(s) /\ ~HasChangedDescendant(d)
  /\ d \notin mutated
  /\ Exists(Get(s))
  /\ Get(s) = "dir" => TreeOnDisk(s)
  /\ \/ Get(d) = "none"
     \/ overwrite /\ Exists(Get(d)) /\ (Get(d) = "dir" => TreeOnDisk(d))

PlansMove(s, d, overwrite) ==
  /\ s # d /\ ~Below(s, d) /\ ~Below(d, s)
  /\ ~HasChangedDescendant(s) /\ ~HasChangedDescendant(d)
  /\ d \notin mutated
  /\ Exists(Get(s))
  /\ Get(s) = "dir" => TreeOnDisk(s)
  /\ \/ Get(d) = "none"
     \/ overwrite /\ Exists(Get(d)) /\ (Get(d) = "dir" => TreeOnDisk(d))
  /\ RequireParent(d)

PlansCopy(s, d, overwrite) ==
  /\ PlansMove(s, d, overwrite)
  /\ Get(s) # "link"
  /\ Get(s) = "dir" => NoLinkOnDisk(s)

--------------------------------------------------------------------------------
(* Scripts.                                                                 *)

\* Something below p was looked up on disk before.
ReadBelow(p) == \E q \in Paths \ synthetic : Below(q, p) /\ values[q] # "unread"

Allows(habit, has) == habit \in Avoid => ~has

\* The copy of s is within Paths: a bound of the model.
Fits(s, d) == \A p \in Paths : Below(p, s) /\ tree[p] # "none" => Origin(p, d, s) \in Paths

Planning == verdict = "planned" /\ length < MaxOps

\* The operation joins the plan; when its turn comes the engine performs it, or
\* refuses it with the operations before it applied.
Join(accepted, after) ==
  /\ length' = length + 1
  /\ \/ accepted /\ tree' = after /\ UNCHANGED verdict
     \/ ~accepted /\ verdict' = "surprised" /\ UNCHANGED tree
  /\ UNCHANGED disk

Mkdir(t) ==
  /\ Planning /\ PlansMkdir(t)
  /\ Allows("mkdir below file", \E q \in Paths : Below(t, q) /\ Get(q) \in {"file", "link"})
  /\ Set({q \in Paths : Below(t, q) /\ \A r \in Paths : Below(t, r) /\ Below(r, q) => r \in Chain(t)},
         Chain(t), {}, {}, "dir")
  /\ unstable' = unstable \ Chain(t)
  /\ mutated' = mutated \cup {t}
  /\ Join(CanMkdir(t), Made(t))

MkdirNoop(t) ==
  /\ Planning /\ PlansNoop(t)
  /\ Set({t}, {}, {}, {}, "dir")
  /\ Join(CanMkdir(t), Made(t))
  /\ UNCHANGED <<unstable, mutated>>

Write(t) ==
  /\ Planning /\ PlansWrite(t)
  /\ Set({Parent(t)}, {}, {}, {t}, "file")
  /\ unstable' = unstable \ {t}
  /\ mutated' = mutated \cup {t}
  /\ Join(CanWrite(t), Put(t))

Replace(t) ==
  /\ Planning /\ PlansReplace(t)
  /\ Set({t}, {}, {}, {}, "file")
  /\ \E m \in {mutated \cup {t}, mutated} : mutated' = m   \* old and new may be equal
  /\ Join(CanReplace(t), tree)
  /\ UNCHANGED unstable

Delete(t) ==
  /\ Planning /\ PlansDelete(t)
  /\ Allows("remove what was read", ReadBelow(t))
  /\ Set({}, {}, {t}, {}, "none")
  /\ unstable' = unstable \ {t}
  /\ mutated' = mutated \cup {t}
  /\ Join(CanDelete(t), Removed(t))

\* A transfer leaves kind k at d; d is unstable if it is a directory.
Transferred(s, d, gone) ==
  /\ Set({s, Parent(d)}, {}, gone, {d}, Get(s))
  /\ unstable' = IF Get(s) = "dir" THEN (unstable \ gone) \cup {d} ELSE unstable \ (gone \cup {d})
  /\ mutated' = mutated \cup {d} \cup gone

TransferAllowed(s, d) ==
  /\ Fits(s, d)
  /\ Allows("remove what was read", ReadBelow(d))
  /\ Allows("use a moved tree", Get(s) = "dir" /\ s \in synthetic)

Copy(s, d, overwrite) ==
  /\ Planning /\ PlansCopy(s, d, overwrite)
  /\ TransferAllowed(s, d)
  /\ Transferred(s, d, {})
  /\ Join(CanCopy(s, d, overwrite), Copied(s, d))

Move(s, d, overwrite) ==
  /\ Planning /\ PlansMove(s, d, overwrite)
  /\ TransferAllowed(s, d)
  /\ Allows("remove what was read", ReadBelow(s))
  /\ Transferred(s, d, {s})
  /\ Join(CanMove(s, d, overwrite), Moved(s, d))

\* The plan ends with an error, and nothing is executed.
Refuse ==
  /\ Planning
  /\ \E s, t \in Named :
       \/ ~PlansMkdir(t) /\ ~PlansNoop(t)
       \/ ~PlansWrite(t) \/ ~PlansReplace(t) \/ ~PlansDelete(t)
       \/ \E overwrite \in BOOLEAN : ~PlansCopy(s, t, overwrite) \/ ~PlansMove(s, t, overwrite)
  /\ verdict' = "refused"
  /\ UNCHANGED <<disk, values, synthetic, unstable, mutated, tree, length>>

Next ==
  \/ \E t \in Named : Mkdir(t) \/ MkdirNoop(t) \/ Write(t) \/ Replace(t) \/ Delete(t)
  \/ \E s, d \in Named, overwrite \in BOOLEAN : Copy(s, d, overwrite) \/ Move(s, d, overwrite)
  \/ Refuse

Spec == Init /\ [][Next]_vars

--------------------------------------------------------------------------------
(* Properties.                                                              *)

\* Whatever the overlay answers is what the operations before will have left there:
\* a plan judges each operation by the files it will find (plan.go, overlay.get).
Foresees ==
  verdict = "planned" => \A p \in Paths : Get(p) \in {"conflict", "error", tree[p]}

\* No operation of an accepted plan is refused by the engine, with others applied
\* before it (plan.go, exactOperation; engine.go, Prepare).
NoSurprise == verdict # "surprised"

\* The plan of one operation is exact: refused if and only if the engine refuses it
\* (plan.go, exactOperation and exactTransfer; engine.go, Prepare).
Exact ==
  length = 0 =>
    /\ \A t \in Named : /\ PlansMkdir(t) \/ PlansNoop(t) <=> CanMkdir(t)
                        /\ PlansWrite(t) <=> CanWrite(t)
                        /\ PlansReplace(t) <=> CanReplace(t)
                        /\ PlansDelete(t) <=> CanDelete(t)
    /\ \A s, d \in Named, overwrite \in BOOLEAN :
         /\ PlansCopy(s, d, overwrite) <=> CanCopy(s, d, overwrite)
         /\ PlansMove(s, d, overwrite) <=> CanMove(s, d, overwrite)

================================================================================
