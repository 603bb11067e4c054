-------------------------------- MODULE UndoPaths ------------------------------
(***************************************************************************)
(* Path capabilities (src/internal/pathcap/pathcap.go): how a path of a    *)
(* script becomes a root, a path relative to it and an absolute name.  The *)
(* planner tells entries apart by the absolute name, the engine reaches    *)
(* them by root and relative path.  A prepared operation keeps all three   *)
(* in the journal, and a recovery resolves nothing again: it finds the     *)
(* root by its number and follows the relative path in what is there now.  *)
(*                                                                         *)
(* A path is a sequence of names; the empty one is "/".  What the          *)
(* operating system makes of a path is Eval and RootWalk.                  *)
(***************************************************************************)
EXTENDS Integers, Sequences

CONSTANTS
  Names,      \* the names of entries; "." and ".." are none
  Trees,      \* file systems: functions from some paths to nodes
  Roots,      \* the arguments of Open, absolute and clean: sequences of paths, the primary first
  Spellings,  \* the paths of scripts: [abs, names]
  MaxLinks    \* links that EvalSymlinks follows before it gives up

Dir            == [kind |-> "dir"]
File           == [kind |-> "file"]
Link(abs, to)  == [kind |-> "link", abs |-> abs, to |-> to]
State          == ".undo"

\* What links lead along (a "." in a link changes nothing), and what scripts may spell.
Ways  == Names \cup {".."}
Words == Ways \cup {"."}

\* Above each entry there are directories.
IsTree(t) ==
  /\ <<>> \in DOMAIN t /\ t[<<>>] = Dir
  /\ \A p \in DOMAIN t :
       /\ p \in Seq(Names)
       /\ \/ t[p] \in {Dir, File}
          \/ /\ t[p].abs \in BOOLEAN /\ t[p].to \in Seq(Ways)
             /\ t[p] = Link(t[p].abs, t[p].to)
       /\ \A k \in 0..Len(p) - 1 : SubSeq(p, 1, k) \in DOMAIN t /\ t[SubSeq(p, 1, k)] = Dir

ASSUME PathsAssumption ==
  /\ State \in Names /\ "." \notin Names /\ ".." \notin Names
  /\ \A t \in Trees : IsTree(t)
  /\ \A args \in Roots : args \in Seq(Seq(Names)) /\ args # <<>>
  /\ \A s \in Spellings : s.abs \in BOOLEAN /\ s.names \in Seq(Words)
  /\ MaxLinks \in Nat

VARIABLES
  tree,       \* the files
  roots,      \* Set.roots: the canonical paths, numbered from 1; <<>> while closed
  journaled,  \* what a transaction keeps: Meta.Root, Meta.AllowedRoots
  kept,       \* the path of a prepared operation in the journal, or Denied
  phase       \* "closed", "open", "killed", "reopened" by a recovery, or "refused"

vars == <<tree, roots, journaled, kept, phase>>

Kind(p) == IF p \in DOMAIN tree THEN tree[p].kind ELSE "none"

--------------------------------------------------------------------------------
(* The operating system and package filepath.                                  *)

\* filepath.Dir.
Parent(p) == SubSeq(p, 1, Len(p) - 1)

\* filepath.Clean, name by name.
Add(abs, done, name) ==
  IF name = "." THEN done
  ELSE IF name # ".." THEN Append(done, name)
  ELSE IF done # <<>> /\ done[Len(done)] # ".." THEN Parent(done)
  ELSE IF abs THEN done
  ELSE Append(done, name)

Clean(abs, names) ==
  LET clean[w \in [done : Seq(Ways), rest : Seq(Words)]] ==
        IF w.rest = <<>> THEN w
        ELSE clean[[done |-> Add(abs, w.done, Head(w.rest)), rest |-> Tail(w.rest)]]
  IN clean[[done |-> <<>>, rest |-> names]].done

Within(p, root) == Len(root) <= Len(p) /\ SubSeq(p, 1, Len(root)) = root
Escapes(rel)    == rel # <<>> /\ rel[1] = ".."
Reserved(rel)   == rel # <<>> /\ rel[1] = State

\* A walk stands at a path, with the rest of the way and the links it may still follow.
Walks == [at : Seq(Names), rest : Seq(Ways), links : Nat, err : {"nil", "missing", "other"}]

From(at, rest, links) == [at |-> at, rest |-> rest, links |-> links, err |-> "nil"]
Ended(w)   == w.rest = <<>> \/ w.err # "nil"
Entry(w)   == Append(w.at, Head(w.rest))
Enter(w)   == [w EXCEPT !.at = Entry(w), !.rest = Tail(w.rest)]
GoUp(w)    == [w EXCEPT !.at = Parent(w.at), !.rest = Tail(w.rest)]
Fail(w, e) == [w EXCEPT !.err = e]
Follow(w)  == LET link == tree[Entry(w)]
              IN From(IF link.abs THEN <<>> ELSE w.at, link.to \o Tail(w.rest), w.links - 1)

\* filepath.EvalSymlinks.
EvalStep(w) ==
  IF Head(w.rest) = ".." THEN GoUp(w)
  ELSE CASE Kind(Entry(w)) = "none" -> Fail(w, "missing")
         [] Kind(Entry(w)) = "dir"  -> Enter(w)
         [] Kind(Entry(w)) = "file" -> IF Len(w.rest) = 1 THEN Enter(w) ELSE Fail(w, "other")
         [] Kind(Entry(w)) = "link" -> IF w.links > 0 THEN Follow(w) ELSE Fail(w, "other")

Eval[w \in Walks] == IF Ended(w) THEN w ELSE Eval[EvalStep(w)]

\* os.Root: a link in the middle is followed when it is relative and stays inside, the
\* last name is not followed.
RootStep(root, w) ==
  IF Head(w.rest) = ".." THEN IF w.at = root THEN Fail(w, "other") ELSE GoUp(w)
  ELSE IF Len(w.rest) = 1 THEN Enter(w)
  ELSE CASE Kind(Entry(w)) = "none" -> Fail(w, "missing")
         [] Kind(Entry(w)) = "dir"  -> Enter(w)
         [] Kind(Entry(w)) = "file" -> Fail(w, "other")
         [] Kind(Entry(w)) = "link" -> IF w.links > 0 /\ ~tree[Entry(w)].abs
                                       THEN Follow(w) ELSE Fail(w, "other")

RootWalk(root) ==
  LET walk[w \in Walks] == IF Ended(w) THEN w ELSE walk[RootStep(root, w)] IN walk

--------------------------------------------------------------------------------
(* Open.                                                                       *)

Canonical(p) == Eval[From(<<>>, p, MaxLinks)]

\* The roots are canonical, and each is in the set once.
Join(set, p) == IF \E i \in DOMAIN set : set[i] = p THEN set ELSE Append(set, p)

Opened(args) ==
  LET open[w \in [set : Seq(Seq(Names)), rest : Seq(Seq(Names))]] ==
        IF w.rest = <<>> THEN w
        ELSE open[[set |-> Join(w.set, Canonical(Head(w.rest)).at), rest |-> Tail(w.rest)]]
  IN open[[set |-> <<>>, rest |-> args]].set

\* Mutant: a root may be anything that is there.
CanOpenAny(args) == \A i \in DOMAIN args : Canonical(args[i]).err = "nil"

CanOpen(args) == \A i \in DOMAIN args : /\ Canonical(args[i]).err = "nil"
                                        /\ Kind(Canonical(args[i]).at) = "dir"

--------------------------------------------------------------------------------
(* Resolve.                                                                    *)

\* canonicalizeForMapping: links are resolved in the deepest ancestor that exists.
Ok(p) == From(p, <<>>, 0)

ForMapping(p) ==
  LET existing == {k \in 0..Len(p) : Canonical(SubSeq(p, 1, k)).err # "missing"}
      deepest  == CHOOSE k \in existing : \A j \in existing : j <= k
      mapped   == Canonical(SubSeq(p, 1, deepest))
  IN IF mapped.err = "nil" THEN Ok(mapped.at \o SubSeq(p, deepest + 1, Len(p))) ELSE mapped

\* Mutant: links are not resolved.
CanonicalizeNone(p) == Ok(p)

CanonicalizeParent(p) ==
  IF p = <<>> THEN Ok(p)
  ELSE LET parent == ForMapping(Parent(p))
       IN IF parent.err = "nil" THEN Ok(Append(parent.at, p[Len(p)])) ELSE parent

Denied        == [root |-> 0, rel |-> <<>>, abs |-> <<>>]
Primary       == roots[1]

\* Mutant: only the name itself is compared with the state directory.
InStateByName(p) == p = Append(Primary, State)

InState(p)    == Within(p, Append(Primary, State))

ResolveRelative(names) ==
  LET clean  == Clean(FALSE, names)
      mapped == CanonicalizeParent(Primary \o clean)
  IN IF \/ Escapes(clean) \/ Reserved(clean)
        \/ mapped.err # "nil" \/ ~Within(mapped.at, Primary) \/ InState(mapped.at)
     THEN Denied
     ELSE [root |-> 1, rel |-> clean, abs |-> mapped.at]

\* The most specific of the roots it is in.
ResolveAbsolute(names) ==
  LET mapped     == CanonicalizeParent(Clean(TRUE, names))
      candidates == {i \in DOMAIN roots : Within(mapped.at, roots[i])}
      root       == CHOOSE i \in candidates : \A j \in candidates : Len(roots[j]) <= Len(roots[i])
  IN IF mapped.err # "nil" \/ InState(mapped.at) \/ candidates = {}
     THEN Denied
     ELSE [root |-> root, rel |-> SubSeq(mapped.at, Len(roots[root]) + 1, Len(mapped.at)),
           abs |-> mapped.at]

Resolve(s) == IF s.abs THEN ResolveAbsolute(s.names) ELSE ResolveRelative(s.names)

Accepted == {Resolve(s) : s \in Spellings} \ {Denied}

\* The entry that the handle of its root reaches.
Reached(r) == RootWalk(roots[r.root])[From(roots[r.root], r.rel, MaxLinks)]

--------------------------------------------------------------------------------
(* Conditions of require and assert (src/internal/condition/condition.go).     *)

Conditions == {"exists", "not_exists", "is_file", "is_dir", "content"}

\* What a condition says of an entry of kind k; the last name is never followed.
Verdict(c, k) ==
  CASE c = "exists"     -> IF k # "none" THEN "true" ELSE "false"
    [] c = "not_exists" -> IF k = "none" THEN "true" ELSE "false"
    [] c = "is_file"    -> IF k = "file" THEN "true" ELSE "false"
    [] c = "is_dir"     -> IF k = "dir" THEN "true" ELSE "false"
    [] OTHER            -> IF k = "file" THEN "reads" ELSE "error"

\* condition.Evaluate, of what the handle has found: a path that leads nowhere is
\* absent, other errors are errors.
Evaluate(c, found) ==
  CASE found.err = "nil"     -> Verdict(c, Kind(found.at))
    [] found.err = "missing" -> Verdict(c, "none")
    [] OTHER                 -> "error"

--------------------------------------------------------------------------------
(* A run opens its roots and journals them, prepares an operation, and may be     *)
(* killed; a recovery opens the roots again.  Meanwhile somebody may turn a name  *)
(* into something else.                                                           *)

Init == tree \in Trees /\ roots = <<>> /\ journaled = <<>> /\ kept = Denied /\ phase = "closed"

\* Mutant: the roots are journaled as they were given.
OpenAsGiven ==
  /\ phase = "closed"
  /\ \E args \in Roots :
       \/ ~CanOpen(args) /\ phase' = "refused" /\ UNCHANGED <<roots, journaled>>
       \/ CanOpen(args) /\ phase' = "open" /\ roots' = Opened(args) /\ journaled' = args
  /\ UNCHANGED <<tree, kept>>

Open ==
  /\ phase = "closed"
  /\ \E args \in Roots :
       \/ ~CanOpen(args) /\ phase' = "refused" /\ UNCHANGED <<roots, journaled>>
       \/ CanOpen(args) /\ phase' = "open" /\ roots' = Opened(args) /\ journaled' = Opened(args)
  /\ UNCHANGED <<tree, kept>>

\* Engine.Prepare resolves the path of a script, and the run journals what it got.
Prepare ==
  /\ phase = "open" /\ kept = Denied
  /\ kept' \in Accepted
  /\ UNCHANGED <<tree, roots, journaled, phase>>

\* The process is gone.  Nobody reads roots any more: it still says what the run held.
Kill == phase = "open" /\ phase' = "killed" /\ UNCHANGED <<tree, roots, journaled, kept>>

RootsInPlace == \A i \in DOMAIN roots : Kind(roots[i]) = "dir"

\* A name becomes an entry of another tree: made, removed, a link where a directory was.
\* The names of the roots stay directories while the run holds them open.
Change ==
  /\ phase \in {"open", "killed"}
  /\ tree' \in Trees /\ tree' # tree
  /\ UNCHANGED <<roots, journaled, kept, phase>>
  /\ phase = "open" => RootsInPlace'

\* Recover: pathcap.Open(Meta.Root, Meta.AllowedRoots).
Reopen ==
  /\ phase = "killed"
  /\ \/ ~CanOpen(journaled) /\ phase' = "refused" /\ UNCHANGED roots
     \/ CanOpen(journaled) /\ phase' = "reopened" /\ roots' = Opened(journaled)
  /\ UNCHANGED <<tree, journaled, kept>>

Next == Open \/ Prepare \/ Kill \/ Change \/ Reopen

Spec == Init /\ [][Next]_vars

--------------------------------------------------------------------------------
(* Properties.                                                                  *)

TypeOK ==
  /\ tree \in Trees /\ phase \in {"closed", "open", "killed", "reopened", "refused"}
  /\ phase \in {"open", "reopened"} => roots # <<>> /\ RootsInPlace
  /\ phase = "open" => \A r \in Accepted : r.root \in DOMAIN roots
  /\ kept # Denied => kept.root \in DOMAIN journaled

\* Links may have changed since a path was kept: its way still leads to its absolute name.
StillLeads(r) == LET mapped == CanonicalizeParent(roots[r.root] \o r.rel) IN
                 mapped.err = "nil" /\ mapped.at = r.abs

\* The paths a run uses: those it resolves now, and the one that it keeps.
Used == Accepted \cup {r \in {kept} \ {Denied} : StillLeads(r)}

\* What the planner calls an entry is what the engine opens: whenever the handle
\* reaches anything, it is the entry with the absolute name.  So two spellings of one
\* entry, relative or absolute, through links or not, are one key of the overlay, and
\* no condition gives two of them different answers.
NameIsEntry ==
  phase = "open" =>
    \A r \in Used :
      LET found == Reached(r) IN
      /\ found.err = "nil" => found.at = r.abs
      /\ \A c \in Conditions : Evaluate(c, found) \in {"error", Verdict(c, Kind(r.abs))}

\* No path that a run uses reaches the state directory of the primary root or anything in
\* it, whichever root and links lead there.
StateIsReserved ==
  phase = "open" =>
    \A r \in Used :
      LET found == Reached(r) IN
      /\ ~Within(r.abs, Append(roots[1], State))
      /\ found.err = "nil" => ~Within(found.at, Append(roots[1], State))

\* Resolving is idempotent: the planner resolves absolute names again (requireParent,
\* markDirectoryChain), and must get the same name and never a refusal of its own.
ResolvedAgain ==
  phase = "open" => \A r \in Accepted : Resolve([abs |-> TRUE, names |-> r.abs]).abs = r.abs

\* A recovery of a transaction whose roots are still where they were gives each the number
\* that the journal names it by.  So its handles reach, by the path that was kept and
\* whatever else has changed meanwhile, the entry the path was prepared for and never the
\* state directory, as long as the links on the way still lead there.
RecoveryReaches ==
  [][phase = "killed" /\ phase' = "reopened" /\ RootsInPlace =>
       /\ roots' = roots
       /\ kept # Denied =>
            LET found == Reached(kept)' IN
            StillLeads(kept) /\ found.err = "nil" =>
              found.at = kept.abs /\ ~Within(found.at, Append(roots[1], State))]_vars

\* The engine does not refuse the parent of a path that the planner accepted: what
\* requireParent (plan.go) takes for a directory, validateNoSymlinkParents (tree.go)
\* does not refuse for a link on the way.
PlannerParent(r) == Len(r.abs) > 0 /\ Reached(r).err = "nil"
                    /\ Kind(Parent(r.abs)) = "dir"
EngineParent(r)  == \A k \in 1..(Len(r.rel) - 1) : Kind(roots[r.root] \o SubSeq(r.rel, 1, k)) = "dir"

ParentsAgree ==
  phase = "open" => \A r \in Accepted : PlannerParent(r) => EngineParent(r)

================================================================================
