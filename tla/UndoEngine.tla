------------------------------- MODULE UndoEngine -------------------------------
(***************************************************************************)
(* The file operation engine (src/internal/fsop): what Prepare records of  *)
(* an operation, the file system calls Apply and Undo make for it, in      *)
(* their order, and how Classify tells the state before an operation from  *)
(* the state after it.                                                     *)
(*                                                                         *)
(* An entry of the file system is a value: a regular file, symbolic link   *)
(* or whole directory tree is the content its digest names, exactly as     *)
(* the engine compares them.  A directory made by mkdir is Dir.  Torn is   *)
(* an entry half written or half removed; no recorded digest matches it.   *)
(***************************************************************************)
EXTENDS Integers, Sequences

CONSTANTS
  Paths,      \* the paths a script names, resolved; none is a capability root
  Parent,     \* their directories; a path in a capability root is its own
  RootOf,     \* the capability root of a path
  DeviceOf,   \* the mounted file system a path is on
  Contents,   \* the contents a file or a tree may have
  Trees,      \* those that are directory trees, removed entry by entry
  Replaced,   \* what replacing the pattern makes of a content; Absent: no match
  Absent, Torn, Dir

Entries == Contents \cup {Absent, Torn, Dir}

ASSUME EntriesAssumption ==
  /\ {Absent, Torn, Dir} \cap Contents = {}
  /\ Absent # Torn /\ Absent # Dir /\ Torn # Dir
  /\ Trees \subseteq Contents
  /\ Replaced \in [Contents -> Contents \cup {Absent}]

ASSUME PathsAssumption ==
  /\ Parent \in [Paths -> Paths]
  /\ \A p \in Paths : Parent[Parent[p]] = Parent[p]
  /\ DOMAIN RootOf = Paths /\ DOMAIN DeviceOf = Paths

Kinds == {"mkdir", "copy", "move", "write", "replace", "delete"}

Operations == [kind : Kinds, target : Paths, source : Paths, content : Contents,
               overwrite : BOOLEAN]

Transfer(op) == op.kind \in {"copy", "move"}

IsRegular(v) == v \in Contents \ Trees

\* The directory an entry at p would go into is there.
InDirectory(fs, p) == Parent[p] = p \/ fs[Parent[p]] = Dir

--------------------------------------------------------------------------------
(* Prepare: the durable descriptor of an operation.                         *)

\* The components of the path of a mkdir that do not exist, outermost first.
MissingDirectories(fs, p) ==
  LET missing(q) == IF fs[q] = Absent THEN <<q>> ELSE <<>>
  IN  (IF Parent[p] = p THEN <<>> ELSE missing(Parent[p])) \o missing(p)

\* The digest the target must have after the operation; Absent where none is kept.
Expected(fs, op) ==
  CASE Transfer(op)        -> fs[op.source]
    [] op.kind = "write"   -> op.content
    [] op.kind = "replace" -> IF IsRegular(fs[op.target]) THEN Replaced[fs[op.target]]
                              ELSE Absent
    [] OTHER               -> Absent

Prepare(fs, op) ==
  [kind     |-> op.kind,
   target   |-> op.target,
   source   |-> op.source,
   prior    |-> IF op.kind = "mkdir" THEN Absent ELSE fs[op.target],
   expected |-> Expected(fs, op),
   created  |-> IF op.kind = "mkdir" THEN MissingDirectories(fs, op.target) ELSE <<>>,
   method   |-> IF op.kind = "move" /\ RootOf[op.source] = RootOf[op.target]
                THEN "rename" ELSE "copy-delete"]

Descriptors == [kind : Kinds, target : Paths, source : Paths, prior : Entries,
                expected : Entries, created : Seq(Paths),
                method : {"rename", "copy-delete"}]

\* One path is in the other, so that a transfer would put a directory into itself.
Overlap(p, q) == p = Parent[q] \/ q = Parent[p]

\* What Prepare requires of the file system.
CanPrepare(fs, op) ==
  /\ op.kind \notin {"mkdir", "delete"} => InDirectory(fs, op.target)
  /\ Transfer(op) => /\ op.source # op.target
                     /\ RootOf[op.source] = RootOf[op.target] => ~Overlap(op.source, op.target)
                     /\ fs[op.source] # Absent
                     /\ fs[op.target] # Absent => op.overwrite
  /\ op.kind = "write"   => fs[op.target] = Absent \/ IsRegular(fs[op.target])
  /\ op.kind = "replace" => IsRegular(fs[op.target]) /\ Replaced[fs[op.target]] # Absent
  /\ op.kind = "delete"  => fs[op.target] # Absent
  /\ op.kind = "mkdir"   => \A p \in {op.target, Parent[op.target]} :
                              fs[p] \in {Absent, Dir} \cup Trees

--------------------------------------------------------------------------------
(* The calls of Apply and Undo.  A temporary is named by the operation and  *)
(* its role: "apply" for the one Apply fills, "target" and "source" for the *)
(* ones restore fills from the backup with the same name.                   *)

Roles == {"apply", "target", "source"}

Calls == [do : {"create", "fill", "remove", "install", "rename", "mkdir", "rmdir",
                "absent", "give up"},
          path : Paths, from : Paths, role : Roles, content : Entries]

Call(do, path, role, content) ==
  [do |-> do, path |-> path, from |-> path, role |-> role, content |-> content]

Rename(from, to) ==
  [do |-> "rename", path |-> to, from |-> from, role |-> "apply", content |-> Absent]

\* Fill a temporary beside path, remove what is at path, rename the temporary over.
Install(path, role, content) ==
  <<Call("create", path, role, content), Call("fill", path, role, content),
    Call("remove", path, role, content), Call("install", path, role, content)>>

Restore(path, role, backup) ==
  IF backup = Absent THEN <<>> ELSE Install(path, role, backup)

Remove(path) == <<Call("remove", path, "apply", Absent)>>

\* Mutant: the source of a copied move is not removed.
CopyCallsKept(d) == Install(d.target, "apply", d.expected)

CopyCalls(d) ==
  Install(d.target, "apply", d.expected)
    \o (IF d.kind = "move" THEN Remove(d.source) ELSE <<>>)

ApplyCalls(d) ==
  CASE d.kind = "mkdir" ->
         [i \in 1..Len(d.created) |-> Call("mkdir", d.created[i], "apply", Absent)]
    [] d.kind = "delete" -> Remove(d.target)
    [] d.kind = "replace" /\ d.expected = d.prior -> <<>>
    [] d.kind = "move" /\ d.method = "rename" ->
         (IF d.prior = Absent THEN <<>> ELSE Remove(d.target))
           \o <<Rename(d.source, d.target)>>
    [] OTHER -> CopyCalls(d)

\* applyRenameMove after a failed rename: put the target back, then copy and delete
\* when the rename crossed a device and give the operation up otherwise.
AfterFailedRename(d, crossDevice) ==
  Restore(d.target, "target", d.prior)
    \o (IF crossDevice THEN CopyCalls(d)
        ELSE <<Call("give up", d.target, "apply", Absent)>>)

UndoCalls(d) ==
  CASE d.kind = "mkdir" ->
         [i \in 1..Len(d.created) |->
            Call("rmdir", d.created[1 + Len(d.created) - i], "apply", Absent)]
    [] d.kind = "delete" -> Restore(d.target, "target", d.prior)
    [] d.kind = "move" /\ d.method = "rename" ->
         <<Rename(d.target, d.source)>> \o Restore(d.target, "target", d.prior)
    [] d.kind = "move" /\ d.method # "rename" ->
         Remove(d.target) \o <<Call("absent", d.source, "apply", Absent)>>
           \o Restore(d.source, "source", d.expected)
           \o Restore(d.target, "target", d.prior)
    [] OTHER -> Remove(d.target) \o Restore(d.target, "target", d.prior)

\* The checks Apply makes before its first call, and those of Undo.
CanApply(fs, d) ==
  d.kind # "mkdir" =>
    /\ fs[d.target] = d.prior
    /\ Transfer(d) => fs[d.source] = d.expected

CanUndo(fs, d) ==
  /\ d.kind = "delete" => fs[d.target] = Absent
  /\ d.kind \notin {"mkdir", "delete"} => fs[d.target] = d.expected
  /\ d.kind = "move" /\ d.method = "rename" => fs[d.source] = Absent

Verified(fs, d) ==
  CASE d.kind = "delete" -> fs[d.target] = Absent
    [] d.kind = "mkdir"  -> fs[d.target] \in {Dir} \cup Trees
    [] OTHER             -> fs[d.target] = d.expected

--------------------------------------------------------------------------------
(* Classify: which side of the operation the file system is on.             *)

ClassifyMkdir(fs, d) ==
  LET there == {i \in 1..Len(d.created) : fs[d.created[i]] # Absent}
  IN  IF \E i \in there : fs[d.created[i]] \notin {Dir} \cup Trees THEN "ambiguous"
      ELSE IF there # {} THEN "after"
      ELSE "before"

ClassifyMove(fs, d) ==
  IF fs[d.source] = d.expected /\ fs[d.target] = d.prior THEN "before"
  ELSE IF fs[d.source] = Absent /\ fs[d.target] = d.expected THEN "after"
  ELSE "ambiguous"

\* delete keeps no expected digest (Absent), and is done when the path is absent.
Classify(fs, d) ==
  CASE d.kind = "mkdir" -> ClassifyMkdir(fs, d)
    [] d.kind = "move"  -> ClassifyMove(fs, d)
    [] OTHER            -> IF fs[d.target] = d.prior THEN "before"
                           ELSE IF fs[d.target] = d.expected THEN "after"
                           ELSE "ambiguous"

================================================================================
