------------------------------ MODULE UndoTxnFiles -----------------------------
(***************************************************************************)
(* The files, the temporaries and the backups of a transaction (UndoTxn):  *)
(* what a rollback finds and what it leaves, and what a commit leaves, for *)
(* every script, any number of crashes and of failing calls.               *)
(*                                                                         *)
(* FilesInv says which journaled operations may have changed a path, that  *)
(* the first of them recorded the initial entry, and that later operations *)
(* are rolled back before earlier ones.  It needs nothing of the planner:  *)
(* it holds for scripts that no plan would accept.                         *)
(*                                                                         *)
(* StageInv follows the files from one operation to the next: until the    *)
(* outcome is decided, a transaction that goes forward stands at a stage   *)
(* of its script, or between two of them while it applies an operation.    *)
(***************************************************************************)
EXTENDS UndoTxnProofs, WellFoundedInduction

Rolled == jrn.rollbackApplied
RolledBack == jrn.rolledBack

\* Only mkdir records the directories it makes.
DescriptorInv == \A i \in 1..Len(prep) : prep[i].kind # "mkdir" => prep[i].created = <<>>

\* A path that differs from its initial state belongs to an operation not rolled back.
ChangeInv ==
  \A p \in Paths : fs[p] # origin[p] =>
    \E i \in 1..Len(prep) : i \notin Rolled /\ Reaches(prep[i], p)

Covered(p) == \E i \in 1..Len(prep) : Reaches(prep[i], p) /\ Kept(prep[i], p) = origin[p]

\* The first operation on a path recorded its initial state.
FirstInv ==
  \A i \in 1..Len(prep), p \in Paths : Reaches(prep[i], p) =>
    /\ Covered(p)
    /\ Kept(prep[i], p) # origin[p] => \E j \in 1..Len(prep) : j < i /\ Reaches(prep[j], p)

\* A temporary belongs to an operation that is not rolled back.
TemporaryInv == \A s \in Slots : tmp[s] # Absent => s[1] \in 1..Len(prep) /\ s[1] \notin Rolled

\* The rollback runs from the last operation to the first.
OrderInv ==
  /\ \A i \in Rolled : \A k \in jrn.prepared : k > i => k \in Rolled
  /\ RolledBack => Rolled = jrn.prepared

DiskInv == DescriptorInv /\ ChangeInv /\ FirstInv /\ TemporaryInv /\ OrderInv

\* The backups hold what the descriptors name, until the outcome is decided.
BackupInv ==
  ~Decided => \A i \in 1..Len(prep) :
    /\ bak[<<i, "target">>] = prep[i].prior
    /\ prep[i].kind = "move" => bak[<<i, "source">>] = prep[i].expected

Clear(n) == \A r \in Roles : tmp[<<n, r>>] = Absent

\* A temporary of the operation in hand is going to be installed.
Installs == \A r \in Roles : tmp[<<cur, r>>] # Absent =>
              \E k \in 1..Len(todo) : todo[k].do = "install" /\ todo[k].role = r

Busy == Preparing \cup Applying \cup Undoing \cup {"log undo"}

\* What the process relies on where it is.
PlaceInv ==
  /\ pc \in Preparing \cup Applying => Rolled = {}
  /\ pc = "log prepared" =>
       /\ bak[<<cur, "target">>] = Prepare(fs, Op).prior
       /\ Op.kind = "move" => bak[<<cur, "source">>] = Prepare(fs, Op).expected
  /\ pc \in {"applying", "undoing"} => Proper(D, todo) /\ Closed(todo) /\ Installs
  /\ pc = "applying" => Applies(D, todo)
  /\ pc \in {"apply", "log undo", "undo", "recheck", "log undone"} => Clear(cur)
  /\ pc = "log undone" => Here = "before"

FilesInv == DiskInv /\ BackupInv /\ PlaceInv

--------------------------------------------------------------------------------
(* What the steps do to the invariant's state.                              *)

\* A step that touches neither files nor the record of what is prepared and rolled back.
LEMMA DiskStays ==
  ASSUME FilesInv, UNCHANGED <<fs, tmp, prep, origin>>,
         jrn'.prepared = jrn.prepared, jrn'.rollbackApplied = jrn.rollbackApplied,
         RolledBack' => RolledBack \/ jrn.rollbackApplied = jrn.prepared,
         Decided => Decided', bak' = bak \/ Decided
  PROVE  DiskInv' /\ BackupInv'
<1>1. DescriptorInv'
  BY DEF FilesInv, DiskInv, DescriptorInv
<1>2. ChangeInv'
  BY DEF FilesInv, DiskInv, ChangeInv, Rolled
<1>3. FirstInv'
  BY DEF FilesInv, DiskInv, FirstInv, Covered
<1>4. TemporaryInv'
  BY DEF FilesInv, DiskInv, TemporaryInv, Rolled
<1>5. OrderInv'
  BY DEF FilesInv, DiskInv, OrderInv, Rolled
<1>6. BackupInv'
  BY DEF FilesInv, BackupInv
<1> QED BY <1>1, <1>2, <1>3, <1>4, <1>5, <1>6 DEF DiskInv

\* A step that clears temporaries besides.
LEMMA DiskCleans ==
  ASSUME FilesInv, UNCHANGED <<fs, bak, prep, jrn, origin>>,
         \A s \in Slots : tmp'[s] # Absent => tmp[s] # Absent
  PROVE  DiskInv' /\ BackupInv'
<1>1. DescriptorInv' /\ ChangeInv'
  BY DEF FilesInv, DiskInv, DescriptorInv, ChangeInv, Rolled
<1>2. FirstInv'
  BY DEF FilesInv, DiskInv, FirstInv, Covered
<1>3. TemporaryInv' /\ OrderInv'
  BY DEF FilesInv, DiskInv, TemporaryInv, OrderInv, Rolled, RolledBack
<1>4. BackupInv'
  BY DEF FilesInv, BackupInv, Decided
<1> QED BY <1>1, <1>2, <1>3, <1>4 DEF DiskInv

\* A call of the engine for the operation in hand.
LEMMA DiskCalls ==
  ASSUME FilesInv, UNCHANGED <<bak, prep, jrn, origin>>,
         cur \in 1..Len(prep), cur \notin Rolled,
         \A p \in Paths : fs'[p] # fs[p] => Reaches(D, p),
         \A s \in Slots : tmp'[s] # Absent => tmp[s] # Absent \/ s[1] = cur
  PROVE  DiskInv' /\ BackupInv'
<1>1. DescriptorInv' /\ OrderInv'
  BY DEF FilesInv, DiskInv, DescriptorInv, OrderInv, Rolled, RolledBack
<1>2. ChangeInv'
  <2> SUFFICES ASSUME NEW p \in Paths, fs'[p] # origin[p]
               PROVE  \E i \in 1..Len(prep) : i \notin Rolled /\ Reaches(prep[i], p)
    BY DEF ChangeInv, Rolled
  <2>1. CASE fs'[p] = fs[p]
    BY <2>1 DEF FilesInv, DiskInv, ChangeInv
  <2>2. CASE fs'[p] # fs[p]
    BY <2>2 DEF D
  <2> QED BY <2>1, <2>2
<1>3. FirstInv'
  BY DEF FilesInv, DiskInv, FirstInv, Covered
<1>4. TemporaryInv'
  BY DEF FilesInv, DiskInv, TemporaryInv, Rolled
<1>5. BackupInv'
  BY DEF FilesInv, BackupInv, Decided
<1> QED BY <1>1, <1>2, <1>3, <1>4, <1>5 DEF DiskInv

\* The process is where it relies on nothing.
LEMMA Elsewhere == pc' \notin Busy => PlaceInv'
BY DEF PlaceInv, Busy, Preparing, Applying, Undoing

\* While it works, the process writes its frame behind a readable journal.
LEMMA Written ==
  ASSUME Inv, pc \in Working, NEW r, WriteFrame(r)
  PROVE  jrn' = Extend(jrn, r) /\ stale' = stale
<1>1. pc \notin {"stopped", "recover"} /\ ~Failing
  BY DEF Working, Failing, Preparing, Applying, Backward, Undoing
<1>2. Healthy
  BY <1>1 DEF Inv, CtlInv, HealthInv
<1> QED BY <1>2 DEF Healthy, WriteFrame

\* A sequence with one element more, and the numbers of its elements.
LEMMA Longer ==
  ASSUME NEW S, NEW q \in Seq(S), NEW e \in S
  PROVE  /\ Len(Append(q, e)) = Len(q) + 1 /\ Append(q, e)[Len(q) + 1] = e
         /\ \A i \in 1..Len(q) : Append(q, e)[i] = q[i]
BY AppendProperties

\* The journal gains one descriptor, at its end, and keeps the others.
LEMMA RecordedLast ==
  ASSUME NEW d \in Descriptors, prep \in Seq(Descriptors), prep' = Append(prep, d)
  PROVE  /\ Len(prep') = Len(prep) + 1 /\ prep'[Len(prep) + 1] = d
         /\ \A i \in 1..Len(prep) : prep'[i] = prep[i]
BY Longer

\* The numbers up to n + 1 are those up to n, and n + 1.
LEMMA OneFurther ==
  ASSUME NEW n \in Nat
  PROVE  /\ \A i \in 1..n + 1 : i \in 1..n \/ i = n + 1
         /\ n + 1 \in 1..n + 1 /\ \A i \in 1..n : i \in 1..n + 1 /\ i < n + 1
OBVIOUS

\* A temporary or a backup is named by an operation and its role.
LEMMA SlotParts == \A s \in Slots : \E n \in Ops, r \in Roles : s = <<n, r>>
BY DEF Slots

\* The descriptor of the next operation is journaled (txn.go, Execute).
LEMMA DiskPrepares ==
  ASSUME Inv, FilesInv, pc = "log prepared", UNCHANGED <<fs, tmp, bak, origin>>,
         prep' = Append(prep, Prepare(fs, Op)),
         jrn'.prepared = jrn.prepared \cup {cur}, jrn'.rollbackApplied = jrn.rollbackApplied,
         RolledBack' => RolledBack
  PROVE  DiskInv' /\ BackupInv'
<1>1. /\ cur = Len(prep) + 1 /\ Len(prep) \in Nat /\ Op \in Operations
      /\ fs \in [Paths -> Entries] /\ prep \in Seq(Descriptors) /\ ~Decided
  BY NextNumber, OneMore DEF Inv, TypeOK, Preparing, CtlInv, StatusInv, Working
<1>0. PICK d : d = Prepare(fs, Op)
  OBVIOUS
<1>2. /\ \A p \in Paths : Reaches(d, p) => Kept(d, p) = fs[p]
      /\ d.kind # "mkdir" => d.created = <<>>
      /\ d.kind = Op.kind
  <2>1. d.kind = Op.kind
    BY <1>0 DEF Prepare
  <2> QED BY <1>0, <1>1, <2>1, PrepareKeeps
<1>3. bak[<<cur, "target">>] = d.prior /\ (d.kind = "move" => bak[<<cur, "source">>] = d.expected)
  BY <1>0, <1>2 DEF FilesInv, PlaceInv
<1>4. d \in Descriptors
  BY <1>0, OneMore DEF Inv, Preparing
<1>5. /\ Len(prep') = Len(prep) + 1 /\ prep'[cur] = d
      /\ \A i \in 1..Len(prep) : prep'[i] = prep[i]
  <2>1. prep' = Append(prep, d) /\ prep \in Seq(Descriptors) /\ cur = Len(prep) + 1
    BY <1>0, <1>1
  <2> QED BY <1>4, <2>1, RecordedLast
<1>6. /\ \A i \in 1..Len(prep') : i \in 1..Len(prep) \/ i = cur
      /\ cur \in 1..Len(prep') /\ \A i \in 1..Len(prep) : i \in 1..Len(prep') /\ i < cur
  BY <1>1, <1>5, OneFurther
<1>7. Rolled = {}
  BY DEF FilesInv, PlaceInv, Preparing
<1>8. DescriptorInv'
  BY <1>2, <1>5, <1>6 DEF FilesInv, DiskInv, DescriptorInv
<1>9. ChangeInv'
  BY <1>5, <1>6 DEF FilesInv, DiskInv, ChangeInv, Rolled
<1>10. FirstInv'
  <2>1. \A p \in Paths : Covered(p) => Covered(p)'
    BY <1>5, <1>6 DEF Covered
  <2>2. ASSUME NEW i \in 1..Len(prep), NEW p \in Paths, Reaches(prep'[i], p)
        PROVE  /\ Covered(p)'
               /\ Kept(prep'[i], p) # origin[p] =>
                    \E j \in 1..Len(prep') : j < i /\ Reaches(prep'[j], p)
    <3>1. /\ Covered(p)
          /\ Kept(prep[i], p) # origin[p] => \E j \in 1..Len(prep) : j < i /\ Reaches(prep[j], p)
      BY <1>5, <2>2 DEF FilesInv, DiskInv, FirstInv
    <3> QED BY <1>5, <1>6, <2>1, <3>1
  <2>3. ASSUME NEW p \in Paths, Reaches(d, p)
        PROVE  /\ Covered(p)'
               /\ Kept(d, p) # origin[p] =>
                    \E j \in 1..Len(prep') : j < cur /\ Reaches(prep'[j], p)
    <3>1. Kept(d, p) = fs[p]
      BY <1>2, <2>3
    <3>2. CASE fs[p] = origin[p]
      BY <1>5, <1>6, <2>3, <3>1, <3>2 DEF Covered
    <3>3. CASE fs[p] # origin[p]
      <4>1. PICK j \in 1..Len(prep) : Reaches(prep[j], p)
        BY <3>3 DEF FilesInv, DiskInv, ChangeInv
      <4>2. Covered(p)
        BY <4>1 DEF FilesInv, DiskInv, FirstInv
      <4> QED BY <1>5, <1>6, <2>1, <4>1, <4>2
    <3> QED BY <3>2, <3>3
  <2> QED BY <1>5, <1>6, <2>2, <2>3 DEF FirstInv
<1>11. TemporaryInv'
  BY <1>6 DEF FilesInv, DiskInv, TemporaryInv, Rolled
<1>12. OrderInv'
  BY <1>1, <1>7 DEF FilesInv, DiskInv, OrderInv, Rolled, RolledBack, Decided
<1>13. BackupInv'
  BY <1>1, <1>3, <1>5, <1>6 DEF FilesInv, BackupInv
<1> QED BY <1>8, <1>9, <1>10, <1>11, <1>12, <1>13 DEF DiskInv

\* The rollback of an operation that is found undone is journaled (recovery.go, Recover).
LEMMA DiskUndoes ==
  ASSUME Inv, FilesInv, pc = "log undone", UNCHANGED <<fs, tmp, bak, prep, origin>>,
         jrn'.prepared = jrn.prepared, jrn'.rollbackApplied = jrn.rollbackApplied \cup {cur},
         RolledBack' => RolledBack
  PROVE  DiskInv' /\ BackupInv'
<1>1. /\ cur \in 1..Len(prep) /\ D \in Descriptors /\ cur \notin Rolled
      /\ \A i \in jrn.prepared : i > cur => i \in Rolled
      /\ ~Decided /\ jrn.prepared = 1..Len(prep) /\ Len(prep) \in Nat
      /\ Rolled \subseteq jrn.prepared
  <2>1. TypeOK /\ CtlInv /\ pc \in Undoing /\ pc \in Backward /\ pc \in Working
    BY DEF Inv, Undoing, Backward, Working
  <2>2. cur > 0 /\ cur \notin Rolled /\ \A i \in jrn.prepared : i > cur => i \in Rolled
    BY <2>1 DEF CtlInv, BackwardInv, Rolled
  <2>3. cur \in 1..Len(prep) /\ D \in Descriptors
    BY <2>1, <2>2, Current
  <2>4. jrn.prepared = 1..Len(prep) /\ Rolled \subseteq jrn.prepared /\ ~Decided
    BY <2>1 DEF CtlInv, LogInv, StatusInv, Rolled
  <2>5. Len(prep) \in Nat
    BY <2>1, Numbering DEF CtlInv
  <2> QED BY <2>2, <2>3, <2>4, <2>5
<1>2. \A p : Reaches(D, p) => fs[p] = Kept(D, p)
  <2>1. Classify(fs, D) = "before"
    BY DEF FilesInv, PlaceInv, Here
  <2>2. D.kind # "mkdir" => D.created = <<>>
    BY <1>1 DEF FilesInv, DiskInv, DescriptorInv, D
  <2> QED BY <1>1, <2>1, <2>2, BeforeKeeps
<1>3. DescriptorInv'
  BY DEF FilesInv, DiskInv, DescriptorInv
<1>4. ChangeInv'
  <2> SUFFICES ASSUME NEW p \in Paths, fs[p] # origin[p]
               PROVE  \E i \in 1..Len(prep) : i \notin Rolled \cup {cur} /\ Reaches(prep[i], p)
    BY DEF ChangeInv, Rolled
  <2>1. PICK i \in 1..Len(prep) : i \notin Rolled /\ Reaches(prep[i], p)
    BY DEF FilesInv, DiskInv, ChangeInv
  <2>2. CASE i # cur
    BY <2>1, <2>2
  <2>3. CASE i = cur
    <3>1. Kept(prep[cur], p) # origin[p]
      BY <1>2, <2>1, <2>3 DEF D
    <3>2. PICK j \in 1..Len(prep) : j < cur /\ Reaches(prep[j], p)
      BY <1>1, <2>1, <2>3, <3>1 DEF FilesInv, DiskInv, FirstInv
    <3>3. j \notin Rolled
      <4>1. j \in Rolled => cur \in Rolled
        BY <1>1, <3>2 DEF FilesInv, DiskInv, OrderInv
      <4> QED BY <1>1, <4>1
    <3> QED BY <1>1, <3>2, <3>3
  <2> QED BY <2>2, <2>3
<1>5. FirstInv'
  BY DEF FilesInv, DiskInv, FirstInv, Covered
<1>6. TemporaryInv'
  <2>1. Clear(cur)
    BY DEF FilesInv, PlaceInv
  <2>2. ASSUME NEW s \in Slots, tmp[s] # Absent PROVE s[1] # cur
    <3>1. PICK n \in Ops, r \in Roles : s = <<n, r>>
      BY SlotParts
    <3> QED BY <2>1, <2>2, <3>1 DEF Clear
  <2> QED BY <2>2 DEF FilesInv, DiskInv, TemporaryInv, Rolled
<1>7. OrderInv'
  BY <1>1 DEF FilesInv, DiskInv, OrderInv, Rolled, RolledBack, Decided
<1>8. BackupInv'
  BY <1>1 DEF FilesInv, BackupInv
<1> QED BY <1>3, <1>4, <1>5, <1>6, <1>7, <1>8 DEF DiskInv

--------------------------------------------------------------------------------
(* The calls of the engine (engine.go, Apply and Undo).                     *)

\* What is known when the next call is made.
LEMMA AtCall ==
  ASSUME Inv, FilesInv, pc \in {"applying", "undoing"}, todo # <<>>
  PROVE  /\ TheCall \in Calls /\ Slot \in Slots /\ Within(D, TheCall)
         /\ cur \in 1..Len(prep) /\ cur \in Ops /\ cur \notin Rolled /\ D \in Descriptors
         /\ D.kind # "mkdir" => D.created = <<>>
         /\ todo \in Seq(Calls) /\ fs \in [Paths -> Entries] /\ tmp \in [Slots -> Entries]
<1>1. TypeOK /\ CtlInv /\ pc \in Applying \cup Backward
  BY DEF Inv, Applying, Backward, Undoing
<1>2. cur > 0
  BY <1>1 DEF CtlInv, ForwardInv, BackwardInv, Applying, Undoing
<1>3. cur \in 1..Len(prep) /\ cur \in Ops /\ D \in Descriptors
  BY <1>1, <1>2, Current
<1>4. cur \notin Rolled
  <2>1. CASE pc = "applying"
    BY <2>1 DEF FilesInv, PlaceInv, Applying
  <2>2. CASE pc = "undoing"
    BY <1>1, <2>2 DEF CtlInv, BackwardInv, Undoing, Rolled
  <2> QED BY <2>1, <2>2
<1>5. D.kind # "mkdir" => D.created = <<>>
  BY <1>3 DEF FilesInv, DiskInv, DescriptorInv, D
<1>6. todo \in Seq(Calls) /\ fs \in [Paths -> Entries] /\ tmp \in [Slots -> Entries]
  BY <1>1 DEF TypeOK
<1>7. TheCall \in Calls /\ Slot \in Slots
  BY <1>1, CurrentCall
<1>8. Proper(D, todo)
  BY DEF FilesInv, PlaceInv
<1>9. Within(D, TheCall)
  BY <1>6, <1>8, Continued DEF TheCall
<1> QED BY <1>3, <1>4, <1>5, <1>6, <1>7, <1>9

\* The call's temporary is the only one it changes.
LEMMA OwnTemporary ==
  ASSUME tmp \in [Slots -> Entries], Slot \in Slots, cur \in Ops, NEW v,
         tmp' = [tmp EXCEPT ![Slot] = v]
  PROVE  /\ tmp'[<<cur, TheCall.role>>] = v
         /\ \A r \in Roles : r # TheCall.role => tmp'[<<cur, r>>] = tmp[<<cur, r>>]
         /\ \A s \in Slots : s[1] # cur => tmp'[s] = tmp[s]
<1>1. Slot = <<cur, TheCall.role>>
  BY DEF Slot
<1>2. \A r \in Roles : <<cur, r>> \in Slots
  BY DEF Slots
<1>3. \A s \in Slots : s # Slot => tmp'[s] = tmp[s]
  OBVIOUS
<1>4. tmp'[Slot] = v
  OBVIOUS
<1>5. \A r \in Roles : r # TheCall.role => <<cur, r>> # Slot
  BY <1>1
<1>6. \A s \in Slots : s[1] # cur => s # Slot
  BY <1>1
<1> QED BY <1>1, <1>2, <1>3, <1>4, <1>5, <1>6

\* The call has returned and the next one follows.
LEMMA Advances ==
  ASSUME Inv, FilesInv, pc \in {"applying", "undoing"}, todo # <<>>, todo' = Tail(todo),
         UNCHANGED <<pc, cur, prep, jrn>>,
         \A r \in Roles : tmp'[<<cur, r>>] # Absent =>
           \/ r = TheCall.role /\ TheCall.do \in {"create", "fill"}
           \/ tmp[<<cur, r>>] # Absent /\ ~(TheCall.do = "install" /\ TheCall.role = r)
  PROVE  PlaceInv'
<1>1. todo \in Seq(Calls) /\ Len(todo) \in Nat /\ TheCall = todo[1]
  BY AtCall, HeadTailProperties DEF TheCall
<1>2. Proper(D, todo)' 
  <2>1. Proper(D, todo)
    BY DEF FilesInv, PlaceInv
  <2>2. Proper(D, Tail(todo))
    BY <1>1, <2>1, Continued
  <2> QED BY <2>2 DEF D
<1>3. Closed(todo') /\ Installs'
  <2>1. Closed(todo) /\ Installs
    BY DEF FilesInv, PlaceInv
  <2>2. Closed(todo')
    BY <1>1, <2>1, Continued
  <2>3. ASSUME NEW r \in Roles, tmp'[<<cur, r>>] # Absent
        PROVE  \E k \in 1..Len(todo') : todo'[k].do = "install" /\ todo'[k].role = r
    <3>1. CASE r = TheCall.role /\ TheCall.do \in {"create", "fill"}
      BY <1>1, <2>1, <3>1, Continued DEF TheCall
    <3>2. CASE tmp[<<cur, r>>] # Absent /\ ~(TheCall.do = "install" /\ TheCall.role = r)
      <4>1. PICK k \in 1..Len(todo) : todo[k].do = "install" /\ todo[k].role = r
        BY <2>1, <3>2 DEF Installs
      <4>2. k # 1
        BY <1>1, <3>2, <4>1
      <4>3. PICK m \in 1..Len(Tail(todo)) : Tail(todo)[m] = todo[k]
        BY <1>1, <4>2, Continued
      <4> QED BY <4>1, <4>3
    <3> QED BY <2>3, <3>1, <3>2
  <2> QED BY <2>2, <2>3 DEF Installs
<1>4. pc = "applying" => Rolled' = {}
  BY DEF FilesInv, PlaceInv, Applying, Rolled
<1>5. pc = "applying" => Applies(D, todo)'
  <2>1. pc = "applying" => Applies(D, todo)
    BY DEF FilesInv, PlaceInv
  <2>2. pc = "applying" => Applies(D, Tail(todo))
    BY <1>1, <2>1, AppliesOn
  <2> QED BY <2>2 DEF D
<1> QED BY <1>2, <1>3, <1>4, <1>5 DEF PlaceInv, Preparing, Applying

\* A file system call, made or failed, of applying or of undoing (engine.go).
LEMMA FilesCall == Inv /\ FilesInv /\ FileCall => FilesInv'
<1> SUFFICES ASSUME Inv, FilesInv, FileCall PROVE FilesInv'
  OBVIOUS
<1>1. pc \in {"applying", "undoing"} /\ todo # <<>>
  BY DEF FileCall, DoCreate, DoFill, DoRemove, DoRemoveSome, DoInstall, DoRename,
     DoFailedRename, DoMkdir, DoRmdir, DoCheckAbsent, CallFails, Calling
<1>2. /\ TheCall \in Calls /\ Slot \in Slots /\ Within(D, TheCall)
      /\ cur \in 1..Len(prep) /\ cur \in Ops /\ cur \notin Rolled /\ D \in Descriptors
      /\ D.kind # "mkdir" => D.created = <<>>
      /\ todo \in Seq(Calls) /\ fs \in [Paths -> Entries] /\ tmp \in [Slots -> Entries]
  BY <1>1, AtCall
<1>3. /\ bak' = bak /\ prep' = prep /\ jrn' = jrn /\ origin' = origin
  BY DEF FileCall, DoCreate, DoFill, DoRemove, DoRemoveSome, DoInstall, DoRename,
     DoFailedRename, DoMkdir, DoRmdir, DoCheckAbsent, CallFails, CallFrame, files, log, given
<1>4. ASSUME \A p \in Paths : fs'[p] # fs[p] => Reaches(D, p),
             \A s \in Slots : tmp'[s] # Absent => tmp[s] # Absent \/ s[1] = cur,
             PlaceInv'
      PROVE  FilesInv'
  BY <1>2, <1>3, <1>4, DiskCalls DEF FilesInv
<1>5. ASSUME todo' = Tail(todo), pc' = pc, cur' = cur, tmp' = tmp,
             TheCall.do \notin {"create", "fill", "install"},
             \A p \in Paths : fs'[p] # fs[p] => Reaches(D, p)
      PROVE  FilesInv'
  <2>1. PlaceInv'
    BY <1>1, <1>3, <1>5, Advances
  <2> QED BY <1>4, <1>5, <2>1
<1>6. CASE DoCreate \/ DoFill
  <2>1. /\ todo' = Tail(todo) /\ pc' = pc /\ cur' = cur /\ fs' = fs
        /\ TheCall.do \in {"create", "fill"}
    BY <1>6 DEF DoCreate, DoFill, Calling, Returned, CallFrame, ctl
  <2>2. PICK v : tmp' = [tmp EXCEPT ![Slot] = v]
    BY <1>6 DEF DoCreate, DoFill
  <2>3. /\ \A r \in Roles : r # TheCall.role => tmp'[<<cur, r>>] = tmp[<<cur, r>>]
        /\ \A s \in Slots : s[1] # cur => tmp'[s] = tmp[s]
    BY <1>2, <2>2, OwnTemporary
  <2>4. PlaceInv'
    BY <1>1, <1>3, <2>1, <2>3, Advances
  <2> QED BY <1>4, <2>1, <2>3, <2>4
<1>7. CASE DoInstall
  <2>1. /\ todo' = Tail(todo) /\ pc' = pc /\ cur' = cur /\ TheCall.do = "install"
        /\ fs' = [fs EXCEPT ![TheCall.path] = tmp[Slot]]
        /\ tmp' = [tmp EXCEPT ![Slot] = Absent]
    BY <1>7 DEF DoInstall, Calling, Returned, CallFrame, ctl
  <2>2. /\ \A r \in Roles : r # TheCall.role => tmp'[<<cur, r>>] = tmp[<<cur, r>>]
        /\ \A s \in Slots : s[1] # cur => tmp'[s] = tmp[s]
        /\ tmp'[<<cur, TheCall.role>>] = Absent
    BY <1>2, <2>1, OwnTemporary
  <2>3. PlaceInv'
    BY <1>1, <1>3, <2>1, <2>2, Advances
  <2>4. \A p \in Paths : fs'[p] # fs[p] => Reaches(D, p)
    BY <1>2, <2>1 DEF Within
  <2> QED BY <1>4, <2>2, <2>3, <2>4
<1>8. CASE DoRemove
  <2>1. /\ todo' = Tail(todo) /\ pc' = pc /\ cur' = cur /\ tmp' = tmp
        /\ TheCall.do = "remove" /\ fs' = [fs EXCEPT ![TheCall.path] = Absent]
    BY <1>8 DEF DoRemove, Calling, Returned, CallFrame, ctl
  <2>2. \A p \in Paths : fs'[p] # fs[p] => Reaches(D, p)
    BY <1>2, <2>1 DEF Within
  <2> QED BY <1>5, <2>1, <2>2
<1>9. CASE DoRemoveSome
  <2>1. /\ todo' = todo /\ pc' = pc /\ cur' = cur /\ tmp' = tmp
        /\ TheCall.do = "remove" /\ fs' = [fs EXCEPT ![TheCall.path] = Torn]
    BY <1>9 DEF DoRemoveSome, Calling, CallFrame, ctl
  <2>2. \A p \in Paths : fs'[p] # fs[p] => Reaches(D, p)
    BY <1>2, <2>1 DEF Within
  <2>3. PlaceInv'
    <3>1. D' = D /\ Rolled' = Rolled /\ (Installs => Installs')
      BY <1>3, <2>1 DEF D, Rolled, Installs
    <3> QED BY <1>1, <2>1, <3>1 DEF FilesInv, PlaceInv, Preparing, Applying
  <2> QED BY <1>4, <2>1, <2>2, <2>3
<1>10. CASE DoRename
  <2>1. /\ todo' = Tail(todo) /\ pc' = pc /\ cur' = cur /\ tmp' = tmp
        /\ TheCall.do = "rename"
        /\ fs' = [fs EXCEPT ![TheCall.path] = fs[TheCall.from], ![TheCall.from] = Absent]
    BY <1>10 DEF DoRename, Calling, Returned, CallFrame, ctl
  <2>2. \A p \in Paths : fs'[p] # fs[p] => Reaches(D, p)
    BY <1>2, <2>1 DEF Within
  <2> QED BY <1>5, <2>1, <2>2
<1>11. CASE DoFailedRename
  <2>1. /\ pc = "applying" /\ pc' = pc /\ cur' = cur /\ tmp' = tmp /\ fs' = fs
        /\ TheCall.do = "rename" /\ todo' = AfterFailedRename(D, ~SameDevice)
    BY <1>11 DEF DoFailedRename, Calling, files, ctl
  <2>2. D.kind = "move"
    BY <1>2, <2>1 DEF Within
  <2>3. Proper(D, todo') /\ Closed(todo') /\ Applies(D, todo')
    BY <1>2, <2>1, <2>2, CallsProper, ApplyEnds
  <2>4. D' = D /\ Rolled' = Rolled
    BY <1>3, <2>1 DEF D, Rolled
  <2>6. Installs'
    <3>1. Without(todo, "install")
      <4>1. 1 \in 1..Len(todo) /\ todo[1].do = "rename"
        BY <1>1, <1>2, <2>1, HeadTailProperties DEF TheCall
      <4>2. Applies(D, todo)
        BY <2>1 DEF FilesInv, PlaceInv
      <4> QED BY <4>1, <4>2 DEF Applies, Without
    <3>2. Clear(cur)
      BY <1>1, <3>1 DEF FilesInv, PlaceInv, Installs, Without, Clear
    <3> QED BY <2>1, <3>2 DEF Installs, Clear
  <2>5. PlaceInv'
    BY <2>1, <2>3, <2>4, <2>6 DEF FilesInv, PlaceInv, Preparing, Applying
  <2> QED BY <1>4, <2>1, <2>5
<1>12. CASE DoMkdir
  <2>1. /\ todo' = Tail(todo) /\ pc' = pc /\ cur' = cur /\ tmp' = tmp
        /\ TheCall.do = "mkdir" /\ fs' = [fs EXCEPT ![TheCall.path] = Dir]
    BY <1>12 DEF DoMkdir, Calling, Returned, CallFrame, ctl
  <2>2. \A p \in Paths : fs'[p] # fs[p] => Reaches(D, p)
    BY <1>2, <2>1 DEF Within
  <2> QED BY <1>5, <2>1, <2>2
<1>13. CASE DoRmdir
  <2>1. /\ todo' = Tail(todo) /\ pc' = pc /\ cur' = cur /\ tmp' = tmp
        /\ TheCall.do = "rmdir" /\ fs' = [fs EXCEPT ![TheCall.path] = Absent]
    BY <1>13 DEF DoRmdir, Calling, Returned, CallFrame, ctl
  <2>2. \A p \in Paths : fs'[p] # fs[p] => Reaches(D, p)
    BY <1>2, <2>1 DEF Within
  <2> QED BY <1>5, <2>1, <2>2
<1>14. CASE DoCheckAbsent
  <2>1. /\ todo' = Tail(todo) /\ pc' = pc /\ cur' = cur /\ tmp' = tmp /\ fs' = fs
        /\ TheCall.do = "absent"
    BY <1>14 DEF DoCheckAbsent, Calling, Returned, CallFrame, files, ctl
  <2> QED BY <1>5, <2>1
<1>15. CASE CallFails
  <2>1. /\ fs' = fs /\ tmp' = [tmp EXCEPT ![Slot] = Absent]
        /\ RollbackFailure \/ Fail
    BY <1>15 DEF CallFails
  <2>2. pc' \notin Busy
    BY <2>1 DEF RollbackFailure, Fail, Busy, Preparing, Applying, Undoing
  <2>3. \A s \in Slots : s[1] # cur => tmp'[s] = tmp[s]
    BY <1>2, <2>1, OwnTemporary
  <2> QED BY <1>4, <2>1, <2>2, <2>3, Elsewhere
<1> QED BY <1>6, <1>7, <1>8, <1>9, <1>10, <1>11, <1>12, <1>13, <1>14, <1>15 DEF FileCall

--------------------------------------------------------------------------------
(* The other steps.                                                         *)

\* A step that leaves files and journal alone.
LEMMA Idles ==
  ASSUME FilesInv, UNCHANGED <<fs, tmp, prep, origin, jrn>>, bak' = bak \/ Decided
  PROVE  /\ DiskInv' /\ BackupInv'
         /\ pc' \notin Busy => FilesInv'
<1>1. /\ jrn'.prepared = jrn.prepared /\ jrn'.rollbackApplied = jrn.rollbackApplied
      /\ RolledBack' = RolledBack /\ Decided' = Decided
  BY DEF RolledBack, Decided
<1>2. DiskInv' /\ BackupInv'
  BY <1>1, DiskStays
<1> QED BY <1>2, Elsewhere DEF FilesInv

\* A frame that says nothing of files.
LEMMA Notes ==
  ASSUME FilesInv, UNCHANGED <<fs, tmp, bak, prep, origin>>,
         NEW a, NEW r, NEW c, NEW b, Adds({}, a, r, {}, c, b),
         b => jrn.rollbackApplied = jrn.prepared
  PROVE  /\ DiskInv' /\ BackupInv' /\ Rolled' = Rolled
         /\ pc' \notin Busy => FilesInv'
<1>1. jrn'.prepared = jrn.prepared /\ jrn'.rollbackApplied = jrn.rollbackApplied
  BY DEF Adds
<1>2. RolledBack' => RolledBack \/ jrn.rollbackApplied = jrn.prepared
  BY Zenon DEF Adds, RolledBack
<1>3. Decided => Decided'
  BY Zenon DEF Adds, Decided
<1>4. DiskInv' /\ BackupInv'
  BY <1>1, <1>2, <1>3, DiskStays
<1>5. Rolled' = Rolled
  BY <1>1 DEF Rolled
<1> QED BY <1>4, <1>5, Elsewhere DEF FilesInv

\* A journal that says what it said before.
LEMMA Repeats ==
  ASSUME FilesInv, UNCHANGED <<fs, tmp, bak, prep, origin>>, Remembers, pc' \notin Busy
  PROVE  FilesInv'
<1>1. jrn'.prepared = jrn.prepared /\ jrn'.rollbackApplied = jrn.rollbackApplied
  BY DEF Remembers
<1>2. (RolledBack' => RolledBack) /\ (Decided => Decided')
  BY Zenon DEF Remembers, RolledBack, Decided
<1>3. DiskInv' /\ BackupInv'
  BY <1>1, <1>2, DiskStays
<1> QED BY <1>3, Elsewhere DEF FilesInv

\* Backups are removed behind a marker only.
LEMMA AtEnd == Inv /\ pc \in {"cleanup", "cleaned", "release"} => Decided
<1> SUFFICES ASSUME Inv, pc \in {"cleanup", "cleaned", "release"} PROVE Decided
  OBVIOUS
<1>1. mem.status \in {"COMMITTED", "ROLLED_BACK"}
  BY DEF Inv, CtlInv, StatusInv, Terminal
<1> QED BY <1>1 DEF Inv, CtlInv, Backed, Decided

\* The backups of one operation leave those of the others alone.
LEMMA BackupsMade ==
  ASSUME bak \in [Slots -> Entries], cur \in Ops, NEW v, NEW w,
         bak' = [bak EXCEPT ![<<cur, "target">>] = v, ![<<cur, "source">>] = w]
  PROVE  /\ bak'[<<cur, "target">>] = v /\ bak'[<<cur, "source">>] = w
         /\ \A n \in Ops, r \in Roles : n # cur => bak'[<<n, r>>] = bak[<<n, r>>]
<1>1. \A n \in Ops, r \in Roles : <<n, r>> \in Slots
  BY DEF Slots
<1>2. {"target", "source"} \subseteq Roles
  BY DEF Roles
<1> QED BY <1>1, <1>2

\* The steps of Execute, up to TX_COMMIT (txn.go).
LEMMA FilesExecute == Inv /\ FilesInv /\ Execute => FilesInv'
<1> SUFFICES ASSUME Inv, FilesInv, Execute PROVE FilesInv'
  OBVIOUS
<1> USE DEF Goto, GotoOp, Transition, RollbackFailure
<1>1. CASE Begin \/ PlanAccepted \/ PlanRejected \/ PrepareFails \/ StartApplyFails \/ VerifyFails
  <2>1. UNCHANGED <<fs, tmp, bak, prep, origin, jrn>>
    BY <1>1 DEF Begin, PlanAccepted, PlanRejected, PrepareFails, StartApplyFails, VerifyFails,
       files, log, given
  <2>2. pc' \notin Busy
    BY <1>1 DEF Begin, PlanAccepted, PlanRejected, PrepareFails, StartApplyFails, VerifyFails,
       Busy, Preparing, Applying, Undoing
  <2> QED BY <2>1, <2>2, Idles
<1>2. CASE PrepareOperation
  <2>1. /\ TypeOK /\ CtlInv /\ pc \in Preparing /\ pc \in Working
    BY <1>2 DEF Inv, PrepareOperation, Preparing, Working
  <2>2. /\ cur = Len(prep) + 1 /\ Len(prep) \in Nat /\ cur \in Ops
        /\ bak \in [Slots -> Entries] /\ Rolled = {}
    <3>1. Len(script) <= MaxOps
      BY <2>1 DEF CtlInv, LogInv
    <3>2. cur \in 1..Len(script) /\ Len(script) \in Nat
      BY <2>1, NextNumber DEF TypeOK
    <3>3. cur \in Ops
      BY <3>1, <3>2, BoundsAssumption DEF Ops
    <3> QED BY <2>1, <3>3, NextNumber DEF TypeOK, FilesInv, PlaceInv
  <2>3. UNCHANGED <<fs, tmp, prep, origin, jrn, script, cur>> /\ pc' = "log prepared"
    BY <1>2 DEF PrepareOperation, log, given, work
  <2>4. PICK v, w : /\ v = Prepare(fs, Op).prior
                    /\ w = IF Op.kind = "move" THEN fs[Op.source] ELSE Absent
    OBVIOUS
  <2>5. bak' = [bak EXCEPT ![<<cur, "target">>] = v, ![<<cur, "source">>] = w]
    BY <1>2, <2>4, Zenon DEF PrepareOperation
  <2>6. /\ bak'[<<cur, "target">>] = v /\ bak'[<<cur, "source">>] = w
        /\ \A n \in Ops, r \in Roles : n # cur => bak'[<<n, r>>] = bak[<<n, r>>]
    BY <2>2, <2>5, BackupsMade
  <2>7. PlaceInv'
    <3>1. Op.kind = "move" => w = Prepare(fs, Op).expected
      BY <2>4 DEF Prepare, Expected, Transfer
    <3>2. Op' = Op /\ Prepare(fs, Op)' = Prepare(fs, Op)
      BY <2>3 DEF Op
    <3> QED BY <2>2, <2>3, <2>4, <2>6, <3>1, <3>2 DEF PlaceInv, Preparing, Applying, Rolled
  <2>8. DiskInv'
    BY <2>3 DEF FilesInv, DiskInv, DescriptorInv, ChangeInv, FirstInv, Covered, TemporaryInv,
       OrderInv, Rolled, RolledBack
  <2>9. BackupInv'
    <3>1. ~Decided
      BY <2>1 DEF CtlInv, StatusInv
    <3>2. ASSUME NEW i \in 1..Len(prep)
          PROVE  /\ bak'[<<i, "target">>] = bak[<<i, "target">>]
                 /\ bak'[<<i, "source">>] = bak[<<i, "source">>]
      <4>1. Len(prep) <= MaxOps
        BY <2>1, BoundsAssumption DEF CtlInv, LogInv, TypeOK
      <4>2. i # cur /\ i \in Ops
        BY <2>2, <4>1, BoundsAssumption DEF Ops
      <4> QED BY <2>6, <4>2 DEF Roles
    <3>3. prep' = prep
      BY <2>3
    <3>4. \A i \in 1..Len(prep) :
            /\ bak'[<<i, "target">>] = prep[i].prior
            /\ prep[i].kind = "move" => bak'[<<i, "source">>] = prep[i].expected
      BY <3>1, <3>2 DEF FilesInv, BackupInv
    <3> QED BY <3>3, <3>4 DEF BackupInv
  <2> QED BY <2>7, <2>8, <2>9 DEF FilesInv
<1>3. CASE LogPrepared
  <2>1. /\ pc = "log prepared" /\ pc \in Working /\ WriteFrame(OpRecord("OP_PREPARED", cur))
        /\ UNCHANGED <<fs, tmp, bak, origin, cur>> /\ prep' = Append(prep, Prepare(fs, Op))
        /\ pc' = "apply"
    BY <1>3 DEF LogPrepared, files, work, given, Working, Preparing
  <2>2. Adds({cur}, {}, {}, {}, FALSE, FALSE)
    BY <2>1, Written, FrameEffect DEF Inv
  <2>3. /\ jrn'.prepared = jrn.prepared \cup {cur} /\ jrn'.rollbackApplied = jrn.rollbackApplied
    BY <2>2 DEF Adds
  <2>4. RolledBack' => RolledBack
    BY <2>2, Zenon DEF Adds, RolledBack
  <2>5. DiskInv' /\ BackupInv'
    BY <2>1, <2>3, <2>4, DiskPrepares
  <2>6. Clear(cur)'
    <3>1. cur \notin 1..Len(prep) /\ cur \in Ops
      <4>1. TypeOK /\ CtlInv /\ pc \in Preparing
        BY <2>1 DEF Inv, Preparing
      <4>2. cur = Len(prep) + 1 /\ Len(prep) \in Nat
        BY <4>1, NextNumber
      <4>3. Len(script) <= MaxOps /\ cur \in 1..Len(script) /\ Len(script) \in Nat
        BY <4>1, NextNumber DEF TypeOK, CtlInv, LogInv
      <4>4. cur \in Ops
        BY <4>3, BoundsAssumption DEF Ops
      <4> QED BY <4>2, <4>4
    <3>2. \A r \in Roles : <<cur, r>> \in Slots /\ <<cur, r>>[1] = cur
      BY <3>1 DEF Slots
    <3>3. Clear(cur)
      BY <3>1, <3>2 DEF FilesInv, DiskInv, TemporaryInv, Clear
    <3> QED BY <2>1, <3>3 DEF Clear
  <2>7. PlaceInv'
    BY <2>1, <2>3, <2>6 DEF FilesInv, PlaceInv, Preparing, Applying, Rolled
  <2> QED BY <2>5, <2>7 DEF FilesInv
<1>4. CASE StartApply
  <2>1. /\ pc = "apply" /\ pc' = "applying" /\ todo' = ApplyCalls(D)
        /\ UNCHANGED <<fs, tmp, bak, prep, origin, jrn, cur>>
    BY <1>4 DEF StartApply, files, log, given
  <2>2. cur \in 1..Len(prep) /\ D \in Descriptors
    <3>1. cur > 0 /\ pc \in Applying \cup Backward
      BY <2>1 DEF Inv, CtlInv, ForwardInv, Applying
    <3> QED BY <3>1, Current DEF Inv
  <2>3. D.kind # "mkdir" => D.created = <<>>
    BY <2>2 DEF FilesInv, DiskInv, DescriptorInv, D
  <2>4. Proper(D, todo') /\ Closed(todo') /\ Applies(D, todo')
    BY <2>1, <2>2, <2>3, CallsProper, ApplyEnds
  <2>5. Rolled' = {} /\ D' = D /\ Installs'
    BY <2>1 DEF FilesInv, PlaceInv, Applying, Rolled, D, Clear, Installs
  <2>6. PlaceInv'
    BY <2>1, <2>4, <2>5 DEF PlaceInv
  <2> QED BY <2>1, <2>6, Idles DEF FilesInv
<1>5. CASE FinishApply \/ VerifyOperation
  <2>1. /\ UNCHANGED <<fs, tmp, bak, prep, origin, jrn>> /\ pc' \in {"verify", "log applied"}
        /\ pc \in Applying
    BY <1>5 DEF FinishApply, VerifyOperation, files, log, given, Applying
  <2>2. PlaceInv'
    BY <2>1 DEF FilesInv, PlaceInv, Rolled
  <2> QED BY <2>1, <2>2, Idles DEF FilesInv
<1>6. CASE LogApplied
  <2>1. /\ pc = "log applied" /\ pc \in Working /\ WriteFrame(OpRecord("OP_APPLIED", cur))
        /\ UNCHANGED <<fs, tmp, bak, prep, origin>> /\ pc' \in {"prepare", "transition"}
    BY <1>6 DEF LogApplied, NextOperation, files, given, Working, Applying
  <2>2. Adds({}, {cur}, {}, {}, FALSE, FALSE)
    BY <2>1, Written, FrameEffect DEF Inv
  <2>3. DiskInv' /\ BackupInv' /\ Rolled' = Rolled
    BY <2>1, <2>2, Notes
  <2>4. PlaceInv'
    BY <2>1, <2>3 DEF FilesInv, PlaceInv, Preparing, Applying
  <2> QED BY <2>3, <2>4 DEF FilesInv
<1>7. CASE Assert
  <2>1. /\ pc = "assert" /\ pc \in Working /\ WriteFrame(Marker("ASSERT_RESULT"))
        /\ UNCHANGED <<fs, tmp, bak, prep, origin>> /\ pc' \in {"assert", "transition", "recover"}
    BY <1>7 DEF Assert, NextAssertion, files, given, Working
  <2>2. Adds({}, {}, {}, {}, FALSE, FALSE)
    BY <2>1, Written, FrameEffect DEF Inv
  <2>3. pc' \notin Busy
    BY <2>1 DEF Busy, Preparing, Applying, Undoing
  <2> QED BY <2>1, <2>2, <2>3, Notes
<1>8. CASE LogCommit
  <2>1. /\ pc = "log commit" /\ pc \in Working /\ WriteFrame(Marker("TX_COMMIT"))
        /\ UNCHANGED <<fs, tmp, bak, prep, origin>> /\ pc' = "transition"
    BY <1>8 DEF LogCommit, files, given, Working
  <2>2. Adds({}, {}, {}, {}, TRUE, FALSE)
    BY <2>1, Written, FrameEffect DEF Inv
  <2>3. pc' \notin Busy
    BY <2>1 DEF Busy, Preparing, Applying, Undoing
  <2> QED BY <2>1, <2>2, <2>3, Notes
<1> QED BY <1>1, <1>2, <1>3, <1>4, <1>5, <1>6, <1>7, <1>8 DEF Execute

\* A run that cannot go on leaves the places where the files are changed.
LEMMA GivesUp == RollbackFailure \/ Fail \/ (\E r : Stop(r)) => pc' \notin Busy
BY DEF RollbackFailure, Fail, Stop, Busy, Preparing, Applying, Undoing

\* The temporaries of the operation in hand are gone after the step.
LEMMA Cleaned ==
  ASSUME cur \in Ops, CleanTemporaries, cur' = cur
  PROVE  /\ Clear(cur)'
         /\ \A s \in Slots : tmp'[s] # Absent => tmp[s] # Absent
<1>1. \A r \in Roles : <<cur, r>> \in Slots
  BY DEF Slots
<1>2. \A r \in Roles : tmp'[<<cur, r>>] = Absent
  BY <1>1 DEF CleanTemporaries
<1>3. \A s \in Slots : tmp'[s] # Absent => tmp[s] # Absent
  BY DEF CleanTemporaries
<1> QED BY <1>2, <1>3 DEF Clear

\* The steps of a recovery (recovery.go).
LEMMA FilesRecover == Inv /\ FilesInv /\ Recover => FilesInv'
<1> SUFFICES ASSUME Inv, FilesInv, Recover PROVE FilesInv'
  OBVIOUS
<1> USE DEF Goto, GotoOp, Transition
<1>1. CASE OpenJournal \/ OpenJournalFails \/ AllUndone \/ GiveUp \/ GiveUpFails
  <2>1. UNCHANGED <<fs, tmp, bak, prep, origin, jrn>>
    BY <1>1 DEF OpenJournal, OpenJournalFails, AllUndone, GiveUp, GiveUpFails, files, log, given
  <2>2. pc' \notin Busy
    <3>1. CASE OpenJournal \/ AllUndone
      BY <3>1 DEF OpenJournal, AllUndone, Busy, Preparing, Applying, Undoing
    <3>2. CASE OpenJournalFails \/ GiveUp \/ GiveUpFails
      BY <3>2, GivesUp DEF OpenJournalFails, GiveUp, GiveUpFails
    <3> QED BY <1>1, <3>1, <3>2
  <2> QED BY <2>1, <2>2, Idles
<1>2. CASE Reconcile
  <2>1. UNCHANGED <<fs, tmp, bak, prep, origin, jrn>>
    BY <1>2, ReconcileFrame DEF files, log, given
  <2>2. pc' \notin Busy
    BY <1>2, ReconcileCases DEF Busy, Preparing, Applying, Undoing
  <2> QED BY <2>1, <2>2, Idles
<1>3. CASE ReconcileFails \/ InspectFails \/ UndoRefused \/ RecheckFails
  <2>1. UNCHANGED <<fs, tmp, bak, prep, origin, jrn>>
    BY <1>3 DEF ReconcileFails, InspectFails, UndoRefused, RecheckFails, files, log, given
  <2>2. pc' \notin Busy
    BY <1>3, GivesUp DEF ReconcileFails, InspectFails, UndoRefused, RecheckFails
  <2> QED BY <2>1, <2>2, Idles
<1>4. CASE InspectDone \/ InspectRefused
  <2>1. /\ UNCHANGED <<fs, bak, prep, origin, jrn>> /\ CleanTemporaries
    BY <1>4 DEF InspectDone, InspectRefused, log, given
  <2>2. pc' \notin Busy
    <3>1. CASE InspectDone
      BY <3>1 DEF InspectDone, Busy, Preparing, Applying, Undoing
    <3>2. CASE InspectRefused
      BY <3>2, GivesUp DEF InspectRefused
    <3> QED BY <1>4, <3>1, <3>2
  <2>3. \A s \in Slots : tmp'[s] # Absent => tmp[s] # Absent
    BY <2>1 DEF CleanTemporaries
  <2> QED BY <2>1, <2>2, <2>3, DiskCleans, Elsewhere DEF FilesInv
<1>5. CASE Inspect
  <2>1. /\ UNCHANGED <<fs, bak, prep, origin, jrn>> /\ CleanTemporaries /\ cur' = cur
        /\ pc' \in {"undo", "log undo"} /\ cur > 0 /\ pc \in Backward
    BY <1>5 DEF Inspect, log, given, Backward
  <2>2. cur \in Ops
    BY <2>1, Current DEF Inv
  <2>3. /\ Clear(cur)' /\ \A s \in Slots : tmp'[s] # Absent => tmp[s] # Absent
    BY <2>1, <2>2, Cleaned
  <2>4. PlaceInv'
    BY <2>1, <2>3 DEF PlaceInv, Preparing, Applying
  <2> QED BY <2>1, <2>3, <2>4, DiskCleans DEF FilesInv
<1>6. CASE LogUndo
  <2>1. /\ pc = "log undo" /\ pc \in Working /\ WriteFrame(OpRecord("ROLLBACK_PREPARED", cur))
        /\ UNCHANGED <<fs, tmp, bak, prep, origin, cur>> /\ pc' = "undo"
    BY <1>6 DEF LogUndo, files, work, given, Working, Backward
  <2>2. Adds({}, {}, {cur}, {}, FALSE, FALSE)
    BY <2>1, Written, FrameEffect DEF Inv
  <2>3. DiskInv' /\ BackupInv'
    BY <2>1, <2>2, Notes
  <2>4. Clear(cur)'
    BY <2>1 DEF FilesInv, PlaceInv, Clear
  <2>5. PlaceInv'
    BY <2>1, <2>4 DEF PlaceInv, Preparing, Applying
  <2> QED BY <2>3, <2>5 DEF FilesInv
<1>7. CASE StartUndo
  <2>1. /\ pc = "undo" /\ pc' = "undoing" /\ todo' = UndoCalls(D)
        /\ UNCHANGED <<fs, tmp, bak, prep, origin, jrn, cur>>
    BY <1>7 DEF StartUndo, files, log, given
  <2>2. cur \in 1..Len(prep) /\ D \in Descriptors
    <3>1. cur > 0 /\ pc \in Applying \cup Backward
      BY <2>1 DEF Inv, CtlInv, BackwardInv, Undoing, Backward
    <3> QED BY <3>1, Current DEF Inv
  <2>3. D.kind # "mkdir" => D.created = <<>>
    BY <2>2 DEF FilesInv, DiskInv, DescriptorInv, D
  <2>4. Proper(D, todo') /\ Closed(todo')
    BY <2>1, <2>2, <2>3, CallsProper
  <2>5. D' = D /\ Installs'
    BY <2>1 DEF FilesInv, PlaceInv, D, Clear, Installs
  <2>6. PlaceInv'
    BY <2>1, <2>4, <2>5 DEF PlaceInv, Preparing, Applying
  <2> QED BY <2>1, <2>6, Idles DEF FilesInv
<1>8. CASE NothingToUndo \/ FinishUndo \/ Recheck
  <2>1. UNCHANGED <<fs, tmp, bak, prep, origin, jrn, cur>>
    BY <1>8 DEF NothingToUndo, FinishUndo, Recheck, files, log, given, work
  <2>2. Clear(cur)
    <3>1. CASE NothingToUndo \/ Recheck
      BY <3>1 DEF NothingToUndo, Recheck, FilesInv, PlaceInv
    <3>2. CASE FinishUndo
      BY <3>2 DEF FinishUndo, FilesInv, PlaceInv, Installs, Clear
    <3> QED BY <1>8, <3>1, <3>2
  <2>3. \/ pc' = "recheck"
        \/ pc' = "log undone" /\ Here = "before"
    BY <1>8 DEF NothingToUndo, FinishUndo, Recheck
  <2>4. Clear(cur)' /\ Here' = Here
    BY <2>1, <2>2 DEF Clear, Here, D
  <2>5. PlaceInv'
    BY <2>3, <2>4 DEF PlaceInv, Preparing, Applying
  <2> QED BY <2>1, <2>5, Idles DEF FilesInv
<1>9. CASE LogUndone
  <2>1. /\ pc = "log undone" /\ pc \in Working /\ WriteFrame(OpRecord("ROLLBACK_APPLIED", cur))
        /\ UNCHANGED <<fs, tmp, bak, prep, origin>> /\ pc' = "inspect"
    BY <1>9 DEF LogUndone, files, given, Working, Backward, Undoing
  <2>2. Adds({}, {}, {}, {cur}, FALSE, FALSE)
    BY <2>1, Written, FrameEffect DEF Inv
  <2>3. /\ jrn'.prepared = jrn.prepared /\ jrn'.rollbackApplied = jrn.rollbackApplied \cup {cur}
    BY <2>2 DEF Adds
  <2>4. RolledBack' => RolledBack
    BY <2>2, Zenon DEF Adds, RolledBack
  <2>5. DiskInv' /\ BackupInv'
    BY <2>1, <2>3, <2>4, DiskUndoes
  <2>6. pc' \notin Busy
    BY <2>1 DEF Busy, Preparing, Applying, Undoing
  <2> QED BY <2>5, <2>6, Elsewhere DEF FilesInv
<1>10. CASE LogComplete
  <2>1. /\ pc = "log complete" /\ pc \in Working /\ WriteFrame(Marker("TX_ROLLBACK_COMPLETE"))
        /\ UNCHANGED <<fs, tmp, bak, prep, origin>> /\ pc' = "transition"
    BY <1>10 DEF LogComplete, files, given, Working, Backward
  <2>2. Adds({}, {}, {}, {}, FALSE, TRUE)
    BY <2>1, Written, FrameEffect DEF Inv
  <2>3. jrn.rollbackApplied = jrn.prepared
    BY <2>1 DEF Inv, CtlInv, BackwardInv
  <2>4. pc' \notin Busy
    BY <2>1 DEF Busy, Preparing, Applying, Undoing
  <2> QED BY <2>1, <2>2, <2>3, <2>4, Notes
<1> QED BY <1>1, <1>2, <1>3, <1>4, <1>5, <1>6, <1>7, <1>8, <1>9, <1>10 DEF Recover

\* The frame whose append failed is on disk or it is not.
LEMMA FilesAppendFails == Inv /\ FilesInv /\ AppendFails => FilesInv'
<1> SUFFICES ASSUME Inv, FilesInv, AppendFails PROVE FilesInv'
  OBVIOUS
<1>1. /\ pc \in Appending /\ WriteFrameError(Frame) /\ UNCHANGED <<fs, tmp, bak, origin>>
      /\ prep' = IF pc = "log prepared" /\ jrn'.prepared # jrn.prepared
                 THEN Append(prep, Prepare(fs, Op)) ELSE prep
  BY DEF AppendFails, files, given
<1>2. pc' \notin Busy
  BY AppendErrorCases, GivesUp DEF AppendFails
<1>3. jrn' \in {jrn, Corrupted(jrn)} \/ jrn' = Extend(jrn, Frame)
  BY <1>1 DEF WriteFrameError
<1>4. CASE jrn' \in {jrn, Corrupted(jrn)}
  <2>1. Remembers
    BY <1>4, SpoiltEffect DEF Inv
  <2>2. prep' = prep
    BY <1>1, <2>1 DEF Remembers
  <2> QED BY <1>1, <1>2, <2>1, <2>2, Repeats
<1>5. CASE jrn' = Extend(jrn, Frame)
  <2>1. CASE pc = "transition"
    <3>1. Frame = StateRecord(to)
      BY <2>1, Zenon DEF Frame
    <3>2. Remembers
      BY <1>5, <2>1, <3>1, StateFrameEffect DEF Inv
    <3>3. prep' = prep
      BY <1>1, <2>1
    <3> QED BY <1>1, <1>2, <3>2, <3>3, Repeats
  <2>2. CASE pc = "log prepared"
    <3>1. Frame = OpRecord("OP_PREPARED", cur)
      BY <2>2, Zenon DEF Frame
    <3>2. Adds({cur}, {}, {}, {}, FALSE, FALSE)
      BY <1>5, <2>2, <3>1, FrameEffect DEF Inv
    <3>3. /\ jrn'.prepared = jrn.prepared \cup {cur} /\ jrn'.rollbackApplied = jrn.rollbackApplied
      BY <3>2 DEF Adds
    <3>4. RolledBack' => RolledBack
      BY <3>2, Zenon DEF Adds, RolledBack
    <3>5. cur \notin jrn.prepared
      BY <2>2, NextNumber DEF Inv, Preparing
    <3>6. prep' = Append(prep, Prepare(fs, Op))
      BY <1>1, <2>2, <3>3, <3>5
    <3>7. DiskInv' /\ BackupInv'
      BY <1>1, <2>2, <3>3, <3>4, <3>6, DiskPrepares
    <3> QED BY <1>2, <3>7, Elsewhere DEF FilesInv
  <2>3. CASE pc = "log undone"
    <3>1. Frame = OpRecord("ROLLBACK_APPLIED", cur)
      BY <2>3, Zenon DEF Frame
    <3>2. Adds({}, {}, {}, {cur}, FALSE, FALSE)
      BY <1>5, <2>3, <3>1, FrameEffect DEF Inv
    <3>3. /\ jrn'.prepared = jrn.prepared /\ jrn'.rollbackApplied = jrn.rollbackApplied \cup {cur}
      BY <3>2 DEF Adds
    <3>4. RolledBack' => RolledBack
      BY <3>2, Zenon DEF Adds, RolledBack
    <3>5. prep' = prep
      BY <1>1, <2>3
    <3>6. DiskInv' /\ BackupInv'
      BY <1>1, <2>3, <3>3, <3>4, <3>5, DiskUndoes
    <3> QED BY <1>2, <3>6, Elsewhere DEF FilesInv
  <2>4. CASE pc \notin {"transition", "log prepared", "log undone"}
    <3>1. \/ pc = "log applied" /\ Frame = OpRecord("OP_APPLIED", cur)
          \/ pc = "assert" /\ Frame = Marker("ASSERT_RESULT")
          \/ pc = "log commit" /\ Frame = Marker("TX_COMMIT")
          \/ pc = "log undo" /\ Frame = OpRecord("ROLLBACK_PREPARED", cur)
          \/ pc = "log complete" /\ Frame = Marker("TX_ROLLBACK_COMPLETE")
      BY <1>1, <2>4, Zenon DEF Frame, Appending
    <3>2. PICK a, r, c, b : Adds({}, a, r, {}, c, b) /\ (b => pc = "log complete")
      BY <1>5, <3>1, FrameEffect DEF Inv
    <3>3. b => jrn.rollbackApplied = jrn.prepared
      BY <3>2 DEF Inv, CtlInv, BackwardInv
    <3>4. prep' = prep
      BY <1>1, <2>4
    <3> QED BY <1>1, <1>2, <3>2, <3>3, <3>4, Notes
  <2> QED BY <2>1, <2>2, <2>3, <2>4
<1> QED BY <1>3, <1>4, <1>5

\* The frames and the metadata that either kind of run makes durable (state.go).
LEMMA FilesDurable == Inv /\ FilesInv /\ Durable => FilesInv'
<1> SUFFICES ASSUME Inv, FilesInv, Durable PROVE FilesInv'
  OBVIOUS
<1>1. CASE AppendState
  <2>1. /\ pc = "transition" /\ pc' = "persist" /\ WriteFrame(StateRecord(to))
        /\ UNCHANGED <<fs, tmp, bak, prep, origin>>
    BY <1>1 DEF AppendState, files, given
  <2>2. jrn' \in {jrn, Corrupted(jrn)} \/ jrn' = Extend(jrn, StateRecord(to))
    BY <2>1 DEF WriteFrame, Unread
  <2>3. Remembers
    BY <2>1, <2>2, SpoiltEffect, StateFrameEffect DEF Inv
  <2>4. pc' \notin Busy
    BY <2>1 DEF Busy, Preparing, Applying, Undoing
  <2> QED BY <2>1, <2>3, <2>4, Repeats
<1>2. CASE PersistState
  <2>1. UNCHANGED <<fs, tmp, bak, prep, origin, jrn>> /\ pc = "persist" /\ AfterState
    BY <1>2 DEF PersistState, files, log, given
  <2>2. CASE to = "RUNNING" /\ NextOperation(1)
    <3>1. prep = <<>>
      BY <2>1, <2>2 DEF Inv, CtlInv, StatusInv, Due
    <3>2. Rolled = {}
      <4>1. Len(prep) = 0
        BY <3>1
      <4>2. jrn.prepared = 1..0
        BY <4>1 DEF Inv, CtlInv, LogInv
      <4>3. jrn.rollbackApplied \subseteq jrn.prepared
        BY DEF Inv, CtlInv, LogInv
      <4> QED BY <4>2, <4>3 DEF Rolled
    <3>3. pc' \in {"prepare", "transition"}
      BY <2>2 DEF NextOperation, GotoOp, Transition
    <3>4. Rolled' = {}
      BY <2>1, <3>2 DEF Rolled
    <3>5. PlaceInv'
      BY <3>3, <3>4 DEF PlaceInv, Preparing, Applying
    <3> QED BY <2>1, <3>5, Idles DEF FilesInv
  <2>3. CASE ~(to = "RUNNING" /\ NextOperation(1))
    <3>1. \/ Transition("RUNNING") \/ NextAssertion(1) \/ Goto("log commit")
          \/ GotoOp("inspect", Len(prep)) \/ Goto("cleanup") \/ Stop("RECOVERY_FAILED")
      BY <2>1, <2>3, AfterStateCases
    <3>2. pc' \notin Busy
      BY <3>1 DEF Transition, NextAssertion, Goto, GotoOp, Stop, Busy, Preparing, Applying, Undoing
    <3> QED BY <2>1, <3>2, Idles
  <2> QED BY <2>2, <2>3
<1>3. CASE PersistStateFails
  <2>1. UNCHANGED <<fs, tmp, bak, prep, origin, jrn>>
    BY <1>3 DEF PersistStateFails, files, log, given
  <2>2. pc' \notin Busy
    BY <1>3, StateErrorCases, GivesUp DEF PersistStateFails
  <2> QED BY <2>1, <2>2, Idles
<1>4. CASE AppendFails
  BY <1>4, FilesAppendFails
<1>5. CASE RemoveBackups \/ RecordCleanup \/ Release
  <2>1. UNCHANGED <<fs, tmp, prep, origin, jrn>> /\ pc \in {"cleanup", "cleaned", "release"}
    BY <1>5 DEF RemoveBackups, RecordCleanup, Release, files, log, given
  <2>2. pc' \notin Busy
    BY <1>5 DEF RemoveBackups, RecordCleanup, Release, Goto, Stop, Busy, Preparing, Applying,
       Undoing
  <2> QED BY <2>1, <2>2, AtEnd, Idles
<1>6. CASE EndFails
  <2>1. UNCHANGED <<fs, tmp, prep, origin, jrn>> /\ pc \in {"cleanup", "cleaned", "release"}
    BY <1>6, Zenon DEF EndFails, log, given
  <2>2. pc' \notin Busy
    BY <1>6, EndFailsCases, GivesUp
  <2> QED BY <2>1, <2>2, AtEnd, Idles
<1> QED BY <1>1, <1>2, <1>3, <1>4, <1>5, <1>6 DEF Durable

\* A process ends or a new one starts.
LEMMA FilesOther ==
  FilesInv /\ (RecoverCommand \/ Crash \/ Done \/ UNCHANGED vars) => FilesInv'
<1> SUFFICES ASSUME FilesInv, RecoverCommand \/ Crash \/ Done \/ UNCHANGED vars PROVE FilesInv'
  OBVIOUS
<1>1. CASE RecoverCommand \/ Crash
  <2>1. UNCHANGED <<fs, tmp, bak, prep, origin, jrn>>
    BY <1>1 DEF RecoverCommand, Crash, files, log, given
  <2>2. pc' \notin Busy
    BY <1>1, GivesUp DEF RecoverCommand, Crash, Busy, Preparing, Applying, Undoing
  <2> QED BY <2>1, <2>2, Idles
<1>2. CASE Done \/ UNCHANGED vars
  <2>1. UNCHANGED <<fs, tmp, bak, prep, origin, jrn, pc, cur, todo>>
    BY <1>2 DEF Done, vars, files, log, given, ctl, work
  <2>2. PlaceInv'
    <3>1. Op' = Op /\ D' = D /\ Prepare(fs, Op)' = Prepare(fs, Op)
      BY <1>2, <2>1 DEF Done, vars, given, Op, D
    <3>2. Rolled' = Rolled /\ Clear(cur)' = Clear(cur) /\ Here' = Here /\ Installs' = Installs
      BY <2>1 DEF Rolled, Clear, Here, D, Installs
    <3> QED BY <2>1, <3>1, <3>2 DEF FilesInv, PlaceInv
  <2> QED BY <2>1, <2>2, Idles DEF FilesInv
<1> QED BY <1>1, <1>2

\* A new transaction has changed no file.
LEMMA FilesInit == Init => FilesInv
<1> SUFFICES ASSUME Init PROVE FilesInv
  OBVIOUS
<1>1. /\ fs = origin /\ tmp = [s \in Slots |-> Absent] /\ prep = <<>> /\ pc = "idle"
      /\ jrn = BegunJournal
  BY DEF Init
<1>2. Len(prep) = 0 /\ \A i \in 1..Len(prep) : FALSE
  BY <1>1
<1>3. Rolled = {} /\ ~RolledBack
  BY <1>1 DEF Rolled, RolledBack, BegunJournal
<1>4. DescriptorInv /\ ChangeInv /\ FirstInv /\ TemporaryInv /\ OrderInv
  BY <1>1, <1>2, <1>3 DEF DescriptorInv, ChangeInv, FirstInv, TemporaryInv, OrderInv
<1>5. BackupInv
  BY <1>2 DEF BackupInv
<1>6. PlaceInv
  BY <1>1 DEF PlaceInv, Preparing, Applying
<1> QED BY <1>4, <1>5, <1>6 DEF FilesInv, DiskInv

--------------------------------------------------------------------------------
(* What follows for every execution.                                        *)

\* Whatever crashes and whatever fails, every change belongs to a journaled operation
\* whose rollback is still to come, and rollbacks run from the last operation to the
\* first (txn.go, Execute; recovery.go, Recover).
THEOREM FilesInvariance == Spec => []FilesInv
<1>1. Inv /\ FilesInv /\ [Next]_vars => FilesInv'
  BY FilesExecute, FilesCall, FilesRecover, FilesDurable, FilesOther DEF Next, Run
<1> QED BY <1>1, FilesInit, Invariance, PTL DEF Spec

\* As long as the outcome is open, every changed path has a journaled descriptor whose
\* backup holds its initial state (engine.go, Prepare; recovery.go, fail).
THEOREM SavedCorrect == Spec => []ChangesAreSaved
<1>1. Inv /\ FilesInv => ChangesAreSaved
  <2> SUFFICES ASSUME Inv, FilesInv, ~Decided, NEW p \in Paths, fs[p] # origin[p]
               PROVE  \E i \in 1..Len(prep) : Touches(i, p) /\ Saved(i, p) = origin[p]
    BY DEF ChangesAreSaved
  <2>1. PICK j \in 1..Len(prep) : Reaches(prep[j], p)
    BY DEF FilesInv, DiskInv, ChangeInv
  <2>2. PICK i \in 1..Len(prep) : Reaches(prep[i], p) /\ Kept(prep[i], p) = origin[p]
    BY <2>1 DEF FilesInv, DiskInv, FirstInv, Covered
  <2>3. Touches(i, p)
    BY <2>2 DEF Touches, Reaches
  <2>4. Saved(i, p) = Kept(prep[i], p)
    <3>1. /\ bak[<<i, "target">>] = prep[i].prior
          /\ prep[i].kind = "move" => bak[<<i, "source">>] = prep[i].expected
      BY DEF FilesInv, BackupInv
    <3> QED BY <3>1, Zenon DEF Saved, Kept
  <2> QED BY <2>2, <2>3, <2>4
<1> QED BY <1>1, FilesInvariance, Invariance, PTL

\* Once the journal says that the rollback is complete, every path holds what it held
\* before the transaction and no temporary is left (recovery.go, Recover).
THEOREM RestoresCorrect == Spec => []RollbackRestores
<1>1. Inv /\ FilesInv => RollbackRestores
  <2> SUFFICES ASSUME Inv, FilesInv, RolledBack PROVE fs = origin /\ NoTemporaries
    BY DEF RollbackRestores, RolledBack
  <2>1. \A i \in 1..Len(prep) : i \in Rolled
    BY DEF FilesInv, DiskInv, OrderInv, Inv, CtlInv, LogInv
  <2>2. \A p \in Paths : fs[p] = origin[p]
    BY <2>1 DEF FilesInv, DiskInv, ChangeInv
  <2>3. fs \in [Paths -> Entries] /\ origin \in [Paths -> Entries]
    BY DEF Inv, TypeOK
  <2>4. NoTemporaries
    BY <2>1 DEF FilesInv, DiskInv, TemporaryInv, NoTemporaries
  <2> QED BY <2>2, <2>3, <2>4
<1> QED BY <1>1, FilesInvariance, Invariance, PTL

--------------------------------------------------------------------------------
(* The stages of a script.                                                  *)

\* Every set of natural numbers has a least one.
LEMMA Least ==
  ASSUME NEW T \in SUBSET Nat, T # {}
  PROVE  \E n \in T : \A m \in T : ~(m < n)
<1> DEFINE R == OpToRel(<, Nat)
<1>1. IsWellFoundedOn(R, Nat)
  BY NatLessThanWellFounded
<1>2. \A m, n \in Nat : <<m, n>> \in R <=> m < n
  BY DEF OpToRel
<1> HIDE DEF R
<1>3. \E n \in T : \A m \in T : ~(<<m, n>> \in R)
  BY <1>1, WFMin
<1> QED BY <1>2, <1>3

\* f is the function of the files after each of the first n operations.
Staged(f, old, ops, n) ==
  f = [k \in 0..n |-> IF k = 0 THEN old ELSE Effect(f[k - 1], ops[k])]

\* There are stages for every number of operations: no least number has none.
LEMMA StagesExist ==
  ASSUME NEW old, NEW ops, NEW n \in Nat
  PROVE  \E f : Staged(f, old, ops, n)
<1> DEFINE T == {k \in Nat : ~\E f : Staged(f, old, ops, k)}
<1>1. SUFFICES ASSUME T # {} PROVE FALSE
  OBVIOUS
<1>2. PICK k \in T : \A m \in T : ~(m < k)
  BY <1>1, Least
<1>3. CASE k = 0
  <2> DEFINE f == [i \in 0..0 |-> old]
  <2>1. Staged(f, old, ops, 0)
    BY DEF Staged
  <2> QED BY <1>2, <1>3, <2>1
<1>4. CASE k # 0
  <2>1. k - 1 \in Nat /\ k - 1 < k
    BY <1>2, <1>4
  <2>2. PICK f : Staged(f, old, ops, k - 1)
    BY <1>2, <2>1
  <2> DEFINE h == [i \in 0..k |-> IF i = k THEN Effect(f[k - 1], ops[k]) ELSE f[i]]
  <2>3. ASSUME NEW i \in 0..k
        PROVE  h[i] = IF i = 0 THEN old ELSE Effect(h[i - 1], ops[i])
    <3>1. CASE i = k
      BY <1>2, <1>4, <2>1, <3>1
    <3>2. CASE i # k
      <4>1. i \in 0..k-1 /\ i \in Nat
        BY <1>2, <3>2
      <4>2. f[i] = IF i = 0 THEN old ELSE Effect(f[i - 1], ops[i])
        BY <2>2, <4>1 DEF Staged
      <4>3. i = 0 \/ (i - 1 # k /\ i - 1 \in 0..k)
        BY <1>2, <3>2
      <4> QED BY <3>2, <4>2, <4>3
    <3> QED BY <3>1, <3>2
  <2>4. h = [i \in 0..k |-> h[i]]
    OBVIOUS
  <2> HIDE DEF h
  <2>5. Staged(h, old, ops, k)
    BY <2>3, <2>4 DEF Staged
  <2> QED BY <1>2, <2>5
<1> QED BY <1>3, <1>4

\* Stages meets its defining equation.
LEMMA StagesEquation ==
  ASSUME NEW old, NEW ops, Len(ops) \in Nat
  PROVE  /\ Stages(old, ops)[0] = old
         /\ \A n \in 1..Len(ops) : /\ n - 1 \in 0..Len(ops)
                                   /\ Stages(old, ops)[n] = Effect(Stages(old, ops)[n - 1], ops[n])
<1>1. PICK f : Staged(f, old, ops, Len(ops))
  BY StagesExist
<1>2. Staged(Stages(old, ops), old, ops, Len(ops))
  BY <1>1, Zenon DEF Stages, Staged
<1> DEFINE g == Stages(old, ops)
<1> HIDE DEF g
<1>3. \A k \in 0..Len(ops) : g[k] = IF k = 0 THEN old ELSE Effect(g[k - 1], ops[k])
  BY <1>2 DEF g, Staged
<1>4. 0 \in 0..Len(ops)
  OBVIOUS
<1>5. \A n \in 1..Len(ops) : n \in 0..Len(ops) /\ n # 0 /\ n - 1 \in 0..Len(ops)
  OBVIOUS
<1> QED BY <1>3, <1>4, <1>5 DEF g

\* An operation makes files of files.
LEMMA EffectType ==
  ASSUME NEW f \in [Paths -> Entries], NEW op \in Operations
  PROVE  Effect(f, op) \in [Paths -> Entries]
<1>1. /\ op.source \in Paths /\ op.target \in Paths /\ op.kind \in Kinds /\ op.content \in Contents
      /\ Contents \subseteq Entries /\ Absent \in Entries /\ Dir \in Entries
  BY DEF Operations, Entries
<1>2. CASE op.kind = "mkdir"
  <2>1. Effect(f, op) = [p \in Paths |-> IF p \in {op.target, Parent[op.target]} /\ f[p] = Absent
                                         THEN Dir ELSE f[p]]
    BY <1>2, Zenon DEF Effect
  <2> QED BY <1>1, <2>1
<1>3. CASE op.kind = "copy"
  <2>1. Effect(f, op) = [f EXCEPT ![op.target] = f[op.source]]
    BY <1>3, Zenon DEF Effect
  <2> QED BY <1>1, <2>1
<1>4. CASE op.kind = "move"
  <2>1. Effect(f, op) = [f EXCEPT ![op.target] = f[op.source], ![op.source] = Absent]
    BY <1>4, Zenon DEF Effect
  <2> QED BY <1>1, <2>1
<1>5. CASE op.kind = "write"
  <2>1. Effect(f, op) = [f EXCEPT ![op.target] = op.content]
    BY <1>5, Zenon DEF Effect
  <2> QED BY <1>1, <2>1
<1>6. CASE op.kind = "replace"
  <2>1. Effect(f, op) =
          [f EXCEPT ![op.target] = IF IsRegular(f[op.target]) THEN Replaced[f[op.target]]
                                   ELSE f[op.target]]
    BY <1>6, Zenon DEF Effect
  <2>2. f[op.target] \in Entries
    BY <1>1
  <2>3. IsRegular(f[op.target]) => Replaced[f[op.target]] \in Entries
    BY <1>1, EntriesAssumption DEF IsRegular
  <2> QED BY <2>1, <2>2, <2>3
<1>7. CASE op.kind = "delete"
  <2>1. Effect(f, op) = [f EXCEPT ![op.target] = Absent]
    BY <1>7, Zenon DEF Effect
  <2> QED BY <1>1, <2>1
<1> QED BY <1>1, <1>2, <1>3, <1>4, <1>5, <1>6, <1>7 DEF Kinds

\* Each stage gives each path an entry.
LEMMA StagesType ==
  ASSUME NEW old \in [Paths -> Entries], NEW ops \in Seq(Operations), NEW n \in 0..Len(ops)
  PROVE  Stages(old, ops)[n] \in [Paths -> Entries]
<1> DEFINE g == Stages(old, ops)
           T == {k \in 0..Len(ops) : g[k] \notin [Paths -> Entries]}
<1>1. SUFFICES ASSUME T # {} PROVE FALSE
  OBVIOUS
<1>2. Len(ops) \in Nat
  OBVIOUS
<1>3. PICK k \in T : \A m \in T : ~(m < k)
  <2>1. T \in SUBSET Nat
    BY <1>2
  <2> QED BY <1>1, <2>1, Least
<1>4. /\ g[0] = old
      /\ \A i \in 1..Len(ops) : i - 1 \in 0..Len(ops) /\ g[i] = Effect(g[i - 1], ops[i])
  BY <1>2, StagesEquation
<1> HIDE DEF g
<1>5. k # 0 /\ k \in 1..Len(ops) /\ k - 1 < k
  BY <1>2, <1>3, <1>4
<1>6. g[k - 1] \in [Paths -> Entries]
  BY <1>3, <1>4, <1>5
<1>7. ops[k] \in Operations
  BY <1>5
<1> QED BY <1>3, <1>4, <1>5, <1>6, <1>7, EffectType

--------------------------------------------------------------------------------
(* One operation.                                                           *)

\* mkdir makes the directories of its path that are not there, and no other operation
\* makes any (engine.go, missingDirectories).
LEMMA MkdirReaches ==
  ASSUME NEW f, NEW op \in Operations, op.kind = "mkdir", NEW p
  PROVE  Reaches(Prepare(f, op), p) <=> p \in {op.target, Parent[op.target]} /\ f[p] = Absent
<1> DEFINE d == Prepare(f, op)
           missing(q) == IF f[q] = Absent THEN <<q>> ELSE <<>>
           above == IF Parent[op.target] = op.target THEN <<>> ELSE missing(Parent[op.target])
<1>1. d.kind = "mkdir" /\ d.created = MissingDirectories(f, op.target)
  BY DEF Prepare
<1>2. d.created = above \o missing(op.target)
  BY <1>1 DEF MissingDirectories
<1>3. ASSUME NEW q
      PROVE  (\E k \in 1..Len(missing(q)) : p = missing(q)[k]) <=> p = q /\ f[p] = Absent
  OBVIOUS
<1>4. (\E k \in 1..Len(above) : p = above[k]) <=>
        Parent[op.target] # op.target /\ p = Parent[op.target] /\ f[p] = Absent
  BY <1>3
<1>5. \A q : missing(q) = <<>> \/ missing(q) = <<q>>
  OBVIOUS
<1>6. above = <<>> \/ above = <<Parent[op.target]>>
  OBVIOUS
<1> HIDE DEF d, missing, above
<1>7. (\E k \in 1..Len(d.created) : p = d.created[k]) <=>
        \/ \E k \in 1..Len(above) : p = above[k]
        \/ \E k \in 1..Len(missing(op.target)) : p = missing(op.target)[k]
  BY <1>2, <1>5, <1>6
<1>8. Reaches(d, p) <=> \E k \in 1..Len(d.created) : p = d.created[k]
  BY <1>1 DEF Reaches
<1> QED BY <1>3, <1>4, <1>7, <1>8 DEF d

\* An operation that changed nothing but its own paths, and whose result was verified,
\* has the effect the language gives it (engine.go, Apply and Verify).
LEMMA EffectMade ==
  ASSUME NEW f \in [Paths -> Entries], NEW h \in [Paths -> Entries], NEW op \in Operations,
         NEW d, d = Prepare(f, op), CanPrepare(f, op), Verified(h, d),
         \A p \in Paths : ~Reaches(d, p) => h[p] = f[p],
         d.kind = "move" => h[d.source] = Absent,
         \A k \in 1..Len(d.created) : h[d.created[k]] = Dir
  PROVE  h = Effect(f, op)
<1>1. /\ d.kind = op.kind /\ d.target = op.target /\ d.source = op.source
      /\ d.expected = Expected(f, op) /\ (op.kind # "mkdir" => d.created = <<>>)
  BY DEF Prepare
<1>2. /\ op.source \in Paths /\ op.target \in Paths /\ op.kind \in Kinds
      /\ Effect(f, op) \in [Paths -> Entries]
  BY EffectType DEF Operations
<1>3. SUFFICES ASSUME NEW p \in Paths PROVE h[p] = Effect(f, op)[p]
  BY <1>2
<1>4. op.kind # "mkdir" =>
        (Reaches(d, p) <=> p = op.target \/ (op.kind = "move" /\ p = op.source))
  <2>1. op.kind # "mkdir" => Len(d.created) = 0
    BY <1>1
  <2> QED BY <1>1, <2>1 DEF Reaches
<1>5. op.kind \notin {"mkdir", "delete"} => h[op.target] = Expected(f, op)
  BY <1>1, Zenon DEF Verified
<1>6. CASE op.kind = "mkdir"
  <2>1. Effect(f, op)[p] = IF p \in {op.target, Parent[op.target]} /\ f[p] = Absent
                           THEN Dir ELSE f[p]
    <3>1. Effect(f, op) = [q \in Paths |-> IF q \in {op.target, Parent[op.target]} /\ f[q] = Absent
                                           THEN Dir ELSE f[q]]
      BY <1>6, Zenon DEF Effect
    <3> QED BY <3>1
  <2>2. Reaches(d, p) <=> p \in {op.target, Parent[op.target]} /\ f[p] = Absent
    BY <1>6, MkdirReaches
  <2>3. Reaches(d, p) => h[p] = Dir
    BY <1>1, <1>6 DEF Reaches
  <2> QED BY <2>1, <2>2, <2>3
<1>7. CASE op.kind = "copy"
  <2>1. Effect(f, op) = [f EXCEPT ![op.target] = f[op.source]]
    BY <1>7, Zenon DEF Effect
  <2>2. Expected(f, op) = f[op.source]
    BY <1>7 DEF Expected, Transfer
  <2> QED BY <1>2, <1>4, <1>5, <1>7, <2>1, <2>2
<1>8. CASE op.kind = "move"
  <2>1. Effect(f, op) = [f EXCEPT ![op.target] = f[op.source], ![op.source] = Absent]
    BY <1>8, Zenon DEF Effect
  <2>2. Expected(f, op) = f[op.source] /\ op.source # op.target
    BY <1>8 DEF Expected, Transfer, CanPrepare
  <2>3. h[op.source] = Absent
    BY <1>1, <1>8
  <2> QED BY <1>2, <1>4, <1>5, <1>8, <2>1, <2>2, <2>3
<1>9. CASE op.kind = "write"
  <2>1. Effect(f, op) = [f EXCEPT ![op.target] = op.content]
    BY <1>9, Zenon DEF Effect
  <2>2. Expected(f, op) = op.content
    BY <1>9 DEF Expected, Transfer
  <2> QED BY <1>2, <1>4, <1>5, <1>9, <2>1, <2>2
<1>10. CASE op.kind = "replace"
  <2>1. Effect(f, op) =
          [f EXCEPT ![op.target] = IF IsRegular(f[op.target]) THEN Replaced[f[op.target]]
                                   ELSE f[op.target]]
    BY <1>10, Zenon DEF Effect
  <2>2. IsRegular(f[op.target])
    BY <1>10 DEF CanPrepare
  <2>3. Expected(f, op) = Replaced[f[op.target]]
    BY <1>10, <2>2 DEF Expected, Transfer
  <2> QED BY <1>2, <1>4, <1>5, <1>10, <2>1, <2>2, <2>3
<1>11. CASE op.kind = "delete"
  <2>1. Effect(f, op) = [f EXCEPT ![op.target] = Absent]
    BY <1>11, Zenon DEF Effect
  <2>2. h[op.target] = Absent
    BY <1>1, <1>11, Zenon DEF Verified
  <2> QED BY <1>2, <1>4, <1>11, <2>1, <2>2
<1> QED BY <1>2, <1>6, <1>7, <1>8, <1>9, <1>10, <1>11 DEF Kinds

--------------------------------------------------------------------------------
(* The steps that write the journal and those that touch files.             *)

Committed == jrn.committed

\* Only an append changes the journal, by its frame or into an unreadable one.
LEMMA OnlyFrames ==
  [Next]_vars => \/ jrn' = jrn
                 \/ pc \in Appending /\ jrn' \in {Corrupted(jrn), Extend(jrn, Frame)}
<1> SUFFICES ASSUME [Next]_vars, jrn' # jrn
             PROVE  pc \in Appending /\ jrn' \in {Corrupted(jrn), Extend(jrn, Frame)}
  OBVIOUS
<1> USE DEF log
<1>1. ASSUME pc \in Appending, WriteFrame(Frame) \/ WriteFrameError(Frame)
      PROVE  pc \in Appending /\ jrn' \in {Corrupted(jrn), Extend(jrn, Frame)}
  BY <1>1 DEF WriteFrame, WriteFrameError, Unread
<1>2. /\ pc = "transition" => Frame = StateRecord(to)
      /\ pc = "log prepared" => Frame = OpRecord("OP_PREPARED", cur)
      /\ pc = "log applied" => Frame = OpRecord("OP_APPLIED", cur)
      /\ pc = "assert" => Frame = Marker("ASSERT_RESULT")
      /\ pc = "log commit" => Frame = Marker("TX_COMMIT")
      /\ pc = "log undo" => Frame = OpRecord("ROLLBACK_PREPARED", cur)
      /\ pc = "log undone" => Frame = OpRecord("ROLLBACK_APPLIED", cur)
      /\ pc = "log complete" => Frame = Marker("TX_ROLLBACK_COMPLETE")
  BY Zenon DEF Frame
<1>3. CASE Execute
  <2>1. LogPrepared \/ LogApplied \/ Assert \/ LogCommit
    BY <1>3 DEF Execute, Begin, PlanAccepted, PlanRejected, PrepareOperation, PrepareFails,
       StartApply, StartApplyFails, FinishApply, VerifyOperation, VerifyFails
  <2> QED BY <1>1, <1>2, <2>1 DEF LogPrepared, LogApplied, Assert, LogCommit, Appending
<1>4. CASE FileCall
  BY <1>4 DEF FileCall, DoCreate, DoFill, DoRemove, DoRemoveSome, DoInstall, DoRename,
     DoFailedRename, DoMkdir, DoRmdir, DoCheckAbsent, CallFails, CallFrame
<1>5. CASE Recover
  <2>1. LogUndo \/ LogUndone \/ LogComplete
    BY <1>5, ReconcileFrame DEF Recover, OpenJournal, OpenJournalFails, ReconcileFails,
       InspectDone, Inspect, InspectRefused, InspectFails, StartUndo, NothingToUndo,
       UndoRefused, FinishUndo, Recheck, RecheckFails, AllUndone, GiveUp, GiveUpFails
  <2> QED BY <1>1, <1>2, <2>1 DEF LogUndo, LogUndone, LogComplete, Appending
<1>6. CASE Durable
  <2>1. AppendState \/ AppendFails
    BY <1>6, EndFailsCases DEF Durable, PersistState, PersistStateFails, RemoveBackups,
       RecordCleanup, Release
  <2> QED BY <1>1, <1>2, <2>1 DEF AppendState, AppendFails, Appending
<1>7. CASE RecoverCommand \/ Crash \/ Done \/ UNCHANGED vars
  BY <1>7 DEF RecoverCommand, Crash, Done, vars
<1> QED BY <1>3, <1>4, <1>5, <1>6, <1>7 DEF Next, Run

\* Only the two markers decide the transaction (txn.go, Execute; recovery.go, Recover).
LEMMA DecidingSteps ==
  Inv /\ [Next]_vars =>
    \/ (Committed' <=> Committed) /\ (RolledBack' <=> RolledBack)
    \/ pc = "log commit" /\ ~Decided /\ Committed' /\ ~RolledBack'
    \/ pc = "log complete" /\ ~Decided /\ ~Committed' /\ RolledBack'
<1> SUFFICES ASSUME Inv, [Next]_vars
             PROVE  \/ (Committed' <=> Committed) /\ (RolledBack' <=> RolledBack)
                    \/ pc = "log commit" /\ ~Decided /\ Committed' /\ ~RolledBack'
                    \/ pc = "log complete" /\ ~Decided /\ ~Committed' /\ RolledBack'
  OBVIOUS
<1>1. ASSUME NEW p, NEW a, NEW rp, NEW ra, Adds(p, a, rp, ra, FALSE, FALSE)
      PROVE  (Committed' <=> Committed) /\ (RolledBack' <=> RolledBack)
  BY <1>1, Zenon DEF Adds, Committed, RolledBack
<1>2. CASE jrn' \in {jrn, Corrupted(jrn)}
  BY <1>2, SpoiltEffect, Zenon DEF Inv, Remembers, Committed, RolledBack
<1>3. CASE pc = "transition" /\ jrn' = Extend(jrn, Frame)
  <2>1. Frame = StateRecord(to)
    BY <1>3, Zenon DEF Frame
  <2>2. Remembers
    BY <1>3, <2>1, StateFrameEffect DEF Inv
  <2> QED BY <2>2, Zenon DEF Remembers, Committed, RolledBack
<1>4. CASE pc \in Appending \ {"transition"} /\ jrn' = Extend(jrn, Frame)
  <2>1. ~Decided
    <3>1. pc \in Working
      BY <1>4 DEF Appending, Working, Preparing, Applying, Backward, Undoing
    <3> QED BY <3>1 DEF Inv, CtlInv, StatusInv
  <2>2. CASE pc = "log commit"
    <3>1. Frame = Marker("TX_COMMIT")
      BY <2>2, Zenon DEF Frame
    <3>2. Adds({}, {}, {}, {}, TRUE, FALSE)
      BY <1>4, <2>2, <3>1, FrameEffect DEF Inv
    <3> QED BY <2>1, <2>2, <3>2, Zenon DEF Adds, Committed, RolledBack, Decided
  <2>3. CASE pc = "log complete"
    <3>1. Frame = Marker("TX_ROLLBACK_COMPLETE")
      BY <2>3, Zenon DEF Frame
    <3>2. Adds({}, {}, {}, {}, FALSE, TRUE)
      BY <1>4, <2>3, <3>1, FrameEffect DEF Inv
    <3> QED BY <2>1, <2>3, <3>2, Zenon DEF Adds, Committed, RolledBack, Decided
  <2>4. CASE pc \notin {"log commit", "log complete"}
    <3>1. \/ pc = "log prepared" /\ Frame = OpRecord("OP_PREPARED", cur)
          \/ pc = "log applied" /\ Frame = OpRecord("OP_APPLIED", cur)
          \/ pc = "assert" /\ Frame = Marker("ASSERT_RESULT")
          \/ pc = "log undo" /\ Frame = OpRecord("ROLLBACK_PREPARED", cur)
          \/ pc = "log undone" /\ Frame = OpRecord("ROLLBACK_APPLIED", cur)
      BY <1>4, <2>4, Zenon DEF Frame, Appending
    <3>2. \E p, a, rp, ra : Adds(p, a, rp, ra, FALSE, FALSE)
      BY <1>4, <3>1, FrameEffect DEF Inv
    <3> QED BY <1>1, <3>2
  <2> QED BY <2>2, <2>3, <2>4
<1> QED BY <1>2, <1>3, <1>4, OnlyFrames

\* Only a call of the engine, or a rollback that tidies up, touches a temporary.
LEMMA OnlyTidying == [Next]_vars /\ tmp' # tmp => pc \in {"applying", "undoing", "inspect"}
<1> SUFFICES ASSUME [Next]_vars, pc \notin {"applying", "undoing", "inspect"} PROVE tmp' = tmp
  OBVIOUS
<1> USE DEF files
<1>1. CASE Execute
  BY <1>1 DEF Execute, Begin, PlanAccepted, PlanRejected, PrepareOperation, PrepareFails,
     LogPrepared, StartApply, StartApplyFails, FinishApply, VerifyOperation, VerifyFails,
     LogApplied, Assert, LogCommit
<1>2. CASE FileCall
  BY <1>2 DEF FileCall, DoCreate, DoFill, DoRemove, DoRemoveSome, DoInstall, DoRename,
     DoFailedRename, DoMkdir, DoRmdir, DoCheckAbsent, CallFails, Calling
<1>3. CASE Recover
  BY <1>3, ReconcileFrame DEF Recover, OpenJournal, OpenJournalFails, ReconcileFails,
     InspectDone, Inspect, InspectRefused, InspectFails, LogUndo, StartUndo, NothingToUndo,
     UndoRefused, FinishUndo, Recheck, RecheckFails, LogUndone, AllUndone, LogComplete,
     GiveUp, GiveUpFails
<1>4. CASE Durable
  BY <1>4, EndFailsCases DEF Durable, AppendState, PersistState, PersistStateFails,
     AppendFails, RemoveBackups, RecordCleanup, Release
<1>5. CASE RecoverCommand \/ Crash \/ Done \/ UNCHANGED vars
  BY <1>5 DEF RecoverCommand, Crash, Done, vars
<1> QED BY <1>1, <1>2, <1>3, <1>4, <1>5 DEF Next, Run

\* The script and the initial files are never written.
LEMMA GivenStays == [Next]_vars => UNCHANGED <<script, origin>>
<1> SUFFICES ASSUME [Next]_vars PROVE UNCHANGED <<script, origin>>
  OBVIOUS
<1> USE DEF given, CallFrame
<1>1. CASE Execute
  BY <1>1 DEF Execute, Begin, PlanAccepted, PlanRejected, PrepareOperation, PrepareFails,
     LogPrepared, StartApply, StartApplyFails, FinishApply, VerifyOperation, VerifyFails,
     LogApplied, Assert, LogCommit
<1>2. CASE FileCall
  BY <1>2 DEF FileCall, DoCreate, DoFill, DoRemove, DoRemoveSome, DoInstall, DoRename,
     DoFailedRename, DoMkdir, DoRmdir, DoCheckAbsent, CallFails
<1>3. CASE Recover
  BY <1>3, ReconcileFrame DEF Recover, OpenJournal, OpenJournalFails, ReconcileFails,
     InspectDone, Inspect, InspectRefused, InspectFails, LogUndo, StartUndo, NothingToUndo,
     UndoRefused, FinishUndo, Recheck, RecheckFails, LogUndone, AllUndone, LogComplete,
     GiveUp, GiveUpFails
<1>4. CASE Durable
  BY <1>4, EndFailsCases DEF Durable, AppendState, PersistState, PersistStateFails,
     AppendFails, RemoveBackups, RecordCleanup, Release
<1>5. CASE RecoverCommand \/ Crash \/ Done \/ UNCHANGED vars
  BY <1>5 DEF RecoverCommand, Crash, Done, vars
<1> QED BY <1>1, <1>2, <1>3, <1>4, <1>5 DEF Next, Run

--------------------------------------------------------------------------------
(* From one stage to the next.                                              *)

Stage(n) == Stages(origin, script)[n]

\* The status changes before the first operation, and all that follows the last.
Starting  == \/ pc \in {"idle", "plan"}
             \/ pc \in {"transition", "persist"} /\ to \in {"PREPARED", "RUNNING"}
Finishing == \/ pc \in {"assert", "log commit"}
             \/ pc \in {"transition", "persist"} /\ to \in {"VERIFYING", "COMMITTING"}

Forward == Starting \/ Finishing \/ pc \in Preparing \cup Applying

\* The descriptor in hand was made of the files at the last stage.
Described == D = Prepare(Stage(cur - 1), Op) /\ CanPrepare(Stage(cur - 1), Op)

\* What the calls of the operation have done so far.
Underway ==
  /\ \A p \in Paths : ~Reaches(D, p) => fs[p] = Stage(cur - 1)[p]
  /\ D.kind = "move" /\ (pc = "applying" => todo = <<>>) => fs[D.source] = Absent
  /\ \A k \in 1..Len(D.created) :
       \/ fs[D.created[k]] = Dir
       \/ pc = "applying" /\ \E m \in 1..Len(todo) : todo[m].path = D.created[k]

PositionInv ==
  /\ Starting => fs = Stage(0)
  /\ pc \in Preparing \cup {"apply"} => fs = Stage(cur - 1)
  /\ pc = "log prepared" => CanPrepare(fs, Op)
  /\ pc \in {"apply", "applying", "verify"} => Described
  /\ pc \in {"applying", "verify"} => Underway
  /\ pc = "log applied" => fs = Stage(cur)
  /\ Finishing => fs = Outcome

\* On the way forward there are no temporaries but those of the operation in hand.
TidyInv == Forward => \A s \in Slots : tmp[s] # Absent => pc = "applying" /\ s[1] = cur

CommitInv == Committed => fs = Outcome /\ NoTemporaries

StageInv == PositionInv /\ TidyInv /\ CommitInv

\* The commit marker is written behind the last stage, and nothing moves after it.
LEMMA CommitStep == Inv /\ StageInv /\ [Next]_vars => CommitInv'
<1> SUFFICES ASSUME Inv, StageInv, [Next]_vars, Committed'
             PROVE  fs' = Outcome' /\ NoTemporaries'
  BY DEF CommitInv
<1>1. Outcome' = Outcome
  BY GivenStays DEF Outcome
<1>2. /\ fs' # fs => ~Decided
      /\ tmp' # tmp => ~Decided
  <2>1. fs' # fs \/ tmp' # tmp => pc \in Working
    BY OnlyCalls, OnlyTidying DEF Working, Applying, Backward, Undoing
  <2> QED BY <2>1 DEF Inv, CtlInv, StatusInv
<1>3. CASE Committed
  <2>1. Decided
    BY <1>3, Zenon DEF Committed, Decided
  <2> QED BY <1>1, <1>2, <1>3, <2>1 DEF StageInv, CommitInv, NoTemporaries
<1>4. CASE pc = "log commit"
  <2>1. fs' = fs /\ tmp' = tmp
    BY <1>4, OnlyCalls, OnlyTidying
  <2>2. fs = Outcome /\ NoTemporaries
    BY <1>4 DEF StageInv, PositionInv, TidyInv, Finishing, Forward, NoTemporaries
  <2> QED BY <1>1, <2>1, <2>2 DEF NoTemporaries
<1> QED BY <1>3, <1>4, DecidingSteps

\* Where the transaction does not go forward nothing else is claimed.
LEMMA Astray == ~Forward' => PositionInv' /\ TidyInv'
BY DEF PositionInv, TidyInv, Forward, Preparing, Applying

\* A run that gives up or turns back no longer goes forward.
LEMMA StraySteps == RollbackFailure \/ Fail \/ (\E r : Stop(r)) => ~Forward'
BY DEF RollbackFailure, Fail, Stop, Forward, Starting, Finishing, Preparing, Applying

\* The next operation starts at the stage the last one ended at.
LEMMA NextStage ==
  ASSUME TypeOK, NEW n \in Nat, n > 0, n <= Len(script) + 1, fs = Stage(n - 1),
         \A s \in Slots : tmp[s] = Absent, UNCHANGED <<fs, tmp, script, origin>>,
         NextOperation(n)
  PROVE  PositionInv' /\ TidyInv'
<1>1. Len(script) \in Nat
  BY DEF TypeOK
<1>2. \A s \in Slots : tmp'[s] = Absent
  OBVIOUS
<1>3. TidyInv'
  BY <1>2 DEF TidyInv
<1>4. CASE n <= Len(script)
  <2>1. pc' = "prepare" /\ cur' = n
    BY <1>4 DEF NextOperation, GotoOp
  <2>2. fs' = Stage(cur - 1)'
    BY <2>1 DEF Stage
  <2>3. ~Starting' /\ ~Finishing'
    BY <2>1 DEF Starting, Finishing
  <2> QED BY <1>3, <2>1, <2>2, <2>3 DEF PositionInv, Preparing
<1>5. CASE n > Len(script)
  <2>1. pc' = "transition" /\ to' = "VERIFYING"
    BY <1>1, <1>5 DEF NextOperation, Transition
  <2>2. n - 1 = Len(script)
    BY <1>1, <1>5
  <2>3. fs' = Outcome'
    BY <2>2 DEF Stage, Outcome
  <2>4. ~Starting'
    BY <2>1 DEF Starting
  <2> QED BY <1>3, <2>1, <2>3, <2>4 DEF PositionInv, Preparing
<1> QED BY <1>1, <1>4, <1>5

\* A step that goes on forward and leaves the files alone.
LEMMA Marches ==
  ASSUME StageInv, Forward, pc # "applying", UNCHANGED <<fs, tmp, script, origin>>
  PROVE  /\ TidyInv' /\ (\A s \in Slots : tmp[s] = Absent) /\ Outcome' = Outcome
         /\ \A n : Stages(origin', script')[n] = Stage(n)
BY DEF StageInv, TidyInv, Stage, Outcome

\* The current operation of a transaction that goes forward.
LEMMA AtOperation ==
  ASSUME Inv, pc \in Preparing \cup Applying
  PROVE  /\ cur \in 1..Len(script) /\ Len(script) \in Nat /\ Op \in Operations
         /\ cur - 1 \in 0..Len(script) /\ Stage(cur - 1) \in [Paths -> Entries]
         /\ Stage(cur) = Effect(Stage(cur - 1), Op)
         /\ fs \in [Paths -> Entries]
<1>1. TypeOK /\ CtlInv
  BY DEF Inv
<1>2. cur \in 1..Len(script) /\ Len(script) \in Nat
  <2>1. CASE pc \in Preparing
    BY <1>1, <2>1, NextNumber DEF TypeOK
  <2>2. CASE pc \in Applying
    <3>1. cur = Len(prep) /\ cur > 0 /\ Len(prep) <= Len(script)
      BY <1>1, <2>2 DEF CtlInv, ForwardInv, LogInv
    <3> QED BY <1>1, <3>1 DEF TypeOK
  <2> QED BY <2>1, <2>2
<1>3. cur - 1 \in 0..Len(script) /\ Op \in Operations
  BY <1>1, <1>2 DEF TypeOK, Op
<1>4. origin \in [Paths -> Entries] /\ script \in Seq(Operations) /\ fs \in [Paths -> Entries]
  BY <1>1 DEF TypeOK
<1>5. Stage(cur - 1) \in [Paths -> Entries]
  BY <1>3, <1>4, StagesType DEF Stage
<1>6. Stage(cur) = Effect(Stage(cur - 1), Op)
  BY <1>2, StagesEquation DEF Stage, Op
<1> QED BY <1>2, <1>3, <1>4, <1>5, <1>6

\* The steps of Execute, up to TX_COMMIT (txn.go).
LEMMA StageExecute == Inv /\ FilesInv /\ StageInv /\ Execute => PositionInv' /\ TidyInv'
<1> SUFFICES ASSUME Inv, FilesInv, StageInv, Execute PROVE PositionInv' /\ TidyInv'
  OBVIOUS
<1>0. UNCHANGED <<script, origin>>
  BY GivenStays DEF Next, Run
<1>1. CASE PlanRejected \/ PrepareFails \/ StartApplyFails \/ VerifyFails
  BY <1>1, StraySteps, Astray DEF PlanRejected, PrepareFails, StartApplyFails, VerifyFails
<1>2. CASE Begin \/ PlanAccepted
  <2>1. /\ pc \in {"idle", "plan"} /\ fs' = fs /\ tmp' = tmp
        /\ pc' = "plan" \/ (pc' = "transition" /\ to' = "PREPARED")
    BY <1>2 DEF Begin, PlanAccepted, Goto, Transition, files
  <2>2. Forward /\ fs = Stage(0)
    BY <2>1 DEF Forward, Starting, StageInv, PositionInv
  <2>3. TidyInv' /\ Stage(0)' = Stage(0)
    BY <1>0, <2>1, <2>2, Marches DEF Stage
  <2>4. ~Finishing' /\ pc' \notin Preparing \cup Applying
    BY <2>1 DEF Finishing, Preparing, Applying
  <2> QED BY <2>1, <2>2, <2>3, <2>4 DEF PositionInv, Preparing, Applying
<1>3. CASE PrepareOperation
  <2>1. /\ pc = "prepare" /\ pc' = "log prepared" /\ fs' = fs /\ tmp' = tmp /\ cur' = cur
        /\ CanPrepare(fs, Op)
    BY <1>3 DEF PrepareOperation, Goto, work
  <2>2. Forward /\ fs = Stage(cur - 1)
    BY <2>1 DEF Forward, Preparing, StageInv, PositionInv
  <2>3. /\ TidyInv' /\ Stage(cur - 1)' = Stage(cur - 1) /\ Op' = Op
        /\ CanPrepare(fs, Op)' = CanPrepare(fs, Op)
    BY <1>0, <2>1, <2>2, Marches DEF Stage, Op
  <2>4. ~Starting' /\ ~Finishing'
    BY <2>1 DEF Starting, Finishing
  <2> QED BY <2>1, <2>2, <2>3, <2>4 DEF PositionInv
<1>4. CASE LogPrepared
  <2>1. /\ pc = "log prepared" /\ pc' = "apply" /\ fs' = fs /\ tmp' = tmp /\ cur' = cur
        /\ prep' = Append(prep, Prepare(fs, Op))
    BY <1>4 DEF LogPrepared, Goto, work, files
  <2>2. Forward /\ fs = Stage(cur - 1) /\ CanPrepare(fs, Op)
    BY <2>1 DEF Forward, Preparing, StageInv, PositionInv
  <2>3. TidyInv' /\ Stage(cur - 1)' = Stage(cur - 1) /\ Op' = Op
    BY <1>0, <2>1, <2>2, Marches DEF Stage, Op
  <2>4. D' = Prepare(fs, Op)
    <3>1. TypeOK /\ CtlInv /\ pc \in Preparing
      BY <2>1 DEF Inv, Preparing
    <3>2. cur = Len(prep) + 1 /\ Prepare(fs, Op) \in Descriptors /\ prep \in Seq(Descriptors)
      BY <3>1, NextNumber, OneMore DEF TypeOK
    <3>3. prep'[Len(prep) + 1] = Prepare(fs, Op)
      BY <2>1, <3>2, RecordedLast
    <3> QED BY <2>1, <3>2, <3>3 DEF D
  <2>5. Described'
    BY <2>2, <2>3, <2>4 DEF Described
  <2>6. ~Starting' /\ ~Finishing'
    BY <2>1 DEF Starting, Finishing
  <2> QED BY <2>1, <2>2, <2>3, <2>5, <2>6 DEF PositionInv, Preparing
<1>5. CASE StartApply
  <2>1. /\ pc = "apply" /\ pc' = "applying" /\ fs' = fs /\ tmp' = tmp /\ cur' = cur
        /\ prep' = prep /\ todo' = ApplyCalls(D)
    BY <1>5 DEF StartApply, files, log
  <2>2. Forward /\ fs = Stage(cur - 1) /\ Described
    BY <2>1 DEF Forward, Applying, StageInv, PositionInv
  <2>3. /\ TidyInv' /\ Stage(cur - 1)' = Stage(cur - 1) /\ Op' = Op /\ D' = D
    BY <1>0, <2>1, <2>2, Marches DEF Stage, Op, D
  <2>4. cur \in 1..Len(prep) /\ D \in Descriptors
    <3>1. cur > 0 /\ pc \in Applying \cup Backward
      BY <2>1 DEF Inv, CtlInv, ForwardInv, Applying
    <3> QED BY <3>1, Current DEF Inv
  <2>5. /\ D.kind = "move" => todo' # <<>>
        /\ D.kind = "mkdir" => /\ Len(todo') = Len(D.created)
                               /\ \A k \in 1..Len(D.created) : todo'[k].path = D.created[k]
        /\ D.kind # "mkdir" => D.created = <<>>
    BY <2>1, <2>4, ApplyEnds DEF FilesInv, DiskInv, DescriptorInv, D
  <2>6. \A k \in 1..Len(D.created) : \E m \in 1..Len(todo') : todo'[m].path = D.created[k]
    <3>1. CASE D.kind = "mkdir"
      BY <2>5, <3>1
    <3>2. CASE D.kind # "mkdir"
      <4>1. Len(D.created) = 0
        BY <2>5, <3>2
      <4> QED BY <4>1
    <3> QED BY <3>1, <3>2
  <2>7. Described' /\ Underway'
    BY <2>1, <2>2, <2>3, <2>5, <2>6 DEF Described, Underway
  <2>8. ~Starting' /\ ~Finishing'
    BY <2>1 DEF Starting, Finishing
  <2> QED BY <2>1, <2>3, <2>7, <2>8 DEF PositionInv, Preparing
<1>6. CASE FinishApply
  <2>1. /\ pc = "applying" /\ pc' = "verify" /\ todo = <<>> /\ fs' = fs /\ tmp' = tmp
        /\ cur' = cur /\ prep' = prep
    BY <1>6 DEF FinishApply, Goto, files, log, work
  <2>2. Described /\ Underway /\ Forward
    BY <2>1 DEF StageInv, PositionInv, Forward, Applying
  <2>3. Stage(cur - 1)' = Stage(cur - 1) /\ Op' = Op /\ D' = D
    BY <1>0, <2>1 DEF Stage, Op, D
  <2>4. TidyInv'
    <3>1. Clear(cur)
      BY <2>1 DEF FilesInv, PlaceInv, Installs, Clear
    <3>2. ASSUME NEW s \in Slots, tmp[s] # Absent PROVE FALSE
      <4>1. s[1] = cur
        BY <2>2, <3>2 DEF StageInv, TidyInv
      <4>2. PICK n \in Ops, r \in Roles : s = <<n, r>>
        BY SlotParts
      <4> QED BY <3>1, <3>2, <4>1, <4>2 DEF Clear
    <3> QED BY <2>1, <3>2 DEF TidyInv
  <2>5. Described' /\ Underway'
    <3>1. todo = <<>> => ~\E m \in 1..Len(todo) : TRUE
      OBVIOUS
    <3> QED BY <2>1, <2>2, <2>3, <3>1 DEF Described, Underway
  <2>6. ~Starting' /\ ~Finishing'
    BY <2>1 DEF Starting, Finishing
  <2> QED BY <2>1, <2>4, <2>5, <2>6 DEF PositionInv, Preparing
<1>7. CASE VerifyOperation
  <2>1. /\ pc = "verify" /\ pc' = "log applied" /\ fs' = fs /\ tmp' = tmp /\ cur' = cur
        /\ Verified(fs, D)
    BY <1>7 DEF VerifyOperation, Goto, files, work
  <2>2. Described /\ Underway /\ Forward
    BY <2>1 DEF StageInv, PositionInv, Forward, Applying
  <2>3. fs = Effect(Stage(cur - 1), Op)
    <3>1. /\ Stage(cur - 1) \in [Paths -> Entries] /\ Op \in Operations
          /\ fs \in [Paths -> Entries]
      BY <2>1, AtOperation DEF Applying
    <3>2. /\ \A p \in Paths : ~Reaches(D, p) => fs[p] = Stage(cur - 1)[p]
          /\ D.kind = "move" => fs[D.source] = Absent
          /\ \A k \in 1..Len(D.created) : fs[D.created[k]] = Dir
      BY <2>1, <2>2 DEF Underway
    <3>3. D = Prepare(Stage(cur - 1), Op) /\ CanPrepare(Stage(cur - 1), Op) /\ Verified(fs, D)
      BY <2>1, <2>2 DEF Described
    <3> QED BY <3>1, <3>2, <3>3, EffectMade
  <2>4. fs = Stage(cur)
    BY <2>1, <2>3, AtOperation DEF Applying
  <2>5. TidyInv' /\ Stage(cur)' = Stage(cur)
    BY <1>0, <2>1, <2>2, Marches DEF Stage
  <2>6. ~Starting' /\ ~Finishing'
    BY <2>1 DEF Starting, Finishing
  <2> QED BY <2>1, <2>4, <2>5, <2>6 DEF PositionInv, Preparing
<1>8. CASE LogApplied
  <2>1. pc = "log applied" /\ fs' = fs /\ tmp' = tmp /\ NextOperation(cur + 1)
    BY <1>8 DEF LogApplied, files
  <2>2. Forward /\ fs = Stage(cur)
    BY <2>1 DEF Forward, Applying, StageInv, PositionInv
  <2>3. cur \in 1..Len(script) /\ Len(script) \in Nat
    BY <2>1, AtOperation DEF Applying
  <2>4. cur + 1 \in Nat /\ cur + 1 > 0 /\ cur + 1 <= Len(script) + 1 /\ (cur + 1) - 1 = cur
    BY <2>3
  <2>5. \A s \in Slots : tmp[s] = Absent
    BY <1>0, <2>1, <2>2, Marches
  <2> QED BY <1>0, <2>1, <2>2, <2>4, <2>5, NextStage DEF Inv
<1>9. CASE Assert
  <2>1. /\ pc = "assert" /\ fs' = fs /\ tmp' = tmp
        /\ \/ pc' = "assert"
           \/ pc' = "transition" /\ to' = "COMMITTING"
           \/ pc' = "recover"
    BY <1>9 DEF Assert, NextAssertion, GotoOp, Transition, RollbackFailure, files
  <2>2. Forward /\ fs = Outcome
    BY <2>1 DEF Forward, Finishing, StageInv, PositionInv
  <2>3. TidyInv' /\ Outcome' = Outcome
    BY <1>0, <2>1, <2>2, Marches
  <2>4. ~Starting' /\ pc' \notin Preparing \cup Applying
    BY <2>1 DEF Starting, Preparing, Applying
  <2> QED BY <2>1, <2>2, <2>3, <2>4 DEF PositionInv, Preparing, Applying
<1>10. CASE LogCommit
  <2>1. pc' = "transition" /\ to' = "COMMITTED"
    BY <1>10 DEF LogCommit, Transition
  <2>2. ~Forward'
    BY <2>1 DEF Forward, Starting, Finishing, Preparing, Applying
  <2> QED BY <2>2, Astray
<1> QED BY <1>1, <1>2, <1>3, <1>4, <1>5, <1>6, <1>7, <1>8, <1>9, <1>10 DEF Execute


\* A call of Apply stays within the operation in hand.
LEMMA Progress ==
  ASSUME Inv, StageInv, pc = "applying", pc' = pc, cur' = cur,
         UNCHANGED <<prep, script, origin>>,
         \A p \in Paths : fs'[p] # fs[p] => Reaches(D, p),
         \A s \in Slots : tmp'[s] # Absent => tmp[s] # Absent \/ s[1] = cur,
         D.kind = "move" /\ todo' = <<>> => fs'[D.source] = Absent,
         \A k \in 1..Len(D.created) :
           \/ fs'[D.created[k]] = Dir
           \/ \E m \in 1..Len(todo') : todo'[m].path = D.created[k]
  PROVE  PositionInv' /\ TidyInv'
<1>1. Described /\ Underway /\ Forward
  BY DEF StageInv, PositionInv, Forward, Applying
<1>2. D' = D /\ Op' = Op /\ Stage(cur - 1)' = Stage(cur - 1)
  BY DEF D, Op, Stage
<1>3. Described' /\ Underway'
  BY <1>1, <1>2 DEF Described, Underway
<1>4. TidyInv'
  BY <1>1 DEF StageInv, TidyInv
<1>5. ~Starting' /\ ~Finishing'
  BY DEF Starting, Finishing
<1> QED BY <1>3, <1>4, <1>5 DEF PositionInv, Preparing

\* A file system call, made or failed, of applying or of undoing (engine.go).
LEMMA StageCall == Inv /\ FilesInv /\ StageInv /\ FileCall => PositionInv' /\ TidyInv'
<1> SUFFICES ASSUME Inv, FilesInv, StageInv, FileCall PROVE PositionInv' /\ TidyInv'
  OBVIOUS
<1>0. UNCHANGED <<script, origin>>
  BY GivenStays DEF Next, Run
<1>1. pc \in {"applying", "undoing"} /\ todo # <<>>
  BY DEF FileCall, DoCreate, DoFill, DoRemove, DoRemoveSome, DoInstall, DoRename,
     DoFailedRename, DoMkdir, DoRmdir, DoCheckAbsent, CallFails, Calling
<1>2. CASE CallFails
  BY <1>2, StraySteps, Astray DEF CallFails
<1>3. CASE pc = "undoing" /\ ~CallFails
  <2>1. pc' = "undoing"
    BY <1>3 DEF FileCall, DoCreate, DoFill, DoRemove, DoRemoveSome, DoInstall, DoRename,
       DoFailedRename, DoMkdir, DoRmdir, DoCheckAbsent, CallFrame, ctl
  <2>2. ~Forward'
    BY <2>1 DEF Forward, Starting, Finishing, Preparing, Applying
  <2> QED BY <2>2, Astray
<1>4. CASE pc = "applying" /\ ~CallFails
  <2>1. /\ TheCall \in Calls /\ Slot \in Slots /\ Within(D, TheCall)
        /\ cur \in 1..Len(prep) /\ cur \in Ops /\ D \in Descriptors
        /\ D.kind # "mkdir" => D.created = <<>>
        /\ todo \in Seq(Calls) /\ fs \in [Paths -> Entries] /\ tmp \in [Slots -> Entries]
    BY <1>1, AtCall
  <2>2. /\ pc' = pc /\ cur' = cur /\ prep' = prep
    BY <1>4 DEF FileCall, DoCreate, DoFill, DoRemove, DoRemoveSome, DoInstall, DoRename,
       DoFailedRename, DoMkdir, DoRmdir, DoCheckAbsent, CallFrame, log, ctl
  <2>3. /\ Applies(D, todo) /\ Underway
    BY <1>4 DEF FilesInv, PlaceInv, StageInv, PositionInv
  <2>4. /\ D.kind = "move" /\ Tail(todo) = <<>> => Takes(D, TheCall)
        /\ D.kind = "mkdir" => TheCall.do = "mkdir"
    BY <1>1, <2>1, <2>3, AppliesOn DEF TheCall
  <2>5. D.kind # "mkdir" => \A k \in 1..Len(D.created) : FALSE
    <3>1. D.kind # "mkdir" => Len(D.created) = 0
      BY <2>1
    <3> QED BY <3>1
  <2>6. ASSUME tmp' = tmp \/ \E v : tmp' = [tmp EXCEPT ![Slot] = v]
        PROVE  \A s \in Slots : tmp'[s] # Absent => tmp[s] # Absent \/ s[1] = cur
    <3>1. ASSUME NEW v, tmp' = [tmp EXCEPT ![Slot] = v]
          PROVE  \A s \in Slots : s[1] # cur => tmp'[s] = tmp[s]
      BY <2>1, <3>1, OwnTemporary
    <3> QED BY <2>6, <3>1
  <2>7. CASE DoCreate \/ DoFill \/ DoInstall
    <3>1. /\ TheCall.do \in {"create", "fill", "install"} /\ todo' = Tail(todo)
          /\ \E v : tmp' = [tmp EXCEPT ![Slot] = v]
          /\ fs' = fs \/ (TheCall.do = "install" /\ fs' = [fs EXCEPT ![TheCall.path] = tmp[Slot]])
      BY <2>7 DEF DoCreate, DoFill, DoInstall, Calling, Returned
    <3>2. \A p \in Paths : fs'[p] # fs[p] => Reaches(D, p)
      BY <2>1, <3>1 DEF Within
    <3>3. D.kind # "mkdir" /\ ~(D.kind = "move" /\ todo' = <<>>)
      BY <2>4, <3>1 DEF Takes
    <3> QED BY <1>0, <1>4, <2>2, <2>5, <2>6, <3>1, <3>2, <3>3, Progress
  <2>8. CASE DoRemove
    <3>1. /\ TheCall.do = "remove" /\ todo' = Tail(todo) /\ tmp' = tmp
          /\ fs' = [fs EXCEPT ![TheCall.path] = Absent]
      BY <2>8 DEF DoRemove, Calling, Returned
    <3>2. \A p \in Paths : fs'[p] # fs[p] => Reaches(D, p)
      BY <2>1, <3>1 DEF Within
    <3>3. D.kind # "mkdir" /\ (D.kind = "move" /\ todo' = <<>> => TheCall.path = D.source)
      BY <2>4, <3>1 DEF Takes
    <3>4. TheCall.path \in Paths
      BY <2>1 DEF Calls
    <3>5. D.kind = "move" /\ todo' = <<>> => fs'[D.source] = Absent
      BY <2>1, <3>1, <3>3, <3>4
    <3> QED BY <1>0, <1>4, <2>2, <2>5, <2>6, <3>1, <3>2, <3>3, <3>5, Progress
  <2>9. CASE DoRemoveSome
    <3>1. /\ TheCall.do = "remove" /\ todo' = todo /\ tmp' = tmp
          /\ fs' = [fs EXCEPT ![TheCall.path] = Torn]
      BY <2>9 DEF DoRemoveSome, Calling
    <3>2. \A p \in Paths : fs'[p] # fs[p] => Reaches(D, p)
      BY <2>1, <3>1 DEF Within
    <3>3. D.kind # "mkdir" /\ todo' # <<>>
      BY <1>1, <2>4, <3>1
    <3> QED BY <1>0, <1>4, <2>2, <2>5, <2>6, <3>1, <3>2, <3>3, Progress
  <2>10. CASE DoRename
    <3>1. /\ TheCall.do = "rename" /\ todo' = Tail(todo) /\ tmp' = tmp
          /\ fs' = [fs EXCEPT ![TheCall.path] = fs[TheCall.from], ![TheCall.from] = Absent]
      BY <2>10 DEF DoRename, Calling, Returned
    <3>2. \A p \in Paths : fs'[p] # fs[p] => Reaches(D, p)
      BY <2>1, <3>1 DEF Within
    <3>3. D.kind # "mkdir" /\ (D.kind = "move" /\ todo' = <<>> => TheCall.from = D.source)
      BY <2>4, <3>1 DEF Takes
    <3>4. TheCall.from \in Paths
      BY <2>1 DEF Calls
    <3>5. D.kind = "move" /\ todo' = <<>> => fs'[D.source] = Absent
      BY <2>1, <3>1, <3>3, <3>4
    <3> QED BY <1>0, <1>4, <2>2, <2>5, <2>6, <3>1, <3>2, <3>3, <3>5, Progress
  <2>11. CASE DoFailedRename
    <3>1. /\ TheCall.do = "rename" /\ todo' = AfterFailedRename(D, ~SameDevice)
          /\ tmp' = tmp /\ fs' = fs
      BY <2>11 DEF DoFailedRename, Calling, files
    <3>2. D.kind = "move"
      BY <2>1, <3>1 DEF Within
    <3>3. todo' # <<>>
      BY <2>1, <3>1, <3>2, ApplyEnds
    <3> QED BY <1>0, <1>4, <2>2, <2>5, <2>6, <3>1, <3>2, <3>3, Progress
  <2>12. CASE DoMkdir
    <3>1. /\ TheCall.do = "mkdir" /\ todo' = Tail(todo) /\ tmp' = tmp
          /\ fs' = [fs EXCEPT ![TheCall.path] = Dir]
      BY <2>12 DEF DoMkdir, Calling, Returned
    <3>2. \A p \in Paths : fs'[p] # fs[p] => Reaches(D, p)
      BY <2>1, <3>1 DEF Within
    <3>3. ~(D.kind = "move" /\ todo' = <<>>)
      BY <2>4, <3>1 DEF Takes
    <3>4. TheCall.path \in Paths
      BY <2>1 DEF Calls
    <3>5. ASSUME NEW k \in 1..Len(D.created)
          PROVE  \/ fs'[D.created[k]] = Dir
                 \/ \E m \in 1..Len(todo') : todo'[m].path = D.created[k]
      <4>1. D.created[k] \in Paths
        BY <2>1 DEF Descriptors
      <4>2. CASE fs[D.created[k]] = Dir \/ D.created[k] = TheCall.path
        BY <2>1, <3>1, <3>4, <4>1, <4>2
      <4>3. CASE ~(fs[D.created[k]] = Dir \/ D.created[k] = TheCall.path)
        <5>1. PICK m \in 1..Len(todo) : todo[m].path = D.created[k]
          BY <2>3, <4>3 DEF Underway
        <5>2. m # 1
          BY <1>1, <2>1, <4>3, <5>1, HeadTailProperties DEF TheCall
        <5>3. PICK i \in 1..Len(Tail(todo)) : Tail(todo)[i] = todo[m]
          BY <1>1, <2>1, <5>2, Continued
        <5> QED BY <3>1, <5>1, <5>3
      <4> QED BY <4>2, <4>3
    <3> QED BY <1>0, <1>4, <2>2, <2>6, <3>1, <3>2, <3>3, <3>5, Progress
  <2>13. CASE DoRmdir
    <3>1. /\ TheCall.do = "rmdir" /\ todo' = Tail(todo) /\ tmp' = tmp
          /\ fs' = [fs EXCEPT ![TheCall.path] = Absent]
      BY <2>13 DEF DoRmdir, Calling, Returned
    <3>2. \A p \in Paths : fs'[p] # fs[p] => Reaches(D, p)
      BY <2>1, <3>1 DEF Within
    <3>3. D.kind # "mkdir" /\ ~(D.kind = "move" /\ todo' = <<>>)
      BY <2>4, <3>1 DEF Takes
    <3> QED BY <1>0, <1>4, <2>2, <2>5, <2>6, <3>1, <3>2, <3>3, Progress
  <2>14. CASE DoCheckAbsent
    <3>1. TheCall.do = "absent" /\ todo' = Tail(todo) /\ tmp' = tmp /\ fs' = fs
      BY <2>14 DEF DoCheckAbsent, Calling, Returned, files
    <3>3. D.kind # "mkdir" /\ ~(D.kind = "move" /\ todo' = <<>>)
      BY <2>4, <3>1 DEF Takes
    <3> QED BY <1>0, <1>4, <2>2, <2>5, <2>6, <3>1, <3>3, Progress
  <2> QED BY <1>4, <2>7, <2>8, <2>9, <2>10, <2>11, <2>12, <2>13, <2>14 DEF FileCall
<1> QED BY <1>1, <1>2, <1>3, <1>4

\* A rollback does not go forward again.
LEMMA StageRecover == Recover => PositionInv' /\ TidyInv'
<1> SUFFICES ASSUME Recover PROVE ~Forward'
  BY Astray
<1> USE DEF Goto, GotoOp, Transition, Forward, Starting, Finishing, Preparing, Applying
<1>1. CASE Reconcile
  BY <1>1, ReconcileCases
<1>2. CASE \/ OpenJournalFails \/ ReconcileFails \/ InspectRefused \/ InspectFails
           \/ UndoRefused \/ RecheckFails \/ GiveUp \/ GiveUpFails
  BY <1>2, StraySteps DEF OpenJournalFails, ReconcileFails, InspectRefused, InspectFails,
     UndoRefused, RecheckFails, GiveUp, GiveUpFails
<1>3. CASE \/ OpenJournal \/ InspectDone \/ Inspect \/ LogUndo \/ StartUndo \/ NothingToUndo
           \/ FinishUndo \/ Recheck \/ LogUndone \/ AllUndone \/ LogComplete
  BY <1>3 DEF OpenJournal, InspectDone, Inspect, LogUndo, StartUndo, NothingToUndo,
     FinishUndo, Recheck, LogUndone, AllUndone, LogComplete
<1> QED BY <1>1, <1>2, <1>3 DEF Recover


\* The frames and the metadata that either kind of run makes durable (state.go).
LEMMA StageDurable == Inv /\ StageInv /\ Durable => PositionInv' /\ TidyInv'
<1> SUFFICES ASSUME Inv, StageInv, Durable PROVE PositionInv' /\ TidyInv'
  OBVIOUS
<1>0. UNCHANGED <<script, origin>>
  BY GivenStays DEF Next, Run
<1>1. CASE AppendState
  <2>1. pc = "transition" /\ pc' = "persist" /\ to' = to /\ fs' = fs /\ tmp' = tmp
    BY <1>1 DEF AppendState, files
  <2>2. /\ Forward' = Forward /\ Starting' = Starting /\ Finishing' = Finishing
        /\ pc' \notin Preparing \cup Applying
    BY <2>1 DEF Forward, Starting, Finishing, Preparing, Applying
  <2>3. CASE Forward
    <3>1. TidyInv' /\ Outcome' = Outcome /\ Stage(0)' = Stage(0)
      BY <1>0, <2>1, <2>3, Marches DEF Stage
    <3> QED BY <2>1, <2>2, <3>1 DEF StageInv, PositionInv, Preparing, Applying
  <2> QED BY <2>2, <2>3, Astray
<1>2. CASE PersistState
  <2>1. pc = "persist" /\ fs' = fs /\ tmp' = tmp /\ AfterState
    BY <1>2 DEF PersistState, files
  <2>2. CASE to = "PREPARED" /\ Transition("RUNNING")
    <3>1. pc' = "transition" /\ to' = "RUNNING" /\ Forward /\ fs = Stage(0)
      BY <2>1, <2>2 DEF Transition, Forward, Starting, StageInv, PositionInv
    <3>2. TidyInv' /\ Stage(0)' = Stage(0)
      BY <1>0, <2>1, <3>1, Marches DEF Stage
    <3>3. ~Finishing' /\ pc' \notin Preparing \cup Applying
      BY <3>1 DEF Finishing, Preparing, Applying
    <3> QED BY <2>1, <3>1, <3>2, <3>3 DEF PositionInv, Preparing, Applying
  <2>3. CASE to = "RUNNING" /\ NextOperation(1)
    <3>1. Forward /\ fs = Stage(0)
      BY <2>1, <2>3 DEF Forward, Starting, StageInv, PositionInv
    <3>2. \A s \in Slots : tmp[s] = Absent
      BY <1>0, <2>1, <3>1, Marches
    <3>3. Len(script) \in Nat
      BY DEF Inv, TypeOK
    <3>4. 1 \in Nat /\ 1 > 0 /\ 1 <= Len(script) + 1 /\ 1 - 1 = 0
      BY <3>3
    <3> QED BY <1>0, <2>1, <2>3, <3>1, <3>2, <3>4, NextStage DEF Inv
  <2>4. CASE \/ to = "VERIFYING" /\ NextAssertion(1)
             \/ to = "COMMITTING" /\ Goto("log commit")
    <3>1. /\ Forward /\ fs = Outcome
          /\ \/ pc' \in {"assert", "log commit"}
             \/ pc' = "transition" /\ to' = "COMMITTING"
      BY <2>1, <2>4 DEF NextAssertion, GotoOp, Transition, Goto, Forward, Finishing,
         StageInv, PositionInv
    <3>2. TidyInv' /\ Outcome' = Outcome
      BY <1>0, <2>1, <3>1, Marches
    <3>3. ~Starting' /\ pc' \notin Preparing \cup Applying
      BY <3>1 DEF Starting, Preparing, Applying
    <3> QED BY <2>1, <3>1, <3>2, <3>3 DEF PositionInv, Preparing, Applying
  <2>5. CASE \/ GotoOp("inspect", Len(prep)) \/ Goto("cleanup") \/ Stop("RECOVERY_FAILED")
    <3>1. ~Forward'
      BY <2>5 DEF GotoOp, Goto, Stop, Forward, Starting, Finishing, Preparing, Applying
    <3> QED BY <3>1, Astray
  <2> QED BY <2>1, <2>2, <2>3, <2>4, <2>5, AfterStateCases
<1>3. CASE PersistStateFails \/ AppendFails
  BY <1>3, StateErrorCases, AppendErrorCases, StraySteps, Astray DEF PersistStateFails, AppendFails
<1>4. CASE EndFails
  BY <1>4, EndFailsCases, StraySteps, Astray
<1>5. CASE RemoveBackups \/ RecordCleanup \/ Release
  <2>1. ~Forward'
    BY <1>5 DEF RemoveBackups, RecordCleanup, Release, Goto, Stop, Forward, Starting, Finishing,
       Preparing, Applying
  <2> QED BY <2>1, Astray
<1> QED BY <1>1, <1>2, <1>3, <1>4, <1>5 DEF Durable

\* A new process, a crash and the end of everything leave the files alone.
LEMMA StageOther ==
  StageInv /\ (RecoverCommand \/ Crash \/ Done \/ UNCHANGED vars) => PositionInv' /\ TidyInv'
<1> SUFFICES ASSUME StageInv, RecoverCommand \/ Crash \/ Done \/ UNCHANGED vars
             PROVE  PositionInv' /\ TidyInv'
  OBVIOUS
<1>1. CASE RecoverCommand
  <2>1. pc' = "recover"
    BY <1>1 DEF RecoverCommand
  <2>2. ~Forward'
    BY <2>1 DEF Forward, Starting, Finishing, Preparing, Applying
  <2> QED BY <2>2, Astray
<1>2. CASE Crash
  BY <1>2, StraySteps, Astray DEF Crash
<1>3. CASE Done \/ UNCHANGED vars
  <2>1. UNCHANGED <<fs, tmp, prep, script, origin, pc, to, cur, todo>>
    BY <1>3 DEF Done, vars, files, log, given, ctl, work
  <2>2. /\ D' = D /\ Op' = Op /\ Outcome' = Outcome /\ \A n : Stages(origin', script')[n] = Stage(n)
        /\ Starting' = Starting /\ Finishing' = Finishing /\ Forward' = Forward
    BY <2>1 DEF D, Op, Outcome, Stage, Starting, Finishing, Forward
  <2>3. Described' = Described /\ Underway' = Underway /\ CanPrepare(fs, Op)' = CanPrepare(fs, Op)
    BY <2>1, <2>2 DEF Described, Underway, Stage
  <2>4. TidyInv'
    BY <2>1, <2>2 DEF StageInv, TidyInv
  <2>5. PositionInv'
    BY <2>1, <2>2, <2>3 DEF StageInv, PositionInv, Stage
  <2> QED BY <2>4, <2>5
<1> QED BY <1>1, <1>2, <1>3

\* A new transaction stands at the first stage of its script.
LEMMA StageInit == Init => StageInv
<1> SUFFICES ASSUME Init PROVE StageInv
  OBVIOUS
<1>1. /\ pc = "idle" /\ fs = origin /\ tmp = [s \in Slots |-> Absent] /\ jrn = BegunJournal
      /\ script \in Seq(Operations)
  BY BoundsAssumption DEF Init
<1>2. fs = Stage(0)
  BY <1>1, StagesEquation DEF Stage
<1>3. PositionInv /\ TidyInv
  BY <1>1, <1>2 DEF PositionInv, TidyInv, Finishing, Preparing
<1>4. CommitInv
  BY <1>1 DEF CommitInv, Committed, BegunJournal
<1> QED BY <1>3, <1>4 DEF StageInv

--------------------------------------------------------------------------------
(* What follows for every execution.                                        *)

\* On the way forward the files are at a stage of the script, or in one operation between
\* two stages, and behind the commit marker they are at the last one (txn.go, Execute).
THEOREM StageInvariance == Spec => []StageInv
<1>1. Inv /\ FilesInv /\ StageInv /\ [Next]_vars => StageInv'
  <2>1. Inv /\ FilesInv /\ StageInv /\ [Next]_vars => PositionInv' /\ TidyInv'
    BY StageExecute, StageCall, StageRecover, StageDurable, StageOther DEF Next, Run
  <2> QED BY <2>1, CommitStep DEF StageInv
<1> QED BY <1>1, StageInit, Invariance, FilesInvariance, PTL DEF Spec

\* Once the journal says TX_COMMIT, the files are what the whole script makes of the
\* initial ones, and no temporary is left (txn.go, Execute).
THEOREM CommitCorrect == Spec => []CommitIsWhole
<1>1. StageInv => CommitIsWhole
  BY DEF StageInv, CommitInv, CommitIsWhole, Committed
<1> QED BY <1>1, StageInvariance, PTL


\* The decision as the journal shows it.
LEMMA DecisionCases ==
  /\ Committed => Decision = "committed"
  /\ ~Committed /\ RolledBack => Decision = "rolled back"
  /\ ~Committed /\ ~RolledBack => Decision = "open"
  /\ Decided <=> Committed \/ RolledBack
BY Zenon DEF Decision, Committed, RolledBack, Decided

\* The same of the decision after a step.
LEMMA NextDecisionCases ==
  /\ Committed' => Decision' = "committed"
  /\ ~Committed' /\ RolledBack' => Decision' = "rolled back"
  /\ ~Committed' /\ ~RolledBack' => Decision' = "open"
BY Zenon DEF Decision, Committed, RolledBack

\* Every step of the transaction is a step of the atomic update, or none.
LEMMA AtomicStep ==
  Inv /\ FilesInv /\ StageInv /\ [Next]_vars /\ TypeOK' => [Atomic!Next]_(Atomic!vars)
<1> SUFFICES ASSUME Inv, FilesInv, StageInv, [Next]_vars, TypeOK'
             PROVE  [Atomic!Next]_(Atomic!vars)
  OBVIOUS
<1>1. /\ origin' = origin /\ Outcome' = Outcome /\ fs' \in [Paths -> Entries]
  BY GivenStays DEF Outcome, TypeOK
<1>2. fs' # fs => ~Decided /\ pc \in {"applying", "undoing"}
  <2>1. fs' # fs => pc \in {"applying", "undoing"} /\ pc \in Working
    BY OnlyCalls DEF Working, Applying, Backward, Undoing
  <2> QED BY <2>1 DEF Inv, CtlInv, StatusInv
<1>3. CASE (Committed' <=> Committed) /\ (RolledBack' <=> RolledBack)
  <2>1. Decision' = Decision
    <3>1. CASE Committed
      BY <1>3, <3>1, DecisionCases, NextDecisionCases
    <3>2. CASE ~Committed /\ RolledBack
      BY <1>3, <3>2, DecisionCases, NextDecisionCases
    <3>3. CASE ~Committed /\ ~RolledBack
      BY <1>3, <3>3, DecisionCases, NextDecisionCases
    <3> QED BY <3>1, <3>2, <3>3
  <2>2. CASE fs' = fs
    BY <1>1, <2>1, <2>2 DEF Atomic!vars
  <2>3. CASE fs' # fs
    <3>1. Decision = "open"
      BY <1>2, <2>3, DecisionCases
    <3>2. Atomic!Work
      BY <1>1, <2>1, <3>1 DEF Atomic!Work
    <3> QED BY <3>2 DEF Atomic!Next
  <2> QED BY <2>2, <2>3
<1>4. CASE pc = "log commit" /\ ~Decided /\ Committed' /\ ~RolledBack'
  <2>1. Decision = "open" /\ Decision' = "committed" /\ fs' = fs
    BY <1>2, <1>4, DecisionCases, NextDecisionCases
  <2>2. fs = Outcome
    BY <1>4 DEF StageInv, PositionInv, Finishing
  <2>3. Atomic!Commit
    BY <1>1, <2>1, <2>2 DEF Atomic!Commit
  <2> QED BY <2>3 DEF Atomic!Next
<1>5. CASE pc = "log complete" /\ ~Decided /\ ~Committed' /\ RolledBack'
  <2>1. Decision = "open" /\ Decision' = "rolled back" /\ fs' = fs
    BY <1>2, <1>5, DecisionCases, NextDecisionCases
  <2>2. fs = origin
    <3>1. jrn.prepared = jrn.rollbackApplied /\ jrn.prepared = 1..Len(prep)
      BY <1>5 DEF Inv, CtlInv, BackwardInv, LogInv
    <3>2. \A p \in Paths : fs[p] = origin[p]
      BY <3>1 DEF FilesInv, DiskInv, ChangeInv, Rolled
    <3>3. fs \in [Paths -> Entries] /\ origin \in [Paths -> Entries]
      BY DEF Inv, TypeOK
    <3> QED BY <3>2, <3>3
  <2>3. Atomic!RollBack
    BY <1>1, <2>1, <2>2 DEF Atomic!RollBack
  <2> QED BY <2>3 DEF Atomic!Next
<1> QED BY <1>3, <1>4, <1>5, DecidingSteps

\* The initial states are initial states of the atomic update.
LEMMA AtomicInit == Init => Atomic!Init
<1> SUFFICES ASSUME Init PROVE Atomic!Init
  OBVIOUS
<1>1. /\ TypeOK /\ fs = origin /\ jrn = BegunJournal
  BY InitInv DEF Init, Inv
<1>2. ~Committed /\ ~RolledBack
  BY <1>1 DEF Committed, RolledBack, BegunJournal
<1>3. Decision = "open"
  BY <1>2, DecisionCases
<1>4. fs \in [Paths -> Entries] /\ Outcome \in [Paths -> Entries]
  <2>1. /\ origin \in [Paths -> Entries] /\ script \in Seq(Operations) /\ Len(script) \in 0..Len(script)
    BY <1>1 DEF TypeOK
  <2> QED BY <1>1, <2>1, StagesType DEF Outcome
<1> QED BY <1>1, <1>3, <1>4 DEF Atomic!Init

\* The transaction implements the atomic update for every script, whatever crashes and
\* whatever fails: the durable marker decides between the initial files and those of the
\* whole script, and nothing is touched after it (txn.go, Execute; recovery.go, Recover).
THEOREM AtomicCorrect == Spec => AllOrNothing
<1>1. Inv /\ FilesInv /\ StageInv /\ [Next]_vars => [Atomic!Next]_(Atomic!vars)
  BY AtomicStep, TypeStep
<1> QED
  BY <1>1, AtomicInit, Invariance, FilesInvariance, StageInvariance, PTL
     DEF Spec, AllOrNothing, Atomic!Spec

================================================================================
