------------------------------ MODULE UndoLemmas -------------------------------
(***************************************************************************)
(* What one more frame does to what the reader makes of the journal, and   *)
(* what the calls of an operation do to the files: lemmas about the        *)
(* operators of UndoJournal and UndoEngine, free of any state.             *)
(***************************************************************************)
EXTENDS UndoJournal, UndoEngine, SequenceTheorems, TLAPS

\* The frames the program writes are frames (journal.go, Payload).
LEMMA FrameTypes ==
  /\ \A s \in States : StateRecord(s) \in Records
  /\ \A t \in RecordTypes, o \in Nat : OpRecord(t, o) \in Records
  /\ \A t \in RecordTypes : Marker(t) \in Records
<1>1. \A s \in States : StateRecord(s) \in Records
  BY DEF StateRecord, Records, RecordTypes
<1>2. "PLANNED" \in States
  BY DEF States
<1>3. \A t \in RecordTypes, o \in Nat : OpRecord(t, o) \in Records
  BY <1>2 DEF OpRecord, Records
<1>4. \A t \in RecordTypes : Marker(t) \in Records
  BY <1>2 DEF Marker, Records
<1> QED BY <1>1, <1>3, <1>4

\* Decode always answers a summary, of a readable file or not.
LEMMA ExtendType ==
  ASSUME NEW j \in Journals, NEW r \in Records
  PROVE  Extend(j, r) \in Journals /\ Corrupted(j) \in Journals
<1>1. Corrupted(j) \in Journals
  BY DEF Corrupted, Journals
<1>2. Accumulate(j, r) \in Journals
  BY DEF Accumulate, Records, Journals
<1> QED BY <1>1, <1>2 DEF Extend

\* A frame that breaks the reader's rules costs the file and nothing else of what was
\* read from it (journal.go, Decode).
LEMMA CorruptedFields ==
  ASSUME NEW j \in Journals
  PROVE  /\ ~Corrupted(j).ok
         /\ Corrupted(j).state = j.state
         /\ Corrupted(j).prepared = j.prepared
         /\ Corrupted(j).applied = j.applied
         /\ Corrupted(j).rollbackPrepared = j.rollbackPrepared
         /\ Corrupted(j).rollbackApplied = j.rollbackApplied
         /\ Corrupted(j).committed = j.committed
         /\ Corrupted(j).rolledBack = j.rolledBack
BY DEF Corrupted, Journals

\* A frame that keeps the reader's rules adds what it names and nothing else.
LEMMA AcceptedOp ==
  ASSUME NEW j \in Journals, NEW o \in Nat,
         NEW t \in {"OP_PREPARED", "OP_APPLIED", "ROLLBACK_PREPARED", "ROLLBACK_APPLIED"},
         j.ok, ReferenceOK(j, OpRecord(t, o)), SemanticsOK(j, OpRecord(t, o))
  PROVE  LET e == Extend(j, OpRecord(t, o))
         IN  /\ e.ok /\ e.state = j.state
             /\ e.prepared = j.prepared \cup (IF t = "OP_PREPARED" THEN {o} ELSE {})
             /\ e.applied = j.applied \cup (IF t = "OP_APPLIED" THEN {o} ELSE {})
             /\ e.rollbackPrepared
                  = j.rollbackPrepared \cup (IF t = "ROLLBACK_PREPARED" THEN {o} ELSE {})
             /\ e.rollbackApplied
                  = j.rollbackApplied \cup (IF t = "ROLLBACK_APPLIED" THEN {o} ELSE {})
             /\ e.committed = j.committed /\ e.rolledBack = j.rolledBack
<1>1. Extend(j, OpRecord(t, o)) = Accumulate(j, OpRecord(t, o))
  BY DEF Extend
<1> DEFINE e == Accumulate(j, OpRecord(t, o))
<1>2. e.committed = j.committed /\ e.rolledBack = j.rolledBack
  BY DEF Accumulate, OpRecord, Journals
<1>3. /\ e.ok /\ e.state = j.state
      /\ e.prepared = j.prepared \cup (IF t = "OP_PREPARED" THEN {o} ELSE {})
      /\ e.applied = j.applied \cup (IF t = "OP_APPLIED" THEN {o} ELSE {})
      /\ e.rollbackPrepared
           = j.rollbackPrepared \cup (IF t = "ROLLBACK_PREPARED" THEN {o} ELSE {})
      /\ e.rollbackApplied
           = j.rollbackApplied \cup (IF t = "ROLLBACK_APPLIED" THEN {o} ELSE {})
  BY DEF Accumulate, OpRecord, Journals
<1> HIDE DEF e
<1>4. Extend(j, OpRecord(t, o)) = e
  BY <1>1 DEF e
<1> QED BY <1>2, <1>3, <1>4

\* An accepted TX_STATE frame changes the state and nothing else of the summary.
LEMMA AcceptedState ==
  ASSUME NEW j \in Journals, NEW s \in States,
         j.ok, ReferenceOK(j, StateRecord(s)), SemanticsOK(j, StateRecord(s))
  PROVE  LET e == Extend(j, StateRecord(s))
         IN  /\ e.ok /\ e.state = s
             /\ e.prepared = j.prepared /\ e.applied = j.applied
             /\ e.rollbackPrepared = j.rollbackPrepared
             /\ e.rollbackApplied = j.rollbackApplied
             /\ e.committed = j.committed /\ e.rolledBack = j.rolledBack
<1>1. Extend(j, StateRecord(s)) = Accumulate(j, StateRecord(s))
  BY DEF Extend
<1> QED BY <1>1 DEF Accumulate, StateRecord, Journals

\* An accepted marker or assertion result sets its flag and nothing else.
LEMMA AcceptedMarker ==
  ASSUME NEW j \in Journals,
         NEW t \in {"ASSERT_RESULT", "TX_COMMIT", "TX_ROLLBACK_COMPLETE"},
         j.ok, ReferenceOK(j, Marker(t)), SemanticsOK(j, Marker(t))
  PROVE  LET e == Extend(j, Marker(t))
         IN  /\ e.ok /\ e.state = j.state
             /\ e.prepared = j.prepared /\ e.applied = j.applied
             /\ e.rollbackPrepared = j.rollbackPrepared
             /\ e.rollbackApplied = j.rollbackApplied
             /\ (e.committed <=> j.committed \/ t = "TX_COMMIT")
             /\ (e.rolledBack <=> j.rolledBack \/ t = "TX_ROLLBACK_COMPLETE")
<1>1. Extend(j, Marker(t)) = Accumulate(j, Marker(t))
  BY DEF Extend
<1> QED BY <1>1 DEF Accumulate, Marker, Journals

--------------------------------------------------------------------------------
\* What Prepare records of an operation is a descriptor (engine.go, Prepare).
LEMMA PrepareType ==
  ASSUME NEW f \in [Paths -> Entries], NEW op \in Operations
  PROVE  Prepare(f, op) \in Descriptors
<1>1. op.source \in Paths /\ op.target \in Paths /\ op.kind \in Kinds /\ op.content \in Contents
  BY DEF Operations
<1>2. f[op.source] \in Entries /\ f[op.target] \in Entries /\ Absent \in Entries
  BY <1>1 DEF Entries
<1>3. Expected(f, op) \in Entries
  BY <1>1, <1>2, EntriesAssumption DEF Expected, Entries, IsRegular
<1>4. MissingDirectories(f, op.target) \in Seq(Paths)
  <2> DEFINE missing(q) == IF f[q] = Absent THEN <<q>> ELSE <<>>
             above == IF Parent[op.target] = op.target THEN <<>>
                      ELSE missing(Parent[op.target])
  <2>1. \A q \in Paths : missing(q) \in Seq(Paths)
    OBVIOUS
  <2>2. above \in Seq(Paths)
    BY <1>1, <2>1, PathsAssumption
  <2>3. MissingDirectories(f, op.target) = above \o missing(op.target)
    BY DEF MissingDirectories
  <2> HIDE DEF missing, above
  <2> QED BY <1>1, <2>1, <2>2, <2>3, ConcatProperties
<1> QED BY <1>1, <1>2, <1>3, <1>4 DEF Prepare, Descriptors

\* Every list of calls the engine makes for a descriptor is one (engine.go, Apply and
\* Undo).
LEMMA CallsType ==
  ASSUME NEW d \in Descriptors
  PROVE  /\ ApplyCalls(d) \in Seq(Calls)
         /\ UndoCalls(d) \in Seq(Calls)
         /\ \A crossDevice : AfterFailedRename(d, crossDevice) \in Seq(Calls)
<1>1. /\ d.source \in Paths /\ d.target \in Paths /\ d.prior \in Entries
      /\ d.expected \in Entries /\ d.created \in Seq(Paths)
  BY DEF Descriptors
<1>2. \A p \in Paths, r \in Roles, v \in Entries :
        \A do \in {"create", "fill", "remove", "install", "mkdir", "rmdir", "absent",
                   "give up"} : Call(do, p, r, v) \in Calls
  BY DEF Call, Calls
<1>3. \A p \in Paths, r \in Roles, v \in Entries :
        Install(p, r, v) \in Seq(Calls) /\ Restore(p, r, v) \in Seq(Calls)
  <2> TAKE p \in Paths, r \in Roles, v \in Entries
  <2>1. /\ Call("create", p, r, v) \in Calls /\ Call("fill", p, r, v) \in Calls
        /\ Call("remove", p, r, v) \in Calls /\ Call("install", p, r, v) \in Calls
    BY <1>2
  <2> QED BY <2>1 DEF Install, Restore
<1>4. Absent \in Entries /\ "apply" \in Roles /\ "target" \in Roles /\ "source" \in Roles
  BY DEF Entries, Roles
<1>5. ASSUME NEW c \in Calls PROVE <<c>> \in Seq(Calls)
  OBVIOUS
<1>6. ASSUME NEW p \in Paths
      PROVE  /\ Remove(p) \in Seq(Calls)
             /\ <<Call("absent", p, "apply", Absent)>> \in Seq(Calls)
             /\ <<Call("give up", p, "apply", Absent)>> \in Seq(Calls)
  BY <1>2, <1>4, <1>5 DEF Remove
<1>7. ASSUME NEW p \in Paths, NEW q \in Paths
      PROVE  <<Rename(p, q)>> \in Seq(Calls)
  <2>1. Rename(p, q) \in Calls
    BY <1>4 DEF Rename, Calls
  <2> QED BY <1>5, <2>1
<1>8. CopyCalls(d) \in Seq(Calls)
  <2>1. Install(d.target, "apply", d.expected) \in Seq(Calls)
    <3>1. d.target \in Paths /\ d.expected \in Entries /\ "apply" \in Roles
      BY <1>1, <1>4
    <3> QED BY <1>3, <3>1
  <2>2. (IF d.kind = "move" THEN Remove(d.source) ELSE <<>>) \in Seq(Calls)
    BY <1>1, <1>6, EmptySeq
  <2> QED BY <2>1, <2>2, ConcatProperties DEF CopyCalls
<1>9. Len(d.created) \in Nat /\ \A i \in 1..Len(d.created) : d.created[i] \in Paths
  BY <1>1
<1> DEFINE n == Len(d.created)
<1>10. [i \in 1..n |-> Call("mkdir", d.created[i], "apply", Absent)] \in Seq(Calls)
  <2>1. [i \in 1..n |-> Call("mkdir", d.created[i], "apply", Absent)] \in [1..n -> Calls]
    BY <1>2, <1>4, <1>9
  <2> QED BY <1>9, <2>1, SeqDef
<1>11. [i \in 1..n |-> Call("rmdir", d.created[1 + n - i], "apply", Absent)] \in Seq(Calls)
  <2>1. \A m \in Nat : \A i \in 1..m : 1 + m - i \in 1..m
    OBVIOUS
  <2>2. \A i \in 1..n : d.created[1 + n - i] \in Paths
    BY <1>9, <2>1
  <2>3. [i \in 1..n |-> Call("rmdir", d.created[1 + n - i], "apply", Absent)]
          \in [1..n -> Calls]
    BY <1>2, <1>4, <2>2
  <2> QED BY <1>9, <2>3, SeqDef
<1>12. ApplyCalls(d) \in Seq(Calls)
  <2>1. (IF d.prior = Absent THEN <<>> ELSE Remove(d.target)) \in Seq(Calls)
    BY <1>1, <1>6, EmptySeq
  <2>2. (IF d.prior = Absent THEN <<>> ELSE Remove(d.target)) \o <<Rename(d.source, d.target)>>
          \in Seq(Calls)
    BY <1>1, <1>7, <2>1, ConcatProperties
  <2>3. Remove(d.target) \in Seq(Calls) /\ <<>> \in Seq(Calls)
    BY <1>1, <1>6, EmptySeq
  <2> QED BY <1>8, <1>10, <2>2, <2>3 DEF ApplyCalls
<1>13. UndoCalls(d) \in Seq(Calls)
  <2> DEFINE back == Restore(d.target, "target", d.prior)
  <2>1. back \in Seq(Calls) /\ Restore(d.source, "source", d.expected) \in Seq(Calls)
    BY <1>1, <1>3, <1>4
  <2> HIDE DEF back
  <2>2. <<Rename(d.target, d.source)>> \o back \in Seq(Calls)
    BY <1>1, <1>7, <2>1, ConcatProperties
  <2>3. Remove(d.target) \o back \in Seq(Calls)
    BY <1>1, <1>6, <2>1, ConcatProperties
  <2>4. Remove(d.target) \o <<Call("absent", d.source, "apply", Absent)>> \in Seq(Calls)
    BY <1>1, <1>6, ConcatProperties
  <2>5. Remove(d.target) \o <<Call("absent", d.source, "apply", Absent)>>
          \o Restore(d.source, "source", d.expected) \in Seq(Calls)
    BY <2>1, <2>4, ConcatProperties
  <2>6. Remove(d.target) \o <<Call("absent", d.source, "apply", Absent)>>
          \o Restore(d.source, "source", d.expected) \o back \in Seq(Calls)
    BY <2>1, <2>5, ConcatProperties
  <2> QED BY <1>11, <2>1, <2>2, <2>3, <2>6 DEF UndoCalls, back
<1>14. \A crossDevice : AfterFailedRename(d, crossDevice) \in Seq(Calls)
  <2>1. Restore(d.target, "target", d.prior) \in Seq(Calls)
    BY <1>1, <1>3, <1>4
  <2>2. <<Call("give up", d.target, "apply", Absent)>> \in Seq(Calls)
    BY <1>1, <1>6
  <2> QED BY <1>8, <2>1, <2>2, ConcatProperties DEF AfterFailedRename
<1> QED BY <1>12, <1>13, <1>14

--------------------------------------------------------------------------------
(* What the calls of an operation may change, and how a rollback ends.      *)

\* The paths an operation with this descriptor changes.
Reaches(d, p) ==
  \/ p = d.target /\ d.kind # "mkdir"
  \/ p = d.source /\ d.kind = "move"
  \/ \E k \in 1..Len(d.created) : p = d.created[k]

\* What a descriptor says of such a path: the digest of the entry before the operation.
Kept(d, p) ==
  IF d.kind = "mkdir" THEN Absent
  ELSE IF d.kind = "move" /\ p = d.source THEN d.expected
  ELSE d.prior

\* A call changes no path but those.
Within(d, c) ==
  /\ c.do \in {"remove", "install", "mkdir", "rmdir"} => Reaches(d, c.path)
  /\ c.do = "rename" => d.kind = "move" /\ Reaches(d, c.path) /\ Reaches(d, c.from)

Proper(d, q) == \A k \in 1..Len(q) : Within(d, q[k])

\* A temporary that is filled is installed later on.
Closed(q) ==
  \A k \in 1..Len(q) : q[k].do \in {"create", "fill"} =>
    \E m \in 1..Len(q) : m > k /\ q[m].do = "install" /\ q[m].role = q[k].role

\* Prepare records of every path it is going to change what is there now, and only
\* mkdir makes directories (engine.go, Prepare and missingDirectories).
LEMMA PrepareKeeps ==
  ASSUME NEW f \in [Paths -> Entries], NEW op \in Operations
  PROVE  /\ \A p \in Paths : Reaches(Prepare(f, op), p) => Kept(Prepare(f, op), p) = f[p]
         /\ op.kind # "mkdir" => Prepare(f, op).created = <<>>
<1> DEFINE d == Prepare(f, op)
<1>1. /\ d.kind = op.kind /\ d.target = op.target /\ d.source = op.source
      /\ op.kind # "mkdir" => d.prior = f[op.target] /\ d.created = <<>>
      /\ op.kind = "mkdir" => d.created = MissingDirectories(f, op.target)
      /\ op.kind = "move" => d.expected = f[op.source]
  BY DEF Prepare, Expected, Transfer
<1> HIDE DEF d
<1>2. ASSUME op.kind # "mkdir", NEW p \in Paths, Reaches(d, p)
      PROVE  Kept(d, p) = f[p]
  <2>1. Len(d.created) = 0
    BY <1>1, <1>2
  <2>2. p = op.target \/ (p = op.source /\ op.kind = "move")
    BY <1>1, <1>2, <2>1 DEF Reaches
  <2> QED BY <1>1, <1>2, <2>2 DEF Kept
<1>3. ASSUME op.kind = "mkdir", NEW p \in Paths, Reaches(d, p)
      PROVE  Kept(d, p) = f[p]
  <2> DEFINE missing(q) == IF f[q] = Absent THEN <<q>> ELSE <<>>
             above == IF Parent[op.target] = op.target THEN <<>>
                      ELSE missing(Parent[op.target])
  <2>1. d.created = above \o missing(op.target)
    BY <1>1, <1>3 DEF MissingDirectories
  <2>2. /\ above = <<>> \/ \E q : above = <<q>> /\ f[q] = Absent
        /\ missing(op.target) = <<>> \/ \E q : missing(op.target) = <<q>> /\ f[q] = Absent
    OBVIOUS
  <2> HIDE DEF missing, above
  <2>3. PICK k \in 1..Len(d.created) : p = d.created[k]
    BY <1>1, <1>3 DEF Reaches
  <2>4. f[d.created[k]] = Absent
    BY <2>1, <2>2, <2>3
  <2> QED BY <1>1, <1>3, <2>3, <2>4 DEF Kept
<1> QED BY <1>1, <1>2, <1>3 DEF d

\* An operation that is classified as not done has left every path it may change as
\* Prepare found it (engine.go, Classify).
LEMMA BeforeKeeps ==
  ASSUME NEW f, NEW d \in Descriptors, Classify(f, d) = "before",
         d.kind # "mkdir" => d.created = <<>>, NEW p, Reaches(d, p)
  PROVE  f[p] = Kept(d, p)
<1>1. Len(d.created) \in Nat /\ d.kind \in Kinds
  BY DEF Descriptors
<1>2. CASE d.kind = "mkdir"
  <2>1. ClassifyMkdir(f, d) = "before"
    BY <1>2, Zenon DEF Classify
  <2>2. \A k \in 1..Len(d.created) : f[d.created[k]] = Absent
    BY <2>1 DEF ClassifyMkdir
  <2> QED BY <1>2, <2>2 DEF Reaches, Kept
<1>3. CASE d.kind = "move"
  <2>1. ClassifyMove(f, d) = "before"
    BY <1>3, Zenon DEF Classify
  <2>2. f[d.source] = d.expected /\ f[d.target] = d.prior
    BY <2>1 DEF ClassifyMove
  <2>3. Len(d.created) = 0
    BY <1>3
  <2> QED BY <1>3, <2>2, <2>3 DEF Reaches, Kept
<1>4. CASE d.kind \notin {"mkdir", "move"}
  <2>1. f[d.target] = d.prior
    BY <1>4, Zenon DEF Classify
  <2>2. Len(d.created) = 0
    BY <1>4
  <2> QED BY <1>4, <2>1, <2>2 DEF Reaches, Kept
<1> QED BY <1>2, <1>3, <1>4

\* Lists of calls may be joined.
LEMMA Joined ==
  ASSUME NEW d, NEW q \in Seq(Calls), NEW r \in Seq(Calls)
  PROVE  /\ q \o r \in Seq(Calls)
         /\ Proper(d, q) /\ Proper(d, r) => Proper(d, q \o r)
         /\ Closed(q) /\ Closed(r) => Closed(q \o r)
<1>1. /\ q \o r \in Seq(Calls) /\ Len(q \o r) = Len(q) + Len(r)
      /\ Len(q) \in Nat /\ Len(r) \in Nat
      /\ \A k \in 1..Len(q) : (q \o r)[k] = q[k]
      /\ \A k \in 1..Len(r) : (q \o r)[Len(q) + k] = r[k]
  BY ConcatProperties
<1> DEFINE j == q \o r
<1> HIDE DEF j
<1>2. ASSUME NEW k \in 1..Len(j)
      PROVE  \/ k \in 1..Len(q) /\ j[k] = q[k]
             \/ \E i \in 1..Len(r) : k = Len(q) + i /\ j[k] = r[i]
  <2>1. CASE k <= Len(q)
    BY <1>1, <2>1 DEF j
  <2>2. CASE k > Len(q)
    <3>1. k - Len(q) \in 1..Len(r) /\ k = Len(q) + (k - Len(q))
      BY <1>1, <2>2 DEF j
    <3> QED BY <1>1, <3>1 DEF j
  <2> QED BY <1>1, <2>1, <2>2 DEF j
<1>3. ASSUME Proper(d, q), Proper(d, r) PROVE Proper(d, j)
  BY <1>2, <1>3 DEF Proper
<1>4. ASSUME Closed(q), Closed(r), NEW k \in 1..Len(j), j[k].do \in {"create", "fill"}
      PROVE  \E m \in 1..Len(j) : m > k /\ j[m].do = "install" /\ j[m].role = j[k].role
  <2>1. CASE k \in 1..Len(q) /\ j[k] = q[k]
    <3>1. PICK m \in 1..Len(q) : m > k /\ q[m].do = "install" /\ q[m].role = q[k].role
      BY <1>4, <2>1 DEF Closed
    <3>2. m \in 1..Len(j) /\ j[m] = q[m]
      BY <1>1 DEF j
    <3> QED BY <2>1, <3>1, <3>2
  <2>2. ASSUME NEW i \in 1..Len(r), k = Len(q) + i, j[k] = r[i]
        PROVE  \E m \in 1..Len(j) : m > k /\ j[m].do = "install" /\ j[m].role = j[k].role
    <3>1. PICK m \in 1..Len(r) : m > i /\ r[m].do = "install" /\ r[m].role = r[i].role
      BY <1>4, <2>2 DEF Closed
    <3>2. Len(q) + m \in 1..Len(j) /\ j[Len(q) + m] = r[m] /\ Len(q) + m > k
      BY <1>1, <2>2, <3>1 DEF j
    <3> QED BY <2>2, <3>1, <3>2
  <2> QED BY <1>2, <2>1, <2>2
<1>5. Closed(q) /\ Closed(r) => Closed(j)
  BY <1>4 DEF Closed
<1> QED BY <1>1, <1>3, <1>5 DEF j

\* A list of one call that fills nothing.
LEMMA Single ==
  ASSUME NEW d, NEW c \in Calls, c.do \notin {"create", "fill"}, Within(d, c)
  PROVE  <<c>> \in Seq(Calls) /\ Closed(<<c>>) /\ Proper(d, <<c>>)
<1>1. <<c>> \in Seq(Calls)
  OBVIOUS
<1>2. Closed(<<c>>)
  BY DEF Closed
<1>3. Proper(d, <<c>>)
  BY DEF Proper
<1> QED BY <1>1, <1>2, <1>3

\* Apply and Undo change no path but the operation's own, and install every temporary
\* they fill (engine.go, Apply, Undo, install and restore).
LEMMA CallsProper ==
  ASSUME NEW d \in Descriptors, d.kind # "mkdir" => d.created = <<>>
  PROVE  /\ Proper(d, ApplyCalls(d)) /\ Closed(ApplyCalls(d))
         /\ Proper(d, UndoCalls(d)) /\ Closed(UndoCalls(d))
         /\ d.kind = "move" => \A crossDevice : /\ Proper(d, AfterFailedRename(d, crossDevice))
                                               /\ Closed(AfterFailedRename(d, crossDevice))
<1>1. /\ d.source \in Paths /\ d.target \in Paths /\ d.prior \in Entries
      /\ d.expected \in Entries /\ d.created \in Seq(Paths) /\ d.kind \in Kinds
  BY DEF Descriptors
<1>2. /\ d.kind # "mkdir" => Reaches(d, d.target)
      /\ d.kind = "move" => Reaches(d, d.source)
      /\ \A k \in 1..Len(d.created) : Reaches(d, d.created[k])
  BY DEF Reaches
<1>3. ASSUME NEW p \in Paths, NEW r \in Roles, NEW v \in Entries
      PROVE  /\ Restore(p, r, v) \in Seq(Calls) /\ Install(p, r, v) \in Seq(Calls)
             /\ Closed(Restore(p, r, v)) /\ Closed(Install(p, r, v))
             /\ Reaches(d, p) => Proper(d, Restore(p, r, v)) /\ Proper(d, Install(p, r, v))
  <2> DEFINE q == Install(p, r, v)
  <2>1. /\ q \in Seq(Calls) /\ Len(q) = 4
        /\ q[1] = Call("create", p, r, v) /\ q[2] = Call("fill", p, r, v)
        /\ q[3] = Call("remove", p, r, v) /\ q[4] = Call("install", p, r, v)
    <3>1. /\ Call("create", p, r, v) \in Calls /\ Call("fill", p, r, v) \in Calls
          /\ Call("remove", p, r, v) \in Calls /\ Call("install", p, r, v) \in Calls
      BY DEF Call, Calls
    <3> QED BY <3>1 DEF Install
  <2> HIDE DEF q
  <2>2. \A k \in 1..Len(q) : k = 1 \/ k = 2 \/ k = 3 \/ k = 4
    BY <2>1
  <2>3. Closed(q)
    BY <2>1, <2>2 DEF Closed, Call
  <2>4. Reaches(d, p) => Proper(d, q)
    BY <2>1, <2>2 DEF Proper, Within, Call
  <2>5. <<>> \in Seq(Calls) /\ Closed(<<>>) /\ Proper(d, <<>>)
    BY DEF Closed, Proper
  <2> QED BY <2>1, <2>3, <2>4, <2>5 DEF q, Restore
<1>4. ASSUME NEW p \in Paths
      PROVE  /\ Remove(p) \in Seq(Calls) /\ Closed(Remove(p))
             /\ Reaches(d, p) => Proper(d, Remove(p))
  <2>1. Call("remove", p, "apply", Absent) \in Calls
    BY DEF Call, Calls, Roles, Entries
  <2> QED BY <2>1 DEF Remove, Closed, Proper, Within, Call
<1>5. ASSUME NEW p \in Paths, NEW do \in {"absent", "give up"}
      PROVE  /\ <<Call(do, p, "apply", Absent)>> \in Seq(Calls)
             /\ Closed(<<Call(do, p, "apply", Absent)>>)
             /\ Proper(d, <<Call(do, p, "apply", Absent)>>)
  <2>2. Call(do, p, "apply", Absent) \in Calls
    BY DEF Call, Calls, Roles, Entries
  <2>3. /\ Call(do, p, "apply", Absent).do \notin {"create", "fill"}
        /\ Within(d, Call(do, p, "apply", Absent))
    BY DEF Call, Within
  <2> QED BY <2>2, <2>3, Single
<1>6. ASSUME NEW p \in Paths, NEW q \in Paths
      PROVE  /\ <<Rename(p, q)>> \in Seq(Calls) /\ Closed(<<Rename(p, q)>>)
             /\ d.kind = "move" /\ Reaches(d, p) /\ Reaches(d, q) => Proper(d, <<Rename(p, q)>>)
  <2>1. Rename(p, q) \in Calls
    BY DEF Rename, Calls, Roles, Entries
  <2> QED BY <2>1 DEF Closed, Proper, Within, Rename
<1>7. /\ <<>> \in Seq(Calls) /\ Closed(<<>>) /\ Proper(d, <<>>)
      /\ {"apply", "target", "source"} \subseteq Roles
  BY DEF Closed, Proper, Roles
<1>8. CopyCalls(d) \in Seq(Calls) /\ Closed(CopyCalls(d)) /\ (d.kind # "mkdir" => Proper(d, CopyCalls(d)))
  <2> DEFINE rest == IF d.kind = "move" THEN Remove(d.source) ELSE <<>>
  <2>1. rest \in Seq(Calls) /\ Proper(d, rest) /\ Closed(rest)
    BY <1>1, <1>2, <1>4, <1>7
  <2>2. /\ Install(d.target, "apply", d.expected) \in Seq(Calls)
        /\ Closed(Install(d.target, "apply", d.expected))
        /\ d.kind # "mkdir" => Proper(d, Install(d.target, "apply", d.expected))
    BY <1>1, <1>2, <1>3, <1>7
  <2>3. CopyCalls(d) = Install(d.target, "apply", d.expected) \o rest
    BY DEF CopyCalls
  <2> HIDE DEF rest
  <2> QED BY <2>1, <2>2, <2>3, Joined
<1> DEFINE n == Len(d.created)
           made == [i \in 1..n |-> Call("mkdir", d.created[i], "apply", Absent)]
           unmade == [i \in 1..n |-> Call("rmdir", d.created[1 + n - i], "apply", Absent)]
<1>9. Proper(d, made) /\ Closed(made) /\ Proper(d, unmade) /\ Closed(unmade)
  <2>1. n \in Nat
    BY <1>1
  <2>2. \A i \in 1..n : 1 + n - i \in 1..n
    BY <2>1
  <2> HIDE DEF n
  <2>3. Len(made) = n /\ Len(unmade) = n
    BY <2>1
  <2>4. \A i \in 1..n : Reaches(d, d.created[i]) /\ Reaches(d, d.created[1 + n - i])
    BY <1>2, <2>2 DEF n
  <2>5. \A i \in 1..n : Within(d, made[i]) /\ Within(d, unmade[i])
    BY <2>4 DEF Within, Call
  <2>6. \A i \in 1..n : made[i].do = "mkdir" /\ unmade[i].do = "rmdir"
    BY DEF Call
  <2> HIDE DEF made, unmade
  <2> QED BY <2>3, <2>5, <2>6 DEF Proper, Closed
<1> HIDE DEF made, unmade, n
<1>10. Proper(d, ApplyCalls(d)) /\ Closed(ApplyCalls(d))
  <2> DEFINE first == IF d.prior = Absent THEN <<>> ELSE Remove(d.target)
  <2>1. CASE d.kind = "mkdir"
    <3>1. ApplyCalls(d) = made
      BY <2>1, Zenon DEF ApplyCalls, made, n
    <3> QED BY <1>9, <3>1
  <2>2. CASE d.kind = "move" /\ d.method = "rename"
    <3>1. first \in Seq(Calls) /\ Proper(d, first) /\ Closed(first)
      BY <1>1, <1>2, <1>4, <1>7, <2>2
    <3> DEFINE second == <<Rename(d.source, d.target)>>
    <3>2. second \in Seq(Calls) /\ Proper(d, second) /\ Closed(second)
      BY <1>1, <1>2, <1>6, <2>2
    <3>3. ApplyCalls(d) = first \o second
      BY <2>2 DEF ApplyCalls
    <3> HIDE DEF first, second
    <3> QED BY <3>1, <3>2, <3>3, Joined
  <2>3. CASE d.kind # "mkdir" /\ ~(d.kind = "move" /\ d.method = "rename")
    <3>1. ApplyCalls(d) \in {Remove(d.target), <<>>, CopyCalls(d)}
      BY <2>3 DEF ApplyCalls
    <3> QED BY <1>1, <1>2, <1>4, <1>7, <1>8, <2>3, <3>1
  <2> QED BY <2>1, <2>2, <2>3
<1> DEFINE back == Restore(d.target, "target", d.prior)
<1>11. /\ back \in Seq(Calls) /\ Closed(back)
       /\ d.kind # "mkdir" => Proper(d, back)
  BY <1>1, <1>2, <1>3, <1>7
<1> HIDE DEF back
<1>12. Proper(d, UndoCalls(d)) /\ Closed(UndoCalls(d))
  <2>1. CASE d.kind = "mkdir"
    <3>1. UndoCalls(d) = unmade
      BY <2>1, Zenon DEF UndoCalls, unmade, n
    <3> QED BY <1>9, <3>1
  <2>2. CASE d.kind = "delete"
    <3>1. UndoCalls(d) = back
      BY <2>2, Zenon DEF UndoCalls, back
    <3> QED BY <1>11, <2>2, <3>1
  <2>3. CASE d.kind = "move" /\ d.method = "rename"
    <3> DEFINE first == <<Rename(d.target, d.source)>>
    <3>1. first \in Seq(Calls) /\ Proper(d, first) /\ Closed(first)
      BY <1>1, <1>2, <1>6, <2>3
    <3>2. UndoCalls(d) = first \o back
      BY <2>3 DEF UndoCalls, back
    <3> HIDE DEF first
    <3> QED BY <1>11, <2>3, <3>1, <3>2, Joined
  <2>4. CASE d.kind = "move" /\ d.method # "rename"
    <3> DEFINE gone  == Remove(d.target)
               check == <<Call("absent", d.source, "apply", Absent)>>
               again == Restore(d.source, "source", d.expected)
    <3>1. /\ gone \in Seq(Calls) /\ Closed(gone) /\ Proper(d, gone)
          /\ check \in Seq(Calls) /\ Closed(check) /\ Proper(d, check)
          /\ again \in Seq(Calls) /\ Closed(again) /\ Proper(d, again)
      BY <1>1, <1>2, <1>3, <1>4, <1>5, <1>7, <2>4
    <3>2. UndoCalls(d) = gone \o check \o again \o back
      BY <2>4 DEF UndoCalls, back
    <3> HIDE DEF gone, check, again
    <3> DEFINE one == gone \o check
               two == one \o again
    <3>3. one \in Seq(Calls) /\ Closed(one) /\ Proper(d, one)
      BY <3>1, Joined
    <3>4. UndoCalls(d) = two \o back
      BY <3>2
    <3> HIDE DEF one
    <3>5. two \in Seq(Calls) /\ Closed(two) /\ Proper(d, two)
      BY <3>1, <3>3, Joined
    <3> HIDE DEF two
    <3> QED BY <1>11, <2>4, <3>4, <3>5, Joined
  <2>5. CASE d.kind \notin {"mkdir", "delete", "move"}
    <3>1. /\ Remove(d.target) \in Seq(Calls) /\ Closed(Remove(d.target))
          /\ Proper(d, Remove(d.target))
      BY <1>1, <1>2, <1>4, <2>5
    <3>2. UndoCalls(d) = Remove(d.target) \o back
      BY <2>5 DEF UndoCalls, back
    <3> QED BY <1>11, <2>5, <3>1, <3>2, Joined
  <2> QED BY <2>1, <2>2, <2>3, <2>4, <2>5
<1>13. ASSUME d.kind = "move", NEW crossDevice
       PROVE  /\ Proper(d, AfterFailedRename(d, crossDevice))
              /\ Closed(AfterFailedRename(d, crossDevice))
  <2> DEFINE rest == IF crossDevice THEN CopyCalls(d)
                     ELSE <<Call("give up", d.target, "apply", Absent)>>
  <2>1. rest \in Seq(Calls) /\ Proper(d, rest) /\ Closed(rest)
    BY <1>1, <1>5, <1>8, <1>13
  <2>2. AfterFailedRename(d, crossDevice) = back \o rest
    BY DEF AfterFailedRename, back
  <2> HIDE DEF rest
  <2> QED BY <1>11, <1>13, <2>1, <2>2, Joined
<1> QED BY <1>10, <1>12, <1>13

\* When the first call of such a list has returned, the rest is such a list, and what the
\* first call filled is installed by one of them.
LEMMA Continued ==
  ASSUME NEW d, NEW q \in Seq(Calls), q # <<>>
  PROVE  /\ Proper(d, q) => Within(d, Head(q)) /\ Proper(d, Tail(q))
         /\ Closed(q) => Closed(Tail(q))
         /\ \A k \in 1..Len(q) : k = 1 \/ \E m \in 1..Len(Tail(q)) : Tail(q)[m] = q[k]
         /\ Closed(q) /\ Head(q).do \in {"create", "fill"} =>
              \E m \in 1..Len(Tail(q)) : /\ Tail(q)[m].do = "install"
                                         /\ Tail(q)[m].role = Head(q).role
<1>1. /\ Len(q) \in Nat /\ Len(q) > 0 /\ Head(q) = q[1]
      /\ Len(Tail(q)) = Len(q) - 1 /\ \A m \in 1..Len(Tail(q)) : Tail(q)[m] = q[m + 1]
  BY HeadTailProperties
<1> DEFINE t == Tail(q)
<1> HIDE DEF t
<1>2. /\ 1 \in 1..Len(q) /\ \A m \in 1..Len(t) : m + 1 \in 1..Len(q) /\ t[m] = q[m + 1]
      /\ \A k \in 1..Len(q) : k # 1 => k - 1 \in 1..Len(t) /\ t[k - 1] = q[k]
  BY <1>1 DEF t
<1>3. Proper(d, q) => Within(d, Head(q)) /\ Proper(d, t)
  BY <1>1, <1>2 DEF Proper
<1>4. ASSUME Closed(q), NEW m \in 1..Len(t), t[m].do \in {"create", "fill"}
      PROVE  \E k \in 1..Len(t) : k > m /\ t[k].do = "install" /\ t[k].role = t[m].role
  <2>1. PICK k \in 1..Len(q) : k > m + 1 /\ q[k].do = "install" /\ q[k].role = t[m].role
    <3>1. m + 1 \in 1..Len(q) /\ q[m + 1] = t[m]
      BY <1>2
    <3> QED BY <1>4, <3>1 DEF Closed
  <2>2. k # 1 /\ k - 1 > m
    BY <2>1
  <2>3. k - 1 \in 1..Len(t) /\ t[k - 1] = q[k]
    BY <1>2, <2>2
  <2> QED BY <2>1, <2>2, <2>3
<1>5. Closed(q) => Closed(t)
  BY <1>4 DEF Closed
<1>6. \A k \in 1..Len(q) : k = 1 \/ \E m \in 1..Len(t) : t[m] = q[k]
  BY <1>2
<1>7. ASSUME Closed(q), Head(q).do \in {"create", "fill"}
      PROVE  \E m \in 1..Len(t) : t[m].do = "install" /\ t[m].role = Head(q).role
  <2>1. PICK k \in 1..Len(q) : k > 1 /\ q[k].do = "install" /\ q[k].role = Head(q).role
    BY <1>1, <1>2, <1>7 DEF Closed
  <2> QED BY <1>2, <2>1
<1> QED BY <1>3, <1>5, <1>6, <1>7 DEF t

Without(q, do) == \A k \in 1..Len(q) : q[k].do # do

\* The call with which the source of a move is gone, or the one that never succeeds.
Takes(d, c) ==
  \/ c.do = "give up"
  \/ c.do = "remove" /\ c.path = d.source
  \/ c.do = "rename" /\ c.from = d.source

\* How Apply ends: the last call of a move takes the source away, mkdir makes nothing but
\* directories, and a list that renames installs nothing.
Applies(d, q) ==
  /\ d.kind = "mkdir" => \A k \in 1..Len(q) : q[k].do = "mkdir"
  /\ d.kind = "move" /\ q # <<>> => Takes(d, q[Len(q)])
  /\ Without(q, "rename") \/ Without(q, "install")

\* A list of one call.
LEMMA OneCall ==
  ASSUME NEW c \in Calls
  PROVE  /\ <<c>> \in Seq(Calls) /\ Len(<<c>>) = 1 /\ <<c>>[1] = c /\ <<c>> # <<>>
         /\ \A do : c.do # do => Without(<<c>>, do)
  BY DEF Without

\* A list of calls before another.
LEMMA JoinedEnds ==
  ASSUME NEW q \in Seq(Calls), NEW r \in Seq(Calls)
  PROVE  /\ \A do : Without(q, do) /\ Without(r, do) => Without(q \o r, do)
         /\ r # <<>> => q \o r # <<>> /\ (q \o r)[Len(q \o r)] = r[Len(r)]
<1>1. /\ q \o r \in Seq(Calls) /\ Len(q \o r) = Len(q) + Len(r)
      /\ Len(q) \in Nat /\ Len(r) \in Nat
      /\ \A k \in 1..Len(q) : (q \o r)[k] = q[k]
      /\ \A k \in 1..Len(r) : (q \o r)[Len(q) + k] = r[k]
  BY ConcatProperties
<1> DEFINE j == q \o r
<1> HIDE DEF j
<1>2. ASSUME NEW k \in 1..Len(j)
      PROVE  (k \in 1..Len(q) /\ j[k] = q[k]) \/ (\E i \in 1..Len(r) : j[k] = r[i])
  <2>1. CASE k <= Len(q)
    BY <1>1, <2>1 DEF j
  <2>2. CASE k > Len(q)
    <3>1. k - Len(q) \in 1..Len(r) /\ k = Len(q) + (k - Len(q))
      BY <1>1, <2>2 DEF j
    <3> QED BY <1>1, <3>1 DEF j
  <2> QED BY <1>1, <2>1, <2>2 DEF j
<1>3. \A do : Without(q, do) /\ Without(r, do) => Without(j, do)
  BY <1>2 DEF Without
<1>4. ASSUME r # <<>> PROVE j # <<>> /\ j[Len(j)] = r[Len(r)]
  <2>1. Len(r) > 0 /\ Len(r) \in 1..Len(r)
    BY <1>1, <1>4
  <2>2. Len(j) > 0 /\ j[Len(q) + Len(r)] = r[Len(r)]
    BY <1>1, <2>1 DEF j
  <2> QED BY <1>1, <2>2 DEF j
<1> QED BY <1>3, <1>4 DEF j

\* The lists Apply works through (engine.go, Apply, applyRenameMove and applyCopyMove).
LEMMA ApplyEnds ==
  ASSUME NEW d \in Descriptors
  PROVE  /\ Applies(d, ApplyCalls(d))
         /\ d.kind = "move" => ApplyCalls(d) # <<>>
         /\ d.kind = "mkdir" =>
              /\ Len(ApplyCalls(d)) = Len(d.created)
              /\ \A k \in 1..Len(d.created) : ApplyCalls(d)[k].path = d.created[k]
         /\ d.kind = "move" =>
              \A crossDevice : /\ Applies(d, AfterFailedRename(d, crossDevice))
                               /\ AfterFailedRename(d, crossDevice) # <<>>
<1>1. /\ d.source \in Paths /\ d.target \in Paths /\ d.prior \in Entries
      /\ d.expected \in Entries /\ d.created \in Seq(Paths)
      /\ {"apply", "target"} \subseteq Roles /\ Absent \in Entries
  BY DEF Descriptors, Roles, Entries
<1>2. ASSUME NEW p \in Paths, NEW r \in Roles, NEW v \in Entries
      PROVE  /\ Install(p, r, v) \in Seq(Calls) /\ Without(Install(p, r, v), "rename")
             /\ Restore(p, r, v) \in Seq(Calls) /\ Without(Restore(p, r, v), "rename")
  <2> DEFINE q == Install(p, r, v)
  <2>1. /\ q \in Seq(Calls) /\ Len(q) = 4
        /\ q[1] = Call("create", p, r, v) /\ q[2] = Call("fill", p, r, v)
        /\ q[3] = Call("remove", p, r, v) /\ q[4] = Call("install", p, r, v)
    <3>1. /\ Call("create", p, r, v) \in Calls /\ Call("fill", p, r, v) \in Calls
          /\ Call("remove", p, r, v) \in Calls /\ Call("install", p, r, v) \in Calls
      BY DEF Call, Calls
    <3> QED BY <3>1 DEF Install
  <2> HIDE DEF q
  <2>2. \A k \in 1..Len(q) : k = 1 \/ k = 2 \/ k = 3 \/ k = 4
    BY <2>1
  <2>3. Without(q, "rename")
    BY <2>1, <2>2 DEF Without, Call
  <2>4. <<>> \in Seq(Calls) /\ Without(<<>>, "rename")
    BY DEF Without
  <2> QED BY <2>1, <2>3, <2>4 DEF q, Restore
<1>3. ASSUME NEW p \in Paths, NEW do \in {"remove", "give up"}
      PROVE  /\ <<Call(do, p, "apply", Absent)>> \in Seq(Calls)
             /\ Without(<<Call(do, p, "apply", Absent)>>, "rename")
             /\ Without(<<Call(do, p, "apply", Absent)>>, "install")
             /\ Len(<<Call(do, p, "apply", Absent)>>) = 1
             /\ <<Call(do, p, "apply", Absent)>>[1].do = do
             /\ <<Call(do, p, "apply", Absent)>>[1].path = p
  <2> DEFINE c == Call(do, p, "apply", Absent)
  <2>1. c \in Calls /\ c.do = do /\ c.path = p /\ c.do # "rename" /\ c.do # "install"
    BY DEF Call, Calls, Roles, Entries
  <2> HIDE DEF c
  <2>2. /\ <<c>> \in Seq(Calls) /\ Len(<<c>>) = 1 /\ <<c>>[1] = c
        /\ Without(<<c>>, "rename") /\ Without(<<c>>, "install")
    BY <2>1, OneCall
  <2>3. <<c>>[1].do = do /\ <<c>>[1].path = p
    BY <2>1, <2>2
  <2> QED BY <2>2, <2>3 DEF c
<1>4. ASSUME NEW p \in Paths, NEW q \in Paths
      PROVE  /\ <<Rename(p, q)>> \in Seq(Calls) /\ Without(<<Rename(p, q)>>, "install")
             /\ Len(<<Rename(p, q)>>) = 1
             /\ <<Rename(p, q)>>[1].do = "rename" /\ <<Rename(p, q)>>[1].from = p
  <2> DEFINE c == Rename(p, q)
  <2>1. c \in Calls /\ c.do = "rename" /\ c.from = p /\ c.do # "install"
    BY DEF Rename, Calls, Roles, Entries
  <2> HIDE DEF c
  <2>2. /\ <<c>> \in Seq(Calls) /\ Len(<<c>>) = 1 /\ <<c>>[1] = c
        /\ Without(<<c>>, "install")
    BY <2>1, OneCall
  <2>3. <<c>>[1].do = "rename" /\ <<c>>[1].from = p
    BY <2>1, <2>2
  <2> QED BY <2>2, <2>3 DEF c
<1>5. <<>> \in Seq(Calls) /\ \A do : Without(<<>>, do)
  BY DEF Without
<1> DEFINE fill == Install(d.target, "apply", d.expected)
           take == Remove(d.source)
<1>6. /\ fill \in Seq(Calls) /\ Without(fill, "rename")
      /\ take \in Seq(Calls) /\ Without(take, "rename") /\ take # <<>>
      /\ Takes(d, take[Len(take)])
  BY <1>1, <1>2, <1>3 DEF Remove, Takes
<1>7. CopyCalls(d) = fill \o (IF d.kind = "move" THEN take ELSE <<>>)
  BY DEF CopyCalls
<1> HIDE DEF fill, take
<1>8. /\ CopyCalls(d) \in Seq(Calls) /\ Without(CopyCalls(d), "rename")
      /\ d.kind = "move" => CopyCalls(d) # <<>> /\ Takes(d, CopyCalls(d)[Len(CopyCalls(d))])
  <2>1. CASE d.kind = "move"
    <3>1. CopyCalls(d) = fill \o take
      BY <1>7, <2>1
    <3>2. fill \o take \in Seq(Calls)
      BY <1>6, ConcatProperties
    <3> QED BY <1>6, <3>1, <3>2, JoinedEnds
  <2>2. CASE d.kind # "move"
    <3>1. CopyCalls(d) = fill
      BY <1>6, <1>7, <2>2, ConcatEmptySeq
    <3> QED BY <1>6, <2>2, <3>1
  <2> QED BY <2>1, <2>2
<1>9. CASE d.kind = "mkdir"
  <2> DEFINE n == Len(d.created)
             made == [i \in 1..n |-> Call("mkdir", d.created[i], "apply", Absent)]
  <2>1. ApplyCalls(d) = made
    BY <1>9, Zenon DEF ApplyCalls
  <2>0. n \in Nat
    BY <1>1
  <2>2. \A i \in 1..n : made[i].do = "mkdir" /\ made[i].path = d.created[i]
    BY DEF Call
  <2> HIDE DEF n
  <2>3. Len(made) = n
    BY <2>0
  <2> HIDE DEF made
  <2>4. Without(made, "rename")
    BY <2>2, <2>3 DEF Without
  <2> QED BY <1>9, <2>1, <2>2, <2>3, <2>4 DEF Applies, n
<1>10. CASE d.kind = "move"
  <2>1. Applies(d, ApplyCalls(d)) /\ ApplyCalls(d) # <<>>
    <3>1. CASE d.method = "rename"
      <4> DEFINE first == IF d.prior = Absent THEN <<>> ELSE Remove(d.target)
                 second == <<Rename(d.source, d.target)>>
      <4>1. first \in Seq(Calls) /\ Without(first, "install")
        BY <1>1, <1>3, <1>5 DEF Remove
      <4>2. /\ second \in Seq(Calls) /\ Without(second, "install") /\ second # <<>>
            /\ Takes(d, second[Len(second)])
        BY <1>1, <1>4 DEF Takes
      <4>3. ApplyCalls(d) = first \o second
        BY <1>10, <3>1 DEF ApplyCalls
      <4> HIDE DEF first, second
      <4> QED BY <1>10, <4>1, <4>2, <4>3, JoinedEnds DEF Applies
    <3>2. CASE d.method # "rename"
      <4>1. ApplyCalls(d) = CopyCalls(d)
        BY <1>10, <3>2 DEF ApplyCalls
      <4> QED BY <1>8, <1>10, <4>1 DEF Applies
    <3> QED BY <3>1, <3>2
  <2>2. ASSUME NEW crossDevice
        PROVE  /\ Applies(d, AfterFailedRename(d, crossDevice))
               /\ AfterFailedRename(d, crossDevice) # <<>>
    <3> DEFINE back == Restore(d.target, "target", d.prior)
               rest == IF crossDevice THEN CopyCalls(d)
                       ELSE <<Call("give up", d.target, "apply", Absent)>>
    <3>1. back \in Seq(Calls) /\ Without(back, "rename")
      BY <1>1, <1>2
    <3>2. /\ rest \in Seq(Calls) /\ Without(rest, "rename") /\ rest # <<>>
          /\ Takes(d, rest[Len(rest)])
      BY <1>1, <1>3, <1>8, <1>10 DEF Takes
    <3>3. AfterFailedRename(d, crossDevice) = back \o rest
      BY DEF AfterFailedRename
    <3> HIDE DEF back, rest
    <3> QED BY <1>10, <3>1, <3>2, <3>3, JoinedEnds DEF Applies
  <2> QED BY <1>10, <2>1, <2>2
<1>11. CASE d.kind \notin {"mkdir", "move"}
  <2>1. ApplyCalls(d) \in {Remove(d.target), <<>>, CopyCalls(d)}
    BY <1>11 DEF ApplyCalls
  <2>2. Without(Remove(d.target), "rename") /\ Without(<<>>, "rename")
    BY <1>1, <1>3, <1>5 DEF Remove
  <2> QED BY <1>8, <1>11, <2>1, <2>2 DEF Applies
<1> QED BY <1>9, <1>10, <1>11

\* What the lists of Apply say goes on for the rest of them.
LEMMA AppliesOn ==
  ASSUME NEW d, NEW q \in Seq(Calls), q # <<>>, Applies(d, q)
  PROVE  /\ Applies(d, Tail(q))
         /\ d.kind = "move" /\ Tail(q) = <<>> => Takes(d, Head(q))
         /\ d.kind = "mkdir" => Head(q).do = "mkdir"
<1>1. /\ Len(q) \in Nat /\ Len(q) > 0 /\ Head(q) = q[1] /\ Tail(q) \in Seq(Calls)
      /\ Len(Tail(q)) = Len(q) - 1 /\ \A m \in 1..Len(Tail(q)) : Tail(q)[m] = q[m + 1]
  BY HeadTailProperties
<1> DEFINE t == Tail(q)
<1> HIDE DEF t
<1>2. /\ 1 \in 1..Len(q) /\ \A m \in 1..Len(t) : m + 1 \in 1..Len(q) /\ t[m] = q[m + 1]
  BY <1>1 DEF t
<1>3. t # <<>> => Len(t) > 0 /\ Len(t) \in 1..Len(t) /\ Len(t) + 1 = Len(q)
  BY <1>1 DEF t
<1>4. t # <<>> => t[Len(t)] = q[Len(q)]
  BY <1>2, <1>3
<1>5. t = <<>> => Len(q) = 1
  <2>1. t = <<>> => Len(t) = 0
    OBVIOUS
  <2>2. Len(t) = Len(q) - 1 /\ Len(q) \in Nat
    BY <1>1 DEF t
  <2>3. Len(t) = 0 => Len(q) = 1
    BY <2>2
  <2> QED BY <2>1, <2>3
<1>6. Without(t, "rename") \/ Without(t, "install")
  BY <1>2 DEF Applies, Without
<1>7. d.kind = "mkdir" => Head(q).do = "mkdir" /\ \A k \in 1..Len(t) : t[k].do = "mkdir"
  BY <1>1, <1>2 DEF Applies
<1>8. d.kind = "move" /\ t # <<>> => Takes(d, t[Len(t)])
  BY <1>4 DEF Applies
<1>9. d.kind = "move" /\ t = <<>> => Takes(d, Head(q))
  BY <1>1, <1>5 DEF Applies
<1> QED BY <1>6, <1>7, <1>8, <1>9 DEF Applies, t
================================================================================
