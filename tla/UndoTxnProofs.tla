----------------------------- MODULE UndoTxnProofs -----------------------------
(***************************************************************************)
(* The inductive invariant of one transaction (UndoTxn), for every set of  *)
(* paths, every script, any number of crashes and of failing calls.        *)
(*                                                                         *)
(* Inv ties four views of the transaction together: the journal, as its    *)
(* reader sees it; the metadata on disk; the copy of the status in memory; *)
(* and the place the process is at.  While the process works (Active, not  *)
(* Failing), its appender stands at the end of a readable journal and the  *)
(* next frame it may append is one that the reader accepts.  A process     *)
(* that has lost track of the file, because an append failed, is either on *)
(* its way to its last write (Failing) or has to open the journal again.   *)
(***************************************************************************)
EXTENDS UndoTxn, UndoLemmas

Active == pc \notin {"idle", "stopped", "recover"}

\* Recover has failed and is about to say so.
Failing ==
  \/ pc = "give up"
  \/ pc \in {"transition", "persist"} /\ to = "RECOVERY_FAILED"

\* The appender stands behind the last frame of a readable file.
Healthy == jrn.ok /\ ~stale /\ tail = "clean"

Preparing == {"prepare", "log prepared"}
Applying  == {"apply", "applying", "verify", "log applied"}
Undoing   == {"undo", "undoing", "recheck", "log undone"}
Backward  == Undoing \cup {"inspect", "log undo", "log complete"}
Working   == Preparing \cup Applying \cup Backward \cup {"plan", "assert", "log commit"}

\* The journal by itself, readable or not.
LogInv ==
  /\ jrn.prepared = 1..Len(prep)
  /\ Len(prep) <= Len(script) /\ Len(script) <= MaxOps
  /\ jrn.applied \subseteq jrn.prepared
  /\ jrn.rollbackPrepared \subseteq jrn.prepared
  /\ jrn.rollbackApplied \subseteq jrn.rollbackPrepared
  /\ jrn.state = "COMMITTED" => jrn.committed
  /\ jrn.state = "ROLLED_BACK" => jrn.rolledBack

HealthInv ==
  /\ pc \notin {"stopped", "recover"} /\ ~Failing => Healthy
  /\ faults = 0 => /\ jrn.ok /\ ~stale
                   /\ pc \notin {"stopped", "recover"} => tail = "clean"

\* The journal's state, and what is prepared and applied, at each place.
ForwardInv ==
  /\ pc \in {"idle", "plan"} => prep = <<>> /\ jrn.state = "PLANNED"
  /\ pc \in Preparing \cup Applying => jrn.state = "RUNNING"
  /\ pc = "assert" => jrn.state = "VERIFYING"
  /\ pc = "log commit" => jrn.state = "COMMITTING"
  /\ pc \in Preparing => cur = Len(prep) + 1 /\ cur <= Len(script)
  /\ pc \in Applying  => cur = Len(prep) /\ cur > 0 /\ jrn.prepared \ jrn.applied = {cur}
  /\ pc \in Preparing \cup {"assert", "log commit"} => jrn.prepared = jrn.applied

BackwardInv ==
  /\ pc \in Backward =>
       /\ jrn.state = "ROLLING_BACK" /\ cur <= Len(prep)
       /\ \A i \in jrn.prepared : i > cur => i \in jrn.rollbackApplied
  /\ pc \in Undoing \cup {"log undo"} => cur > 0
  /\ pc = "log undo" => cur \notin jrn.rollbackPrepared
  /\ pc \in Undoing => cur \in jrn.rollbackPrepared \ jrn.rollbackApplied
  /\ pc = "log complete" => jrn.prepared = jrn.rollbackApplied

\* What has to hold before, and after, the status changes to "to".
Due ==
  /\ to \in {"PREPARED", "RUNNING"} => prep = <<>>
  /\ to \in {"VERIFYING", "COMMITTING"} => jrn.prepared = jrn.applied
  /\ jrn.committed <=> to = "COMMITTED"
  /\ jrn.rolledBack <=> to = "ROLLED_BACK"
  /\ to \notin {"PLANNED", "RECOVERY_REQUIRED"}

StatusInv ==
  /\ pc = "idle" => mem = Fresh /\ meta = Fresh
  /\ pc \in Working \cup {"idle"} => mem.status = jrn.state /\ ~Decided
  /\ pc = "transition" => ValidTransition(mem.status, to)
  /\ pc = "transition" /\ to # "RECOVERY_FAILED" => mem.status = jrn.state /\ Due
  /\ pc = "transition" /\ to = "RECOVERY_FAILED" =>
       mem.status = "ROLLING_BACK" /\ (faults = 0 => jrn.state = "ROLLING_BACK" /\ ~Decided)
  /\ pc = "persist" => mem.status = to
  /\ pc = "persist" /\ to # "RECOVERY_FAILED" => jrn.state = to /\ Due
  /\ pc = "reconcile" =>
       \/ mode = "finish" /\ Terminal(mem.status)
       \/ mode = "undo" /\ mem.status = jrn.state /\ ~Decided
  /\ pc \in {"cleanup", "cleaned", "release"} => Terminal(mem.status)
  /\ pc = "give up" => mem.status = "RECOVERY_FAILED"

\* A status that says the outcome is decided only repeats the journal.
Backed(m) ==
  /\ m.status = "COMMITTED" => jrn.committed
  /\ m.status = "ROLLED_BACK" => jrn.rolledBack

\* Backups are gone only behind a marker, and the lock only behind the backups.
CleanInv ==
  /\ meta.cleaned \/ mem.cleaned => Decided /\ \A s \in Slots : bak[s] = Absent
  /\ Active /\ meta.cleaned => mem.cleaned
  /\ pc = "cleaned" => mem.cleaned
  /\ pc = "release" => meta = mem /\ mem.cleaned
  /\ pc # "idle" /\ ~lock => meta.cleaned

ResultInv ==
  /\ pc # "stopped" => result = "none"
  /\ pc = "recover" => Pending
  /\ ResultIsTrue

CtlInv ==
  /\ LogInv /\ HealthInv /\ ForwardInv /\ BackwardInv /\ StatusInv
  /\ Backed(meta) /\ Backed(mem) /\ CleanInv /\ ResultInv

Inv == TypeOK /\ CtlInv

--------------------------------------------------------------------------------
(* What the steps of the transaction do to the invariant's state.            *)

\* A failing call is counted.
LEMMA FaultCounts == TypeOK /\ Fault => faults' # 0
BY DEF TypeOK, Fault

\* How Recover gives up (recovery.go, fail).
LEMMA FailEffect ==
  TypeOK /\ Fail =>
    /\ UNCHANGED <<mode, result, cur>>
    /\ \/ /\ mem.status = "ROLLING_BACK"
          /\ pc' = "transition" /\ to' = "RECOVERY_FAILED" /\ mem' = mem
       \/ /\ mem.status # "ROLLING_BACK"
          /\ pc' = "give up" /\ to' = to
          /\ mem'.status = "RECOVERY_FAILED" /\ mem'.cleaned = mem.cleaned
BY DEF TypeOK, Fail, Metadata

\* How a process ends.
LEMMA StopEffect ==
  ASSUME NEW r, Stop(r)
  PROVE  /\ pc' = "stopped" /\ result' = r
         /\ mem'.status = "PLANNED" /\ ~mem'.cleaned /\ cur' = 0
BY DEF Stop, Fresh

\* The outcomes of Transition, by the status entered (txn.go and recovery.go).
LEMMA AfterStateCases ==
  AfterState =>
    \/ to = "PREPARED" /\ Transition("RUNNING")
    \/ to = "RUNNING" /\ NextOperation(1)
    \/ to = "VERIFYING" /\ NextAssertion(1)
    \/ to = "COMMITTING" /\ Goto("log commit")
    \/ to = "ROLLING_BACK" /\ GotoOp("inspect", Len(prep))
    \/ to \in {"COMMITTED", "ROLLED_BACK"} /\ Goto("cleanup")
    \/ Stop("RECOVERY_FAILED")
BY Zenon DEF AfterState, Terminal

\* What Recover does once the metadata agrees with the journal.
LEMMA ReconcileCases ==
  Reconcile =>
    \/ mode = "finish" /\ Goto(IF mem.cleaned THEN "release" ELSE "cleanup")
    \/ mode = "undo" /\ mem.status = "ROLLING_BACK" /\ GotoOp("inspect", Len(prep))
    \/ /\ mode # "finish" /\ (mode = "undo" => mem.status # "ROLLING_BACK")
       /\ Transition("ROLLING_BACK")
BY Zenon DEF Reconcile

\* The operations are numbered as they were prepared.
LEMMA Numbering ==
  TypeOK /\ LogInv =>
    /\ Len(prep) \in Nat /\ Len(prep) + 1 \notin jrn.prepared
    /\ \A n \in Nat : n > 0 /\ n <= Len(prep) => n \in jrn.prepared
    /\ \A n \in jrn.prepared : n \in Nat /\ n > 0 /\ n <= Len(prep)
    /\ prep = <<>> => Len(prep) = 0 /\ jrn.prepared = jrn.applied
<1> SUFFICES ASSUME TypeOK, LogInv
             PROVE  /\ Len(prep) \in Nat /\ Len(prep) + 1 \notin jrn.prepared
                    /\ \A n \in Nat : n > 0 /\ n <= Len(prep) => n \in jrn.prepared
                    /\ \A n \in jrn.prepared : n \in Nat /\ n > 0 /\ n <= Len(prep)
                    /\ prep = <<>> => Len(prep) = 0 /\ jrn.prepared = jrn.applied
  OBVIOUS
<1>1. Len(prep) \in Nat
  BY DEF TypeOK
<1>2. jrn.prepared = 1..Len(prep) /\ jrn.applied \subseteq jrn.prepared
  BY DEF LogInv
<1>3. prep = <<>> => Len(prep) = 0
  OBVIOUS
<1>4. prep = <<>> => jrn.prepared = jrn.applied
  BY <1>2, <1>3
<1>5. /\ Len(prep) + 1 \notin jrn.prepared
      /\ \A n \in Nat : n > 0 /\ n <= Len(prep) => n \in jrn.prepared
      /\ \A n \in jrn.prepared : n \in Nat /\ n > 0 /\ n <= Len(prep)
  BY <1>1, <1>2
<1> QED BY <1>1, <1>3, <1>4, <1>5

\* Operations are prepared in the order of the script (txn.go, Execute).
LEMMA NextNumber ==
  ASSUME TypeOK, CtlInv, pc \in Preparing
  PROVE  /\ cur = Len(prep) + 1 /\ Len(prep) \in Nat
         /\ cur \in 1..Len(script) /\ Len(prep) + 1 <= Len(script)
         /\ jrn.prepared \cup {cur} = 1..Len(prep) + 1
         /\ jrn.prepared = jrn.applied /\ cur \notin jrn.prepared
<1>1. Len(prep) \in Nat /\ Len(script) \in Nat
  BY DEF TypeOK
<1>2. cur = Len(prep) + 1 /\ cur <= Len(script) /\ jrn.prepared = jrn.applied
  BY DEF CtlInv, ForwardInv
<1>3. jrn.prepared = 1..Len(prep)
  BY DEF CtlInv, LogInv
<1> QED BY <1>1, <1>2, <1>3

\* One more operation is prepared (engine.go, Prepare).
LEMMA OneMore ==
  ASSUME TypeOK, CtlInv, pc \in Preparing
  PROVE  /\ Op \in Operations /\ Prepare(fs, Op) \in Descriptors
         /\ Append(prep, Prepare(fs, Op)) \in Seq(Descriptors)
         /\ Append(prep, Prepare(fs, Op)) # <<>>
         /\ Len(Append(prep, Prepare(fs, Op))) = Len(prep) + 1
<1>1. Op \in Operations
  <2>1. cur \in 1..Len(script)
    BY NextNumber
  <2> QED BY <2>1 DEF TypeOK, Op
<1>2. Prepare(fs, Op) \in Descriptors
  BY <1>1, PrepareType DEF TypeOK
<1>3. prep \in Seq(Descriptors)
  BY DEF TypeOK
<1> QED BY <1>1, <1>2, <1>3, AppendProperties

\* The rollback starts at the last operation prepared.
LEMMA StartBackward ==
  /\ TypeOK /\ LogInv /\ jrn.state = "ROLLING_BACK" /\ UNCHANGED <<jrn, prep>>
  /\ pc' = "inspect" /\ cur' = Len(prep)
  => BackwardInv'
<1> SUFFICES ASSUME TypeOK, LogInv, jrn.state = "ROLLING_BACK", jrn' = jrn, prep' = prep,
                    pc' = "inspect", cur' = Len(prep)
             PROVE  BackwardInv'
  OBVIOUS
<1>1. Len(prep) \in Nat /\ \A i \in jrn.prepared : i \in Nat /\ i <= Len(prep)
  BY Numbering
<1> QED BY <1>1 DEF BackwardInv, Backward, Undoing

\* The first operation comes next, or the postconditions when there is none.
LEMMA StartForward ==
  /\ TypeOK /\ LogInv /\ prep = <<>> /\ jrn.state = "RUNNING" /\ UNCHANGED <<jrn, prep, script>>
  /\ NextOperation(1)
  => ForwardInv'
<1> SUFFICES ASSUME TypeOK, LogInv, prep = <<>>, jrn.state = "RUNNING", jrn' = jrn, prep' = prep,
                    script' = script, NextOperation(1)
             PROVE  ForwardInv'
  OBVIOUS
<1>1. Len(prep) = 0 /\ jrn.prepared = jrn.applied
  BY Numbering
<1>2. CASE 1 <= Len(script)
  <2>1. pc' = "prepare" /\ cur' = 1
    BY <1>2 DEF NextOperation, GotoOp
  <2>2. cur' = Len(prep') + 1 /\ cur' <= Len(script') /\ jrn'.prepared = jrn'.applied
    BY <1>1, <1>2, <2>1
  <2> QED BY <2>1, <2>2 DEF ForwardInv, Preparing, Applying
<1>3. CASE ~(1 <= Len(script))
  <2>1. pc' = "transition"
    BY <1>3 DEF NextOperation, Transition
  <2> QED BY <2>1 DEF ForwardInv, Preparing, Applying
<1> QED BY <1>2, <1>3

\* What a frame adds to what the reader makes of the journal.
Adds(p, a, rp, ra, c, rb) ==
  /\ jrn'.ok /\ jrn'.state = jrn.state
  /\ jrn'.prepared = jrn.prepared \cup p /\ jrn'.applied = jrn.applied \cup a
  /\ jrn'.rollbackPrepared = jrn.rollbackPrepared \cup rp
  /\ jrn'.rollbackApplied = jrn.rollbackApplied \cup ra
  /\ (jrn'.committed <=> jrn.committed \/ c)
  /\ (jrn'.rolledBack <=> jrn.rolledBack \/ rb)

\* Every frame but the one of a state is accepted where the program appends it
\* (journal.go, validateReference and validateSemantics).
LEMMA FrameEffect ==
  TypeOK /\ CtlInv =>
    /\ pc = "log prepared" /\ jrn' = Extend(jrn, OpRecord("OP_PREPARED", cur))
         => Adds({cur}, {}, {}, {}, FALSE, FALSE)
    /\ pc = "log applied" /\ jrn' = Extend(jrn, OpRecord("OP_APPLIED", cur))
         => Adds({}, {cur}, {}, {}, FALSE, FALSE)
    /\ pc = "assert" /\ jrn' = Extend(jrn, Marker("ASSERT_RESULT"))
         => Adds({}, {}, {}, {}, FALSE, FALSE)
    /\ pc = "log commit" /\ jrn' = Extend(jrn, Marker("TX_COMMIT"))
         => Adds({}, {}, {}, {}, TRUE, FALSE)
    /\ pc = "log undo" /\ jrn' = Extend(jrn, OpRecord("ROLLBACK_PREPARED", cur))
         => Adds({}, {}, {cur}, {}, FALSE, FALSE)
    /\ pc = "log undone" /\ jrn' = Extend(jrn, OpRecord("ROLLBACK_APPLIED", cur))
         => Adds({}, {}, {}, {cur}, FALSE, FALSE)
    /\ pc = "log complete" /\ jrn' = Extend(jrn, Marker("TX_ROLLBACK_COMPLETE"))
         => Adds({}, {}, {}, {}, FALSE, TRUE)
<1> SUFFICES ASSUME TypeOK, CtlInv
             PROVE  /\ pc = "log prepared" /\ jrn' = Extend(jrn, OpRecord("OP_PREPARED", cur))
                         => Adds({cur}, {}, {}, {}, FALSE, FALSE)
                    /\ pc = "log applied" /\ jrn' = Extend(jrn, OpRecord("OP_APPLIED", cur))
                         => Adds({}, {cur}, {}, {}, FALSE, FALSE)
                    /\ pc = "assert" /\ jrn' = Extend(jrn, Marker("ASSERT_RESULT"))
                         => Adds({}, {}, {}, {}, FALSE, FALSE)
                    /\ pc = "log commit" /\ jrn' = Extend(jrn, Marker("TX_COMMIT"))
                         => Adds({}, {}, {}, {}, TRUE, FALSE)
                    /\ pc = "log undo" /\ jrn' = Extend(jrn, OpRecord("ROLLBACK_PREPARED", cur))
                         => Adds({}, {}, {cur}, {}, FALSE, FALSE)
                    /\ pc = "log undone" /\ jrn' = Extend(jrn, OpRecord("ROLLBACK_APPLIED", cur))
                         => Adds({}, {}, {}, {cur}, FALSE, FALSE)
                    /\ pc = "log complete" /\ jrn' = Extend(jrn, Marker("TX_ROLLBACK_COMPLETE"))
                         => Adds({}, {}, {}, {}, FALSE, TRUE)
  OBVIOUS
<1>1. jrn \in Journals /\ cur \in Nat
  BY DEF TypeOK
<1>2. ASSUME pc = "log prepared", jrn' = Extend(jrn, OpRecord("OP_PREPARED", cur))
      PROVE  Adds({cur}, {}, {}, {}, FALSE, FALSE)
  <2> DEFINE r == OpRecord("OP_PREPARED", cur)
  <2>1. jrn.ok /\ ReferenceOK(jrn, r) /\ SemanticsOK(jrn, r) /\ jrn' = Extend(jrn, r)
    BY <1>1, <1>2, Numbering DEF CtlInv, HealthInv, Healthy, Failing, ForwardInv, BackwardInv,
       StatusInv, Decided, ReferenceOK, SemanticsOK, OpRecord, Preparing, Applying,
       Undoing, Backward, Working
  <2>2. /\ jrn'.ok /\ jrn'.state = jrn.state
        /\ jrn'.prepared = jrn.prepared \cup {cur}
        /\ jrn'.applied = jrn.applied
        /\ jrn'.rollbackPrepared = jrn.rollbackPrepared
        /\ jrn'.rollbackApplied = jrn.rollbackApplied
        /\ (jrn'.committed <=> jrn.committed) /\ (jrn'.rolledBack <=> jrn.rolledBack)
    BY <1>1, <2>1, AcceptedOp
  <2> QED BY <2>2 DEF Adds
<1>3. ASSUME pc = "log applied", jrn' = Extend(jrn, OpRecord("OP_APPLIED", cur))
      PROVE  Adds({}, {cur}, {}, {}, FALSE, FALSE)
  <2> DEFINE r == OpRecord("OP_APPLIED", cur)
  <2>1. jrn.ok /\ ReferenceOK(jrn, r) /\ SemanticsOK(jrn, r) /\ jrn' = Extend(jrn, r)
    BY <1>1, <1>3, Numbering DEF CtlInv, HealthInv, Healthy, Failing, ForwardInv, BackwardInv,
       StatusInv, Decided, ReferenceOK, SemanticsOK, OpRecord, Preparing, Applying,
       Undoing, Backward, Working
  <2>2. /\ jrn'.ok /\ jrn'.state = jrn.state
        /\ jrn'.prepared = jrn.prepared
        /\ jrn'.applied = jrn.applied \cup {cur}
        /\ jrn'.rollbackPrepared = jrn.rollbackPrepared
        /\ jrn'.rollbackApplied = jrn.rollbackApplied
        /\ (jrn'.committed <=> jrn.committed) /\ (jrn'.rolledBack <=> jrn.rolledBack)
    BY <1>1, <2>1, AcceptedOp
  <2> QED BY <2>2 DEF Adds
<1>4. ASSUME pc = "assert", jrn' = Extend(jrn, Marker("ASSERT_RESULT"))
      PROVE  Adds({}, {}, {}, {}, FALSE, FALSE)
  <2> DEFINE r == Marker("ASSERT_RESULT")
  <2>1. jrn.ok /\ ReferenceOK(jrn, r) /\ SemanticsOK(jrn, r) /\ jrn' = Extend(jrn, r)
    BY <1>1, <1>4, Numbering DEF CtlInv, HealthInv, Healthy, Failing, ForwardInv, BackwardInv,
       StatusInv, Decided, ReferenceOK, SemanticsOK, Marker, Preparing, Applying,
       Undoing, Backward, Working
  <2> QED BY <1>1, <2>1, AcceptedMarker DEF Adds
<1>5. ASSUME pc = "log commit", jrn' = Extend(jrn, Marker("TX_COMMIT"))
      PROVE  Adds({}, {}, {}, {}, TRUE, FALSE)
  <2> DEFINE r == Marker("TX_COMMIT")
  <2>1. jrn.ok /\ ReferenceOK(jrn, r) /\ SemanticsOK(jrn, r) /\ jrn' = Extend(jrn, r)
    BY <1>1, <1>5, Numbering DEF CtlInv, HealthInv, Healthy, Failing, ForwardInv, BackwardInv,
       StatusInv, Decided, ReferenceOK, SemanticsOK, Marker, Preparing, Applying,
       Undoing, Backward, Working
  <2> QED BY <1>1, <2>1, AcceptedMarker DEF Adds
<1>6. ASSUME pc = "log undo", jrn' = Extend(jrn, OpRecord("ROLLBACK_PREPARED", cur))
      PROVE  Adds({}, {}, {cur}, {}, FALSE, FALSE)
  <2> DEFINE r == OpRecord("ROLLBACK_PREPARED", cur)
  <2>1. jrn.ok /\ ReferenceOK(jrn, r) /\ SemanticsOK(jrn, r) /\ jrn' = Extend(jrn, r)
    BY <1>1, <1>6, Numbering DEF CtlInv, HealthInv, Healthy, Failing, ForwardInv, BackwardInv,
       StatusInv, Decided, ReferenceOK, SemanticsOK, OpRecord, Preparing, Applying,
       Undoing, Backward, Working
  <2>2. /\ jrn'.ok /\ jrn'.state = jrn.state
        /\ jrn'.prepared = jrn.prepared
        /\ jrn'.applied = jrn.applied
        /\ jrn'.rollbackPrepared = jrn.rollbackPrepared \cup {cur}
        /\ jrn'.rollbackApplied = jrn.rollbackApplied
        /\ (jrn'.committed <=> jrn.committed) /\ (jrn'.rolledBack <=> jrn.rolledBack)
    BY <1>1, <2>1, AcceptedOp
  <2> QED BY <2>2 DEF Adds
<1>7. ASSUME pc = "log undone", jrn' = Extend(jrn, OpRecord("ROLLBACK_APPLIED", cur))
      PROVE  Adds({}, {}, {}, {cur}, FALSE, FALSE)
  <2> DEFINE r == OpRecord("ROLLBACK_APPLIED", cur)
  <2>1. jrn.ok /\ ReferenceOK(jrn, r) /\ SemanticsOK(jrn, r) /\ jrn' = Extend(jrn, r)
    BY <1>1, <1>7, Numbering DEF CtlInv, HealthInv, Healthy, Failing, ForwardInv, BackwardInv,
       StatusInv, Decided, ReferenceOK, SemanticsOK, OpRecord, Preparing, Applying,
       Undoing, Backward, Working
  <2>2. /\ jrn'.ok /\ jrn'.state = jrn.state
        /\ jrn'.prepared = jrn.prepared
        /\ jrn'.applied = jrn.applied
        /\ jrn'.rollbackPrepared = jrn.rollbackPrepared
        /\ jrn'.rollbackApplied = jrn.rollbackApplied \cup {cur}
        /\ (jrn'.committed <=> jrn.committed) /\ (jrn'.rolledBack <=> jrn.rolledBack)
    BY <1>1, <2>1, AcceptedOp
  <2> QED BY <2>2 DEF Adds
<1>8. ASSUME pc = "log complete", jrn' = Extend(jrn, Marker("TX_ROLLBACK_COMPLETE"))
      PROVE  Adds({}, {}, {}, {}, FALSE, TRUE)
  <2> DEFINE r == Marker("TX_ROLLBACK_COMPLETE")
  <2>1. jrn.ok /\ ReferenceOK(jrn, r) /\ SemanticsOK(jrn, r) /\ jrn' = Extend(jrn, r)
    BY <1>1, <1>8, Numbering DEF CtlInv, HealthInv, Healthy, Failing, ForwardInv, BackwardInv,
       StatusInv, Decided, ReferenceOK, SemanticsOK, Marker, Preparing, Applying,
       Undoing, Backward, Working
  <2> QED BY <1>1, <2>1, AcceptedMarker DEF Adds
<1> QED BY <1>2, <1>3, <1>4, <1>5, <1>6, <1>7, <1>8

\* What the journal keeps when only its state, or its readability, changes.
Remembers ==
  /\ jrn'.prepared = jrn.prepared /\ jrn'.applied = jrn.applied
  /\ jrn'.rollbackPrepared = jrn.rollbackPrepared
  /\ jrn'.rollbackApplied = jrn.rollbackApplied
  /\ (jrn'.committed <=> jrn.committed) /\ (jrn'.rolledBack <=> jrn.rolledBack)

\* A frame behind the remains of another changes nothing but the readability.
LEMMA SpoiltEffect ==
  TypeOK /\ jrn' \in {jrn, Corrupted(jrn)} => Remembers /\ jrn'.state = jrn.state
<1> SUFFICES ASSUME TypeOK, jrn' \in {jrn, Corrupted(jrn)}
             PROVE  Remembers /\ jrn'.state = jrn.state
  OBVIOUS
<1>1. CASE jrn' = jrn
  BY <1>1 DEF Remembers
<1>2. CASE jrn' = Corrupted(jrn)
  <2>1. jrn \in Journals
    BY DEF TypeOK
  <2> QED BY <1>2, <2>1, CorruptedFields DEF Remembers
<1> QED BY <1>1, <1>2

\* The frame of a state is accepted, unless an earlier append of this rollback failed
\* (journal.go, validTransition).
LEMMA StateFrameEffect ==
  TypeOK /\ CtlInv /\ pc = "transition" /\ jrn' = Extend(jrn, StateRecord(to)) =>
    /\ Remembers /\ jrn'.state \in {jrn.state, to}
    /\ to # "RECOVERY_FAILED" \/ faults = 0 => jrn'.ok /\ jrn'.state = to
<1> SUFFICES ASSUME TypeOK, CtlInv, pc = "transition", jrn' = Extend(jrn, StateRecord(to))
             PROVE  /\ Remembers /\ jrn'.state \in {jrn.state, to}
                    /\ to # "RECOVERY_FAILED" \/ faults = 0 => jrn'.ok /\ jrn'.state = to
  OBVIOUS
<1> DEFINE r == StateRecord(to)
<1>1. jrn \in Journals /\ to \in States
  BY DEF TypeOK
<1>2. ASSUME to # "RECOVERY_FAILED" \/ faults = 0
      PROVE  jrn.ok /\ ReferenceOK(jrn, r) /\ SemanticsOK(jrn, r)
  <2>1. ReferenceOK(jrn, r) /\ r.type = "TX_STATE" /\ r.state = to
    BY DEF ReferenceOK, StateRecord
  <2>2. CASE to # "RECOVERY_FAILED"
    <3>1. jrn.ok
      BY <2>2 DEF CtlInv, HealthInv, Healthy, Failing
    <3>2. ValidTransition(jrn.state, to)
      BY <2>2 DEF CtlInv, StatusInv
    <3>3. /\ jrn.committed <=> to = "COMMITTED"
          /\ jrn.rolledBack <=> to = "ROLLED_BACK"
          /\ to = "VERIFYING" => jrn.prepared = jrn.applied
      BY <2>2 DEF CtlInv, StatusInv, Due
    <3> QED BY <2>1, <3>1, <3>2, <3>3 DEF SemanticsOK
  <2>3. CASE to = "RECOVERY_FAILED"
    <3>1. jrn.ok /\ jrn.state = "ROLLING_BACK" /\ ~Decided
      BY <1>2, <2>3 DEF CtlInv, HealthInv, StatusInv
    <3>2. ValidTransition(jrn.state, to)
      BY <2>3, <3>1 DEF ValidTransition, Allowed, States
    <3> QED BY <2>1, <2>3, <3>1, <3>2 DEF SemanticsOK, Decided
  <2> QED BY <2>2, <2>3
<1>3. CASE jrn.ok /\ ReferenceOK(jrn, r) /\ SemanticsOK(jrn, r)
  BY <1>1, <1>3, AcceptedState DEF Remembers
<1>4. CASE ~(jrn.ok /\ ReferenceOK(jrn, r) /\ SemanticsOK(jrn, r))
  <2>1. jrn' = Corrupted(jrn)
    BY <1>4 DEF Extend
  <2> QED BY <1>2, <1>4, <2>1, SpoiltEffect
<1> QED BY <1>3, <1>4

\* How the process goes on after an append that failed (txn.go and recovery.go).
LEMMA AppendErrorEffect ==
  TypeOK /\ CtlInv /\ pc \in Appending /\ AppendError =>
    \/ /\ pc' = "stopped" /\ result' \in {"RECOVERY_REQUIRED", "RECOVERY_FAILED"}
       /\ mem'.status = "PLANNED" /\ ~mem'.cleaned
    \/ /\ pc' = "recover" /\ UNCHANGED <<mem, result>> /\ pc = "transition"
       /\ to \in {"RUNNING", "VERIFYING", "COMMITTING"}
    \/ /\ pc' = "transition" /\ to' = "RECOVERY_FAILED" /\ UNCHANGED <<mem, result>>
       /\ mem.status = "ROLLING_BACK"
<1> SUFFICES ASSUME TypeOK, CtlInv, pc \in Appending, AppendError
             PROVE  \/ /\ pc' = "stopped"
                       /\ result' \in {"RECOVERY_REQUIRED", "RECOVERY_FAILED"}
                       /\ mem'.status = "PLANNED" /\ ~mem'.cleaned
                    \/ /\ pc' = "recover" /\ UNCHANGED <<mem, result>> /\ pc = "transition"
                       /\ to \in {"RUNNING", "VERIFYING", "COMMITTING"}
                    \/ /\ pc' = "transition" /\ to' = "RECOVERY_FAILED"
                       /\ UNCHANGED <<mem, result>> /\ mem.status = "ROLLING_BACK"
  OBVIOUS
<1>1. \/ Stop("RECOVERY_REQUIRED") \/ Stop("RECOVERY_FAILED")
      \/ pc = "transition" /\ to \in {"RUNNING", "VERIFYING", "COMMITTING"} /\ RollbackFailure
      \/ pc = "transition" /\ to = "ROLLED_BACK" /\ Fail
      \/ pc \in {"log undo", "log undone", "log complete"} /\ Fail
  <2>1. \/ pc = "transition" /\ StateError
        \/ Stop("RECOVERY_REQUIRED")
        \/ pc \in {"log undo", "log undone", "log complete"} /\ Fail
    BY Zenon DEF AppendError, Appending
  <2>2. StateError => \/ Stop("RECOVERY_REQUIRED") \/ Stop("RECOVERY_FAILED")
                      \/ to \in {"RUNNING", "VERIFYING", "COMMITTING"} /\ RollbackFailure
                      \/ to = "ROLLED_BACK" /\ Fail
    BY Zenon DEF StateError
  <2> QED BY <2>1, <2>2
<1>2. pc = "transition" /\ to = "ROLLED_BACK" => mem.status = "ROLLING_BACK"
  BY DEF CtlInv, StatusInv, ValidTransition, Allowed, States, TypeOK, Journals
<1>3. pc \in {"log undo", "log undone", "log complete"} => mem.status = "ROLLING_BACK"
  BY DEF CtlInv, StatusInv, BackwardInv, Working, Backward, Undoing
<1>4. ASSUME mem.status = "ROLLING_BACK", Fail
      PROVE  pc' = "transition" /\ to' = "RECOVERY_FAILED" /\ UNCHANGED <<mem, result>>
  BY <1>4, FailEffect
<1>5. ASSUME RollbackFailure
      PROVE  pc' = "recover" /\ UNCHANGED <<mem, result>>
  BY <1>5 DEF RollbackFailure
<1> QED BY <1>1, <1>2, <1>3, <1>4, <1>5, StopEffect

\* An append that failed leaves a journal that says of the operations what it said
\* before, or what the frame adds (journal.go, Append).
LEMMA AppendedLog ==
  /\ TypeOK /\ CtlInv /\ pc \in Appending /\ WriteFrameError(Frame) /\ script' = script
  /\ prep' = IF pc = "log prepared" /\ jrn'.prepared # jrn.prepared
             THEN Append(prep, Prepare(fs, Op)) ELSE prep
  => LogInv' /\ (jrn.committed => jrn'.committed) /\ (jrn.rolledBack => jrn'.rolledBack)
<1> SUFFICES ASSUME TypeOK, CtlInv, pc \in Appending, WriteFrameError(Frame), script' = script,
                    prep' = IF pc = "log prepared" /\ jrn'.prepared # jrn.prepared
                            THEN Append(prep, Prepare(fs, Op)) ELSE prep
             PROVE  /\ LogInv'
                    /\ (jrn.committed => jrn'.committed) /\ (jrn.rolledBack => jrn'.rolledBack)
  OBVIOUS
<1>1. jrn' \in {jrn, Corrupted(jrn)} \/ jrn' = Extend(jrn, Frame)
  BY DEF WriteFrameError
<1>2. CASE jrn' \in {jrn, Corrupted(jrn)}
  <2>1. Remembers /\ jrn'.state = jrn.state
    BY <1>2, SpoiltEffect
  <2>2. prep' = prep
    BY <2>1 DEF Remembers
  <2> QED BY <2>1, <2>2 DEF Remembers, CtlInv, LogInv
<1>3. CASE pc = "transition" /\ jrn' = Extend(jrn, Frame)
  <2>1. Frame = StateRecord(to)
    BY <1>3, Zenon DEF Frame
  <2>2. Remembers /\ jrn'.state \in {jrn.state, to} /\ prep' = prep
    BY <1>3, <2>1, StateFrameEffect
  <2> QED BY <1>3, <2>2 DEF Remembers, CtlInv, LogInv, StatusInv, Due
<1>4. CASE pc = "log prepared" /\ jrn' = Extend(jrn, Frame)
  <2>1. Frame = OpRecord("OP_PREPARED", cur)
    BY <1>4, Zenon DEF Frame
  <2>2. Adds({cur}, {}, {}, {}, FALSE, FALSE)
    BY <1>4, <2>1, FrameEffect
  <2>3. jrn'.prepared = jrn.prepared \cup {cur}
    BY <2>2 DEF Adds
  <2>4. pc \in Preparing
    BY <1>4 DEF Preparing
  <2>5. /\ prep' = Append(prep, Prepare(fs, Op)) /\ Len(prep') = Len(prep) + 1
        /\ jrn'.prepared = 1..Len(prep') /\ Len(prep') <= Len(script')
    BY <1>4, <2>3, <2>4, NextNumber, OneMore
  <2> QED BY <2>2, <2>5 DEF Adds, CtlInv, LogInv
<1>5. CASE pc = "log applied" /\ jrn' = Extend(jrn, Frame)
  <2>1. Frame = OpRecord("OP_APPLIED", cur)
    BY <1>5, Zenon DEF Frame
  <2>2. Adds({}, {cur}, {}, {}, FALSE, FALSE)
    BY <1>5, <2>1, FrameEffect
  <2>3. cur \in jrn.prepared /\ prep' = prep
    BY <1>5, Numbering DEF CtlInv, ForwardInv, Applying
  <2> QED BY <2>2, <2>3 DEF Adds, CtlInv, LogInv
<1>6. CASE pc = "assert" /\ jrn' = Extend(jrn, Frame)
  <2>1. Frame = Marker("ASSERT_RESULT")
    BY <1>6, Zenon DEF Frame
  <2>2. Adds({}, {}, {}, {}, FALSE, FALSE)
    BY <1>6, <2>1, FrameEffect
  <2>3. prep' = prep
    BY <1>6
  <2> QED BY <2>2, <2>3 DEF Adds, CtlInv, LogInv
<1>7. CASE pc = "log commit" /\ jrn' = Extend(jrn, Frame)
  <2>1. Frame = Marker("TX_COMMIT")
    BY <1>7, Zenon DEF Frame
  <2>2. Adds({}, {}, {}, {}, TRUE, FALSE)
    BY <1>7, <2>1, FrameEffect
  <2>3. prep' = prep
    BY <1>7
  <2> QED BY <2>2, <2>3 DEF Adds, CtlInv, LogInv
<1>8. CASE pc = "log undo" /\ jrn' = Extend(jrn, Frame)
  <2>1. Frame = OpRecord("ROLLBACK_PREPARED", cur)
    BY <1>8, Zenon DEF Frame
  <2>2. Adds({}, {}, {cur}, {}, FALSE, FALSE)
    BY <1>8, <2>1, FrameEffect
  <2>3. cur \in jrn.prepared /\ prep' = prep
    BY <1>8, Numbering DEF CtlInv, BackwardInv, Backward, Undoing, TypeOK
  <2> QED BY <2>2, <2>3 DEF Adds, CtlInv, LogInv
<1>9. CASE pc = "log undone" /\ jrn' = Extend(jrn, Frame)
  <2>1. Frame = OpRecord("ROLLBACK_APPLIED", cur)
    BY <1>9, Zenon DEF Frame
  <2>2. Adds({}, {}, {}, {cur}, FALSE, FALSE)
    BY <1>9, <2>1, FrameEffect
  <2>3. cur \in jrn.rollbackPrepared /\ prep' = prep
    BY <1>9, Numbering DEF CtlInv, BackwardInv, Backward, Undoing
  <2> QED BY <2>2, <2>3 DEF Adds, CtlInv, LogInv
<1>10. CASE pc = "log complete" /\ jrn' = Extend(jrn, Frame)
  <2>1. Frame = Marker("TX_ROLLBACK_COMPLETE")
    BY <1>10, Zenon DEF Frame
  <2>2. Adds({}, {}, {}, {}, FALSE, TRUE)
    BY <1>10, <2>1, FrameEffect
  <2>3. prep' = prep
    BY <1>10
  <2> QED BY <2>2, <2>3 DEF Adds, CtlInv, LogInv
<1> QED BY <1>1, <1>2, <1>3, <1>4, <1>5, <1>6, <1>7, <1>8, <1>9, <1>10 DEF Appending

--------------------------------------------------------------------------------
\* Every step preserves the type invariant of UndoTxn, part by part.
FilesOK ==
  /\ fs \in [Paths -> Entries]
  /\ tmp \in [Slots -> Entries]
  /\ bak \in [Slots -> Entries]

LogOK ==
  /\ jrn \in Journals
  /\ tail \in {"clean", "torn"}
  /\ prep \in Seq(Descriptors)
  /\ stale \in BOOLEAN

StatusOK ==
  /\ meta \in Metadata
  /\ lock \in BOOLEAN
  /\ mem \in Metadata
  /\ to \in States

ControlOK ==
  /\ pc \in Locations
  /\ mode \in {"run", "undo", "finish"}
  /\ result \in Results
  /\ side \in {"before", "after"}

WorkOK == cur \in Nat /\ todo \in Seq(Calls)

CountsOK ==
  /\ script \in Seq(Operations)
  /\ origin \in [Paths -> Entries]
  /\ crashes \in Nat /\ faults \in Nat

\* The type invariant of UndoTxn in parts, one for each kind of state.
LEMMA TypeParts ==
  TypeOK <=> FilesOK /\ LogOK /\ StatusOK /\ ControlOK /\ WorkOK /\ CountsOK
BY DEF TypeOK, FilesOK, LogOK, StatusOK, ControlOK, WorkOK, CountsOK

\* The callers of Transition stop, roll back or give up (txn.go and recovery.go).
LEMMA StateErrorCases ==
  StateError => \/ Stop("RECOVERY_REQUIRED") \/ Stop("RECOVERY_FAILED")
                \/ RollbackFailure \/ Fail
BY Zenon DEF StateError

\* And so do those of Append (txn.go and recovery.go).
LEMMA AppendErrorCases ==
  AppendError => \/ Stop("RECOVERY_REQUIRED") \/ Stop("RECOVERY_FAILED")
                 \/ RollbackFailure \/ Fail
BY StateErrorCases, Zenon DEF AppendError

\* Reconcile writes the metadata and nothing else (state.go, ReconcileStatus).
LEMMA ReconcileFrame ==
  Reconcile => meta' = mem /\ UNCHANGED <<files, log, lock, stale, given, crashes, faults>>
BY Zenon DEF Reconcile

\* A failure at the end of the transaction is reported or given up on (txn.go).
LEMMA EndFailsCases ==
  EndFails =>
    /\ Fault /\ EndAttempted /\ UNCHANGED <<fs, tmp, log, stale, given, crashes>>
    /\ Stop("RECOVERY_REQUIRED") \/ Stop("RECOVERY_FAILED") \/ Fail
BY Zenon DEF EndFails

\* The script never changes, and the counters of the environment grow one by one.
LEMMA CountsType == CountsOK /\ [Next]_vars => CountsOK'
<1> SUFFICES ASSUME [Next]_vars
             PROVE  /\ UNCHANGED given /\ faults' \in {faults, faults + 1}
                    /\ crashes' \in {crashes, crashes + 1}
  BY DEF CountsOK, given
<1> USE DEF Refused, Fault, CallFrame
<1>1. CASE Execute
  BY <1>1 DEF Execute, Begin, PlanAccepted, PlanRejected, PrepareOperation, PrepareFails,
     LogPrepared, StartApply, StartApplyFails, FinishApply, VerifyOperation, VerifyFails,
     LogApplied, Assert, LogCommit
<1>2. CASE FileCall
  BY <1>2 DEF FileCall, DoCreate, DoFill, DoRemove, DoRemoveSome, DoInstall, DoRename,
     DoFailedRename, DoMkdir, DoRmdir, DoCheckAbsent, CallFails
<1>3. CASE Recover
  BY <1>3, ReconcileFrame DEF Recover, OpenJournal, OpenJournalFails, ReconcileFails,
     InspectDone, Inspect, InspectRefused, InspectFails, LogUndo, StartUndo, NothingToUndo,
     UndoRefused, FinishUndo, Recheck, RecheckFails, LogUndone, AllUndone, LogComplete,
     GiveUp, GiveUpFails
<1>4. CASE Durable
  BY <1>4, EndFailsCases DEF Durable, AppendState, PersistState, PersistStateFails,
     AppendFails, RemoveBackups, RecordCleanup, Release
<1>5. CASE RecoverCommand \/ Crash \/ Done \/ UNCHANGED vars
  BY <1>5 DEF RecoverCommand, Crash, Done, vars
<1> QED BY <1>1, <1>2, <1>3, <1>4, <1>5 DEF Next, Run

\* Control stays at the places of the code, with the results the commands answer.
LEMMA ControlType == ControlOK /\ [Next]_vars => ControlOK'
<1> SUFFICES ASSUME ControlOK, [Next]_vars PROVE ControlOK'
  OBVIOUS
<1> USE DEF Goto, GotoOp, Transition, Stop, RollbackFailure, ControlOK, CallFrame, ctl,
   work, Locations, Appending, Results
<1>1. CASE Execute
  BY <1>1 DEF Execute, Begin, PlanAccepted, PlanRejected, PrepareOperation, PrepareFails,
     LogPrepared, StartApply, StartApplyFails, FinishApply, VerifyOperation, VerifyFails,
     LogApplied, Assert, LogCommit, NextOperation, NextAssertion
<1>2. CASE FileCall
  BY <1>2 DEF FileCall, DoCreate, DoFill, DoRemove, DoRemoveSome, DoInstall, DoRename,
     DoFailedRename, DoMkdir, DoRmdir, DoCheckAbsent, CallFails, Fail
<1>3. CASE OpenJournal \/ OpenJournalFails
  BY <1>3 DEF OpenJournal, OpenJournalFails
<1>4. CASE ReconcileFails
  BY <1>4 DEF ReconcileFails, Fail
<1>5. CASE InspectDone \/ InspectRefused \/ InspectFails
  BY <1>5 DEF InspectDone, InspectRefused, InspectFails, Fail
<1>6. CASE Inspect
  BY <1>6 DEF Inspect, Here, Classify, ClassifyMove, ClassifyMkdir, CanInspect
<1>7. CASE LogUndo \/ StartUndo \/ NothingToUndo \/ UndoRefused \/ FinishUndo
     \/ Recheck \/ RecheckFails \/ LogUndone \/ AllUndone \/ LogComplete \/ GiveUp
     \/ GiveUpFails
  BY <1>7 DEF LogUndo, StartUndo, NothingToUndo, UndoRefused, FinishUndo, Recheck,
     RecheckFails, LogUndone, AllUndone, LogComplete, GiveUp, GiveUpFails, Fail
<1>8. CASE Reconcile
  BY <1>8, ReconcileCases
<1>9. CASE AppendState \/ RemoveBackups \/ RecordCleanup
  BY <1>9 DEF AppendState, RemoveBackups, RecordCleanup
<1>10. CASE PersistState
  BY <1>10, AfterStateCases DEF PersistState, NextOperation, NextAssertion
<1>11. CASE PersistStateFails
  BY <1>11, StateErrorCases DEF PersistStateFails, Fail
<1>12. CASE AppendFails
  BY <1>12, AppendErrorCases DEF AppendFails, Fail
<1>13. CASE EndFails
  BY <1>13, EndFailsCases DEF Fail
<1>14. CASE Release
  BY <1>14 DEF Release, Terminal
<1>15. CASE RecoverCommand \/ Crash \/ Done \/ UNCHANGED vars
  BY <1>15 DEF RecoverCommand, Crash, Done, vars
<1> QED BY <1>1, <1>2, <1>3, <1>4, <1>5, <1>6, <1>7, <1>8, <1>9, <1>10, <1>11, <1>12,
   <1>13, <1>14, <1>15 DEF Next, Run, Recover, Durable

\* What the code assigns to fields of the metadata keeps its type (state.go, Metadata).
LEMMA MetadataTypes ==
  /\ Fresh \in Metadata
  /\ \A m \in Metadata, s \in States : [m EXCEPT !.status = s] \in Metadata
  /\ \A m \in Metadata : [m EXCEPT !.cleaned = TRUE] \in Metadata
BY DEF Fresh, Metadata, States

\* The metadata on disk and in memory, and the status to enter, keep their types.
LEMMA StatusType == LogOK /\ StatusOK /\ [Next]_vars => StatusOK'
<1> SUFFICES ASSUME LogOK, StatusOK, [Next]_vars PROVE StatusOK'
  OBVIOUS
<1>1. \A r : Stop(r) => to' \in States /\ mem' \in Metadata
  BY MetadataTypes DEF Stop, States
<1>2. Fail => to' \in States /\ mem' \in Metadata
  <2>1. mem \in Metadata /\ to \in States /\ "RECOVERY_FAILED" \in States
    BY DEF StatusOK, States
  <2> QED BY <2>1, MetadataTypes DEF Fail
<1>3. RollbackFailure => UNCHANGED <<to, mem>>
  BY DEF RollbackFailure
<1>4. \A s \in States : Transition(s) => to' \in States /\ mem' = mem
  BY DEF Transition
<1>5. \A l, n : Goto(l) \/ GotoOp(l, n) => UNCHANGED <<to, mem>>
  BY DEF Goto, GotoOp
<1>6. {"PREPARED", "RUNNING", "VERIFYING", "COMMITTING", "COMMITTED", "ROLLING_BACK",
   "ROLLED_BACK"} \subseteq States
  BY DEF States
<1>7. WriteMetadataFails => meta' \in Metadata /\ lock' \in BOOLEAN
  BY DEF WriteMetadataFails, StatusOK
<1> USE DEF StatusOK, store, ctl
<1>8. CASE Execute
  BY <1>8, <1>3, <1>4, <1>5, <1>6 DEF Execute, Begin, PlanAccepted, PlanRejected,
     PrepareOperation, PrepareFails, LogPrepared, StartApply, StartApplyFails, FinishApply,
     VerifyOperation, VerifyFails, LogApplied, Assert, LogCommit, NextOperation,
     NextAssertion
<1>9. CASE FileCall
  BY <1>9, <1>2, <1>3 DEF FileCall, DoCreate, DoFill, DoRemove, DoRemoveSome, DoInstall,
     DoRename, DoFailedRename, DoMkdir, DoRmdir, DoCheckAbsent, CallFails, CallFrame
<1>10. CASE OpenJournal
  <2>1. jrn.state \in States /\ "COMMITTED" \in States /\ "ROLLED_BACK" \in States
    BY <1>6 DEF LogOK, Journals
  <2>2. meta \in Metadata
    OBVIOUS
  <2>3. mem' \in Metadata
    BY <1>10, <2>1, <2>2, MetadataTypes DEF OpenJournal
  <2> QED BY <1>10, <2>3 DEF OpenJournal
<1>11. CASE Reconcile
  BY <1>11, <1>4, <1>5, <1>6, ReconcileCases, ReconcileFrame
<1>12. CASE Recover /\ ~OpenJournal /\ ~Reconcile
  BY <1>12, <1>1, <1>2, <1>4, <1>5, <1>6, <1>7 DEF Recover, OpenJournal, OpenJournalFails,
     ReconcileFails, InspectDone, Inspect, InspectRefused, InspectFails, LogUndo,
     StartUndo, NothingToUndo, UndoRefused, FinishUndo, Recheck, RecheckFails, LogUndone,
     AllUndone, LogComplete, GiveUp, GiveUpFails
<1>13. CASE AppendState
  <2>1. mem' \in Metadata
    BY <1>13, MetadataTypes DEF AppendState
  <2> QED BY <1>13, <2>1 DEF AppendState
<1>14. CASE PersistState
  BY <1>14, <1>1, <1>4, <1>5, <1>6, AfterStateCases DEF PersistState, NextOperation,
     NextAssertion
<1>15. CASE PersistStateFails
  BY <1>15, <1>1, <1>2, <1>3, <1>7, StateErrorCases DEF PersistStateFails
<1>16. CASE AppendFails
  BY <1>16, <1>1, <1>2, <1>3, AppendErrorCases DEF AppendFails
<1>17. CASE EndFails
  BY <1>17, <1>1, <1>2, EndFailsCases DEF EndAttempted
<1>18. CASE RemoveBackups
  <2>1. mem' \in Metadata
    BY <1>18, MetadataTypes DEF RemoveBackups
  <2> QED BY <1>18, <2>1 DEF RemoveBackups
<1>19. CASE RecordCleanup \/ Release
  BY <1>19, <1>1, <1>5 DEF RecordCleanup, Release
<1>20. CASE RecoverCommand \/ Crash \/ Done \/ UNCHANGED vars
  BY <1>20, <1>1 DEF RecoverCommand, Crash, Done, vars
<1> QED BY <1>8, <1>9, <1>10, <1>11, <1>12, <1>13, <1>14, <1>15, <1>16, <1>17, <1>18,
   <1>19, <1>20 DEF Next, Run, Durable

\* What the program appends is a frame of the journal (journal.go, Payload).
LEMMA FrameType == TypeOK => Frame \in Records
<1> SUFFICES ASSUME TypeOK PROVE Frame \in Records
  OBVIOUS
<1>1. to \in States /\ cur \in Nat
  BY DEF TypeOK
<1>2. /\ StateRecord(to) \in Records
      /\ OpRecord("OP_PREPARED", cur) \in Records /\ OpRecord("OP_APPLIED", cur) \in Records
      /\ OpRecord("ROLLBACK_PREPARED", cur) \in Records
      /\ OpRecord("ROLLBACK_APPLIED", cur) \in Records
      /\ Marker("ASSERT_RESULT") \in Records /\ Marker("TX_COMMIT") \in Records
      /\ Marker("TX_ROLLBACK_COMPLETE") \in Records
  BY <1>1, FrameTypes DEF RecordTypes
<1> QED BY <1>2, Zenon DEF Frame

\* The journal and the descriptors in it keep their types.
LEMMA LogType == TypeOK /\ CtlInv /\ [Next]_vars => LogOK'
<1> SUFFICES ASSUME TypeOK, CtlInv, [Next]_vars PROVE LogOK'
  OBVIOUS
<1>1. LogOK
  BY TypeParts
<1>2. ASSUME NEW r \in Records
      PROVE  Extend(jrn, r) \in Journals /\ Corrupted(jrn) \in Journals
  BY <1>1, ExtendType DEF LogOK
<1>3. ASSUME NEW r \in Records, WriteFrame(r)
      PROVE  jrn' \in Journals /\ UNCHANGED <<tail, stale>>
  BY <1>1, <1>2, <1>3 DEF WriteFrame, Unread, LogOK
<1>4. /\ StateRecord(to) \in Records
      /\ OpRecord("OP_PREPARED", cur) \in Records /\ OpRecord("OP_APPLIED", cur) \in Records
      /\ OpRecord("ROLLBACK_PREPARED", cur) \in Records
      /\ OpRecord("ROLLBACK_APPLIED", cur) \in Records
      /\ Marker("ASSERT_RESULT") \in Records /\ Marker("TX_COMMIT") \in Records
      /\ Marker("TX_ROLLBACK_COMPLETE") \in Records
  BY FrameTypes DEF TypeOK, RecordTypes
<1>5. CASE AppendState \/ LogApplied \/ Assert \/ LogCommit \/ LogUndo \/ LogUndone
     \/ LogComplete
  <2>1. UNCHANGED prep
    BY <1>5 DEF AppendState, LogApplied, Assert, LogCommit, LogUndo, LogUndone, LogComplete
  <2>2. \E r \in Records : WriteFrame(r)
    BY <1>4, <1>5 DEF AppendState, LogApplied, Assert, LogCommit, LogUndo, LogUndone,
       LogComplete
  <2> QED BY <1>1, <1>3, <2>1, <2>2 DEF LogOK
<1>6. CASE LogPrepared
  <2>1. pc \in Preparing /\ prep' = Append(prep, Prepare(fs, Op))
        /\ WriteFrame(OpRecord("OP_PREPARED", cur))
    BY <1>6 DEF LogPrepared, Preparing
  <2> QED BY <1>1, <1>3, <1>4, <2>1, OneMore DEF LogOK
<1>7. CASE AppendFails
  <2>1. WriteFrameError(Frame) /\ prep' \in {prep, Append(prep, Prepare(fs, Op))}
    BY <1>7 DEF AppendFails
  <2>2. jrn' \in Journals /\ tail' \in {"clean", "torn"} /\ stale' \in BOOLEAN
    BY <1>1, <1>2, <2>1, FrameType DEF WriteFrameError, LogOK
  <2>3. CASE prep' = prep
    BY <1>1, <2>2, <2>3 DEF LogOK
  <2>4. CASE prep' # prep
    <3>1. pc \in Preparing /\ prep' = Append(prep, Prepare(fs, Op))
      BY <1>7, <2>4 DEF AppendFails, Preparing
    <3> QED BY <2>2, <3>1, OneMore DEF LogOK
  <2> QED BY <2>3, <2>4
<1>8. CASE UNCHANGED <<jrn, prep>> /\ tail' \in {tail, "clean",
   "torn"} /\ stale' \in {stale, FALSE}
  BY <1>1, <1>8 DEF LogOK
<1> USE DEF log
<1>9. CASE Execute /\ ~(LogPrepared \/ LogApplied \/ Assert \/ LogCommit)
  BY <1>8, <1>9 DEF Execute, Begin, PlanAccepted, PlanRejected, PrepareOperation,
     PrepareFails, StartApply, StartApplyFails, FinishApply, VerifyOperation, VerifyFails
<1>10. CASE FileCall
  BY <1>8, <1>10 DEF FileCall, DoCreate, DoFill, DoRemove, DoRemoveSome, DoInstall,
     DoRename, DoFailedRename, DoMkdir, DoRmdir, DoCheckAbsent, CallFails, CallFrame
<1>11. CASE Recover /\ ~(LogUndo \/ LogUndone \/ LogComplete)
  BY <1>8, <1>11, ReconcileFrame DEF Recover, OpenJournal, OpenJournalFails,
     ReconcileFails, InspectDone, Inspect, InspectRefused, InspectFails, StartUndo,
     NothingToUndo, UndoRefused, FinishUndo, Recheck, RecheckFails, AllUndone, GiveUp,
     GiveUpFails
<1>12. CASE Durable /\ ~(AppendState \/ AppendFails)
  BY <1>8, <1>12, EndFailsCases DEF Durable, PersistState, PersistStateFails,
     RemoveBackups, RecordCleanup, Release
<1>13. CASE RecoverCommand \/ Crash \/ Done \/ UNCHANGED vars
  BY <1>8, <1>13 DEF RecoverCommand, Crash, Done, vars
<1> QED BY <1>5, <1>6, <1>7, <1>9, <1>10, <1>11, <1>12, <1>13 DEF Next, Run

\* The operation being applied or rolled back is one of those prepared.
LEMMA Current ==
  TypeOK /\ CtlInv /\ cur > 0 /\ pc \in Applying \cup Backward =>
    cur \in 1..Len(prep) /\ cur \in Ops /\ D \in Descriptors
<1> SUFFICES ASSUME TypeOK, CtlInv, cur > 0, pc \in Applying \cup Backward
             PROVE  cur \in 1..Len(prep) /\ cur \in Ops /\ D \in Descriptors
  OBVIOUS
<1>1. Len(prep) \in Nat /\ Len(script) \in Nat /\ cur \in Nat
  BY DEF TypeOK
<1>2. cur <= Len(prep)
  <2>1. CASE pc \in Applying
    <3>1. cur = Len(prep)
      BY <2>1 DEF CtlInv, ForwardInv
    <3> QED BY <1>1, <3>1
  <2>2. CASE pc \in Backward
    BY <2>2 DEF CtlInv, BackwardInv
  <2> QED BY <2>1, <2>2
<1>3. Len(prep) <= Len(script) /\ Len(script) <= MaxOps
  BY DEF CtlInv, LogInv
<1>4. cur \in 1..Len(prep) /\ cur \in Ops
  BY <1>1, <1>2, <1>3, BoundsAssumption DEF Ops
<1>5. prep \in Seq(Descriptors)
  BY DEF TypeOK
<1> QED BY <1>4, <1>5 DEF D

\* The next file system call is one of the engine's, on temporaries of an operation.
LEMMA CurrentCall ==
  ASSUME TypeOK, CtlInv, pc \in {"applying", "undoing"}, todo # <<>>
  PROVE  TheCall \in Calls /\ Slot \in Slots /\ Tail(todo) \in Seq(Calls)
<1>1. todo \in Seq(Calls)
  BY DEF TypeOK
<1>2. TheCall \in Calls /\ Tail(todo) \in Seq(Calls)
  BY <1>1, HeadTailProperties DEF TheCall
<1>3. cur > 0
  BY DEF CtlInv, ForwardInv, BackwardInv, Applying, Undoing
<1>4. cur \in Ops
  BY <1>3, Current DEF Applying, Backward, Undoing
<1>5. TheCall.role \in Roles
  BY <1>2 DEF Calls
<1> QED BY <1>2, <1>4, <1>5 DEF Slot, Slots

\* The list of calls still to make, and the number of the operation, keep their types.
LEMMA WorkType == TypeOK /\ CtlInv /\ [Next]_vars => WorkOK'
<1> SUFFICES ASSUME TypeOK, CtlInv, [Next]_vars PROVE WorkOK'
  OBVIOUS
<1>1. cur \in Nat /\ todo \in Seq(Calls) /\ <<>> \in Seq(Calls) /\ Len(prep) \in Nat
  BY EmptySeq DEF TypeOK
<1>2. \A l : Goto(l) \/ Transition(l) => WorkOK'
  BY <1>1 DEF Goto, Transition, work, WorkOK
<1>3. \A l : \A n \in Nat : GotoOp(l, n) => WorkOK'
  BY <1>1 DEF GotoOp, WorkOK
<1>4. \A r : Stop(r) => WorkOK'
  BY <1>1 DEF Stop, WorkOK
<1>5. Fail \/ RollbackFailure => WorkOK'
  BY <1>1 DEF Fail, RollbackFailure, WorkOK
<1>6. UNCHANGED work => WorkOK'
  BY <1>1 DEF work, WorkOK
<1>7. \A n \in Nat : NextOperation(n) \/ NextAssertion(n) => WorkOK'
  BY <1>2, <1>3 DEF NextOperation, NextAssertion
<1>8. CASE StartApply \/ StartUndo
  <2>1. cur > 0 /\ pc \in Applying \cup Backward
    BY <1>8 DEF StartApply, StartUndo, CtlInv, ForwardInv, BackwardInv, Applying, Backward,
       Undoing
  <2>2. D \in Descriptors
    BY <2>1, Current
  <2>3. cur' = cur /\ todo' \in {ApplyCalls(D), UndoCalls(D)}
    BY <1>8 DEF StartApply, StartUndo
  <2> QED BY <1>1, <2>2, <2>3, CallsType DEF WorkOK
<1>9. CASE Execute /\ ~StartApply
  <2>1. cur + 1 \in Nat
    BY <1>1
  <2>2. CASE LogApplied \/ Assert
    <3>1. NextOperation(cur + 1) \/ NextAssertion(cur + 1) \/ RollbackFailure
      BY <2>2 DEF LogApplied, Assert
    <3> QED BY <1>5, <1>7, <2>1, <3>1
  <2>3. CASE ~(LogApplied \/ Assert)
    BY <1>2, <1>5, <1>9, <2>3 DEF Execute, Begin, PlanAccepted, PlanRejected,
       PrepareOperation, PrepareFails, LogPrepared, StartApplyFails, FinishApply,
       VerifyOperation, VerifyFails, LogCommit
  <2> QED BY <2>2, <2>3
<1>10. CASE DoFailedRename
  <2>1. cur > 0 /\ pc \in Applying \cup Backward
    BY <1>10 DEF DoFailedRename, Calling, CtlInv, ForwardInv, Applying
  <2>2. D \in Descriptors
    BY <2>1, Current
  <2>3. cur' = cur /\ todo' = AfterFailedRename(D, ~SameDevice)
    BY <1>10 DEF DoFailedRename
  <2>4. AfterFailedRename(D, ~SameDevice) \in Seq(Calls)
    BY <2>2, CallsType
  <2> QED BY <1>1, <2>3, <2>4 DEF WorkOK
<1>11. CASE CallFails
  BY <1>5, <1>11 DEF CallFails
<1>12. CASE DoRemoveSome
  BY <1>1, <1>12 DEF DoRemoveSome, CallFrame, WorkOK
<1>13. CASE FileCall /\ ~(DoFailedRename \/ CallFails \/ DoRemoveSome)
  <2>1. pc \in {"applying", "undoing"} /\ todo # <<>> /\ todo' = Tail(todo) /\ cur' = cur
    BY <1>13 DEF FileCall, DoCreate, DoFill, DoRemove, DoInstall, DoRename, DoMkdir,
       DoRmdir, DoCheckAbsent, Calling, Returned, CallFrame
  <2> QED BY <1>1, <2>1, CurrentCall DEF WorkOK
<1>14. CASE InspectDone \/ LogUndone
  <2>1. cur > 0 /\ GotoOp("inspect", cur - 1)
    BY <1>14 DEF InspectDone, LogUndone, CtlInv, BackwardInv, Undoing
  <2>2. cur - 1 \in Nat
    BY <1>1, <2>1
  <2> QED BY <1>3, <2>1, <2>2
<1>15. CASE Reconcile
  BY <1>1, <1>2, <1>3, <1>15, ReconcileCases
<1>16. CASE Inspect
  BY <1>1, <1>16 DEF Inspect, WorkOK
<1>17. CASE Recover /\ ~(InspectDone \/ LogUndone \/ StartUndo \/ Reconcile \/ Inspect)
  BY <1>2, <1>4, <1>5, <1>6, <1>17 DEF Recover, OpenJournal, OpenJournalFails,
     ReconcileFails, InspectRefused, InspectFails, LogUndo, NothingToUndo, UndoRefused,
     FinishUndo, Recheck, RecheckFails, AllUndone, LogComplete, GiveUp, GiveUpFails
<1>18. CASE PersistState
  BY <1>1, <1>2, <1>3, <1>4, <1>7, <1>18, AfterStateCases DEF PersistState
<1>19. CASE PersistStateFails
  BY <1>4, <1>5, <1>19, StateErrorCases DEF PersistStateFails
<1>20. CASE AppendFails
  BY <1>4, <1>5, <1>20, AppendErrorCases DEF AppendFails
<1>21. CASE EndFails
  BY <1>4, <1>5, <1>21, EndFailsCases
<1>22. CASE AppendState \/ RemoveBackups \/ RecordCleanup \/ Release
  BY <1>2, <1>4, <1>6, <1>22 DEF AppendState, RemoveBackups, RecordCleanup, Release
<1>23. CASE RecoverCommand \/ Crash \/ Done \/ UNCHANGED vars
  BY <1>4, <1>6, <1>23 DEF RecoverCommand, Crash, Done, vars
<1> QED BY <1>8, <1>9, <1>10, <1>11, <1>12, <1>13, <1>14, <1>15, <1>16, <1>17, <1>18,
   <1>19, <1>20, <1>21, <1>22, <1>23 DEF Next, Run, Durable, Recover

\* Files, temporaries and backups keep their types (engine.go, Apply and Undo).
LEMMA FilesType == TypeOK /\ CtlInv /\ [Next]_vars => FilesOK'
<1> SUFFICES ASSUME TypeOK, CtlInv, [Next]_vars PROVE FilesOK'
  OBVIOUS
<1>1. FilesOK /\ {Absent, Torn, Dir} \subseteq Entries
  BY TypeParts DEF Entries
<1>2. UNCHANGED files => FilesOK'
  BY <1>1 DEF files, FilesOK
<1>3. CASE UNCHANGED <<fs, bak>> /\ CleanTemporaries
  BY <1>1, <1>3 DEF FilesOK, CleanTemporaries
<1>4. CASE UNCHANGED <<fs, tmp>> /\ bak' \in {bak, [s \in Slots |-> Absent]}
  BY <1>1, <1>4 DEF FilesOK
<1>5. CASE PrepareOperation
  <2>1. pc \in Preparing
    BY <1>5 DEF PrepareOperation, Preparing
  <2>2. Op \in Operations /\ Prepare(fs, Op) \in Descriptors
    BY <2>1, OneMore
  <2>3. Prepare(fs, Op).prior \in Entries /\ fs[Op.source] \in Entries
    BY <1>1, <2>2 DEF Descriptors, Operations, FilesOK
  <2> DEFINE saved == IF Op.kind = "move" THEN fs[Op.source] ELSE Absent
  <2>4. saved \in Entries
    BY <1>1, <2>3
  <2>5. bak' = [bak EXCEPT ![<<cur, "target">>] = Prepare(fs, Op).prior,
                           ![<<cur, "source">>] = saved]
        /\ UNCHANGED <<fs, tmp>>
    BY <1>5 DEF PrepareOperation
  <2> HIDE DEF saved
  <2> QED BY <1>1, <2>3, <2>4, <2>5 DEF FilesOK
<1>6. CASE FileCall
  <2>1. CASE DoFailedRename \/ DoCheckAbsent
    BY <1>2, <2>1 DEF DoFailedRename, DoCheckAbsent
  <2>2. CASE ~(DoFailedRename \/ DoCheckAbsent)
    <3>1. pc \in {"applying", "undoing"} /\ todo # <<>>
      BY <1>6, <2>2 DEF FileCall, DoCreate, DoFill, DoRemove, DoRemoveSome, DoInstall,
         DoRename, DoMkdir, DoRmdir, CallFails, Calling
    <3>2. TheCall \in Calls /\ Slot \in Slots
      BY <3>1, CurrentCall
    <3>3. TheCall.content \in Entries /\ TheCall.path \in Paths /\ TheCall.from \in Paths
      BY <3>2 DEF Calls
    <3>4. tmp[Slot] \in Entries /\ fs[TheCall.from] \in Entries
      BY <1>1, <3>2, <3>3 DEF FilesOK
    <3> USE <1>1, <3>2, <3>3, <3>4 DEF FilesOK
    <3>5. CASE DoCreate
      BY <3>5 DEF DoCreate
    <3>6. CASE DoFill
      BY <3>6 DEF DoFill
    <3>7. CASE DoRemove
      BY <3>7 DEF DoRemove
    <3>8. CASE DoRemoveSome
      BY <3>8 DEF DoRemoveSome
    <3>9. CASE DoInstall
      BY <3>9 DEF DoInstall
    <3>10. CASE DoRename
      BY <3>10 DEF DoRename
    <3>11. CASE DoMkdir
      BY <3>11 DEF DoMkdir
    <3>12. CASE DoRmdir
      BY <3>12 DEF DoRmdir
    <3>13. CASE CallFails
      BY <3>13 DEF CallFails
    <3> QED BY <1>6, <2>2, <3>5, <3>6, <3>7, <3>8, <3>9, <3>10, <3>11, <3>12,
       <3>13 DEF FileCall
  <2> QED BY <2>1, <2>2
<1>7. CASE Execute /\ ~PrepareOperation
  BY <1>2, <1>7 DEF Execute, Begin, PlanAccepted, PlanRejected, PrepareFails, LogPrepared,
     StartApply, StartApplyFails, FinishApply, VerifyOperation, VerifyFails, LogApplied,
     Assert, LogCommit
<1>8. CASE InspectDone \/ Inspect \/ InspectRefused
  BY <1>3, <1>8 DEF InspectDone, Inspect, InspectRefused
<1>9. CASE Recover /\ ~(InspectDone \/ Inspect \/ InspectRefused)
  BY <1>2, <1>9, ReconcileFrame DEF Recover, OpenJournal, OpenJournalFails, ReconcileFails,
     InspectFails, LogUndo, StartUndo, NothingToUndo, UndoRefused, FinishUndo, Recheck,
     RecheckFails, LogUndone, AllUndone, LogComplete, GiveUp, GiveUpFails
<1>10. CASE RemoveBackups \/ EndFails
  BY <1>4, <1>10, EndFailsCases DEF RemoveBackups, EndAttempted
<1>11. CASE Durable /\ ~(RemoveBackups \/ EndFails)
  BY <1>2, <1>11 DEF Durable, AppendState, PersistState, PersistStateFails, AppendFails,
     RecordCleanup, Release
<1>12. CASE RecoverCommand \/ Crash \/ Done \/ UNCHANGED vars
  BY <1>2, <1>12 DEF RecoverCommand, Crash, Done, vars
<1> QED BY <1>5, <1>6, <1>7, <1>8, <1>9, <1>10, <1>11, <1>12 DEF Next, Run

--------------------------------------------------------------------------------
(* Inv is inductive, and what follows from it.  One lemma for each group of *)
(* actions; in it one step for each action and one substep for each part of *)
(* the invariant that the action disturbs.                                  *)

\* Execute, up to TX_COMMIT (txn.go).
LEMMA ExecuteStep == Inv /\ TypeOK' /\ Execute => CtlInv'
<1> SUFFICES ASSUME Inv, TypeOK', Execute PROVE CtlInv'
  OBVIOUS
<1> USE DEF Inv
<1>1. CASE Begin
  <2> USE <1>1 DEF Begin, Goto, TypeOK, CtlInv, Preparing, Applying, Undoing, Backward,
     Working, files, log, store, work, ctl, given
  <2>1. LogInv' /\ HealthInv' /\ ForwardInv' /\ BackwardInv'
    BY DEF LogInv, ForwardInv, StatusInv, HealthInv, Healthy, Failing, BackwardInv, Decided,
       Due, CanInspect, Journals
  <2>2. StatusInv' /\ Backed(meta)' /\ Backed(mem)'
    BY DEF StatusInv, BackwardInv, ForwardInv, LogInv, Due, Decided, Terminal,
       ValidTransition, Allowed, States, HealthInv, Fresh, Failing, Healthy, Backed,
       Metadata
  <2>3. CleanInv' /\ ResultInv'
    BY DEF CleanInv, Active, Decided, StatusInv, Fresh, Metadata, Terminal, Backed,
       ResultInv, ResultIsTrue, Pending, Due
  <2> QED BY <2>1, <2>2, <2>3 DEF CtlInv
<1>2. CASE PlanAccepted
  <2> USE <1>2 DEF PlanAccepted, Transition, TypeOK, CtlInv, Preparing, Applying, Undoing,
     Backward, Working, files, log, store, work, ctl, given
  <2>1. LogInv' /\ HealthInv' /\ ForwardInv' /\ BackwardInv'
    BY DEF LogInv, ForwardInv, StatusInv, HealthInv, Healthy, Failing, BackwardInv, Decided,
       Due, CanInspect, Journals
  <2>2. StatusInv' /\ Backed(meta)' /\ Backed(mem)'
    BY DEF StatusInv, BackwardInv, ForwardInv, LogInv, Due, Decided, Terminal,
       ValidTransition, Allowed, States, HealthInv, Fresh, Failing, Healthy, Backed,
       Metadata
  <2>3. CleanInv' /\ ResultInv'
    BY DEF CleanInv, Active, Decided, StatusInv, Fresh, Metadata, Terminal, Backed,
       ResultInv, ResultIsTrue, Pending, Due
  <2> QED BY <2>1, <2>2, <2>3 DEF CtlInv
<1>3. CASE PlanRejected
  <2> USE <1>3 DEF PlanRejected, RollbackFailure, TypeOK, CtlInv, Preparing, Applying,
     Undoing, Backward, Working, files, log, store, work, ctl, given
  <2>1. LogInv' /\ HealthInv' /\ ForwardInv' /\ BackwardInv'
    BY DEF LogInv, ForwardInv, StatusInv, HealthInv, Healthy, Failing, BackwardInv, Decided,
       Due, CanInspect, Journals
  <2>2. StatusInv' /\ Backed(meta)' /\ Backed(mem)'
    BY DEF StatusInv, BackwardInv, ForwardInv, LogInv, Due, Decided, Terminal,
       ValidTransition, Allowed, States, HealthInv, Fresh, Failing, Healthy, Backed,
       Metadata
  <2>3. CleanInv' /\ ResultInv'
    BY DEF CleanInv, Active, Decided, StatusInv, Fresh, Metadata, Terminal, Backed,
       ResultInv, ResultIsTrue, Pending, Due
  <2> QED BY <2>1, <2>2, <2>3 DEF CtlInv
<1>4. CASE PrepareOperation
  <2> USE <1>4 DEF PrepareOperation, Goto, TypeOK, CtlInv, Preparing, Applying, Undoing,
     Backward, Working, files, log, store, work, ctl, given
  <2>1. LogInv' /\ HealthInv' /\ ForwardInv' /\ BackwardInv'
    BY DEF LogInv, ForwardInv, StatusInv, HealthInv, Healthy, Failing, BackwardInv, Decided,
       Due, CanInspect, Journals
  <2>2. StatusInv' /\ Backed(meta)' /\ Backed(mem)'
    BY DEF StatusInv, BackwardInv, ForwardInv, LogInv, Due, Decided, Terminal,
       ValidTransition, Allowed, States, HealthInv, Fresh, Failing, Healthy, Backed,
       Metadata
  <2>3. CleanInv' /\ ResultInv'
    BY DEF CleanInv, Active, Decided, StatusInv, Fresh, Metadata, Terminal, Backed,
       ResultInv, ResultIsTrue, Pending, Due
  <2> QED BY <2>1, <2>2, <2>3 DEF CtlInv
<1>5. CASE PrepareFails
  <2> USE <1>5 DEF PrepareFails, Refused, Fault, RollbackFailure, TypeOK, CtlInv, Preparing,
     Applying, Undoing, Backward, Working, files, log, store, work, ctl, given
  <2>1. LogInv' /\ HealthInv' /\ ForwardInv' /\ BackwardInv'
    BY DEF LogInv, ForwardInv, StatusInv, HealthInv, Healthy, Failing, BackwardInv, Decided,
       Due, CanInspect, Journals
  <2>2. StatusInv' /\ Backed(meta)' /\ Backed(mem)'
    BY DEF StatusInv, BackwardInv, ForwardInv, LogInv, Due, Decided, Terminal,
       ValidTransition, Allowed, States, HealthInv, Fresh, Failing, Healthy, Backed,
       Metadata
  <2>3. CleanInv' /\ ResultInv'
    BY DEF CleanInv, Active, Decided, StatusInv, Fresh, Metadata, Terminal, Backed,
       ResultInv, ResultIsTrue, Pending, Due
  <2> QED BY <2>1, <2>2, <2>3 DEF CtlInv
<1>6. CASE LogPrepared
  <2>1. pc \in Preparing /\ prep' = Append(prep, Prepare(fs, Op)) /\ script' = script
    BY <1>6 DEF LogPrepared, Preparing, given
  <2>2. /\ jrn.prepared = jrn.applied /\ cur \notin jrn.prepared /\ cur = Len(prep')
        /\ jrn.prepared \cup {cur} = 1..Len(prep') /\ Len(prep') <= Len(script)
        /\ Len(prep') \in Nat /\ cur > 0 /\ prep' # <<>>
    BY <2>1, NextNumber, OneMore
  <2>3. jrn' = Extend(jrn, OpRecord("OP_PREPARED", cur)) /\ tail' = tail /\ stale' = stale
    BY <1>6 DEF LogPrepared, WriteFrame, CtlInv, HealthInv, Healthy, Failing
  <2>4. Adds({cur}, {}, {}, {}, FALSE, FALSE)
    BY <1>6, <2>3, FrameEffect DEF LogPrepared
  <2>5. /\ jrn'.ok /\ jrn'.state = jrn.state
        /\ jrn'.prepared = jrn.prepared \cup {cur} /\ jrn'.applied = jrn.applied
        /\ jrn'.rollbackPrepared = jrn.rollbackPrepared
        /\ jrn'.rollbackApplied = jrn.rollbackApplied
        /\ (jrn'.committed <=> jrn.committed) /\ (jrn'.rolledBack <=> jrn.rolledBack)
    BY <2>4 DEF Adds
  <2>6. /\ jrn'.prepared = 1..Len(prep') /\ jrn'.prepared \ jrn'.applied = {cur}
        /\ pc' = "apply" /\ cur' = cur /\ jrn.state = "RUNNING"
    BY <1>6, <2>2, <2>5 DEF LogPrepared, Goto, work, CtlInv, ForwardInv, Preparing
  <2>7. ForwardInv'
    BY <2>2, <2>6, <2>5 DEF ForwardInv, Preparing, Applying
  <2> USE <1>6 DEF LogPrepared, Goto, TypeOK, CtlInv, Preparing, Applying, Undoing,
     Backward, Working, files, log, store, work, ctl, given
  <2>8. LogInv'
    BY <2>1, <2>2, <2>6, <2>3, <2>5 DEF LogInv, ForwardInv, StatusInv
  <2>9. HealthInv'
    BY <2>1, <2>2, <2>6, <2>3, <2>5 DEF HealthInv, Healthy, Failing, StatusInv, BackwardInv,
       Decided
  <2>10. BackwardInv'
    BY <2>1, <2>2, <2>6, <2>3, <2>5 DEF BackwardInv, LogInv, CanInspect, Journals
  <2>11. StatusInv' /\ Backed(meta)' /\ Backed(mem)'
    BY <2>1, <2>2, <2>6, <2>3, <2>5 DEF StatusInv, BackwardInv, ForwardInv, LogInv, Due,
       Decided, Terminal, ValidTransition, Allowed, States, HealthInv, Fresh, Failing,
       Healthy, Backed, Metadata
  <2>12. CleanInv' /\ ResultInv'
    BY <2>1, <2>2, <2>6, <2>3, <2>5 DEF CleanInv, Active, Decided, StatusInv, Fresh,
       Metadata, Terminal, Backed, ResultInv, ResultIsTrue, Pending, Due
  <2> QED BY <2>7, <2>8, <2>9, <2>10, <2>11, <2>12 DEF CtlInv
<1>7. CASE StartApply
  <2> USE <1>7 DEF StartApply, TypeOK, CtlInv, Preparing, Applying, Undoing, Backward,
     Working, files, log, store, work, ctl, given
  <2>1. LogInv' /\ HealthInv' /\ ForwardInv' /\ BackwardInv'
    BY DEF LogInv, ForwardInv, StatusInv, HealthInv, Healthy, Failing, BackwardInv, Decided,
       Due, CanInspect, Journals
  <2>2. StatusInv' /\ Backed(meta)' /\ Backed(mem)'
    BY DEF StatusInv, BackwardInv, ForwardInv, LogInv, Due, Decided, Terminal,
       ValidTransition, Allowed, States, HealthInv, Fresh, Failing, Healthy, Backed,
       Metadata
  <2>3. CleanInv' /\ ResultInv'
    BY DEF CleanInv, Active, Decided, StatusInv, Fresh, Metadata, Terminal, Backed,
       ResultInv, ResultIsTrue, Pending, Due
  <2> QED BY <2>1, <2>2, <2>3 DEF CtlInv
<1>8. CASE StartApplyFails
  <2> USE <1>8 DEF StartApplyFails, Refused, Fault, RollbackFailure, TypeOK, CtlInv,
     Preparing, Applying, Undoing, Backward, Working, files, log, store, work, ctl, given
  <2>1. LogInv' /\ HealthInv' /\ ForwardInv' /\ BackwardInv'
    BY DEF LogInv, ForwardInv, StatusInv, HealthInv, Healthy, Failing, BackwardInv, Decided,
       Due, CanInspect, Journals
  <2>2. StatusInv' /\ Backed(meta)' /\ Backed(mem)'
    BY DEF StatusInv, BackwardInv, ForwardInv, LogInv, Due, Decided, Terminal,
       ValidTransition, Allowed, States, HealthInv, Fresh, Failing, Healthy, Backed,
       Metadata
  <2>3. CleanInv' /\ ResultInv'
    BY DEF CleanInv, Active, Decided, StatusInv, Fresh, Metadata, Terminal, Backed,
       ResultInv, ResultIsTrue, Pending, Due
  <2> QED BY <2>1, <2>2, <2>3 DEF CtlInv
<1>9. CASE FinishApply
  <2> USE <1>9 DEF FinishApply, Goto, TypeOK, CtlInv, Preparing, Applying, Undoing,
     Backward, Working, files, log, store, work, ctl, given
  <2>1. LogInv' /\ HealthInv' /\ ForwardInv' /\ BackwardInv'
    BY DEF LogInv, ForwardInv, StatusInv, HealthInv, Healthy, Failing, BackwardInv, Decided,
       Due, CanInspect, Journals
  <2>2. StatusInv' /\ Backed(meta)' /\ Backed(mem)'
    BY DEF StatusInv, BackwardInv, ForwardInv, LogInv, Due, Decided, Terminal,
       ValidTransition, Allowed, States, HealthInv, Fresh, Failing, Healthy, Backed,
       Metadata
  <2>3. CleanInv' /\ ResultInv'
    BY DEF CleanInv, Active, Decided, StatusInv, Fresh, Metadata, Terminal, Backed,
       ResultInv, ResultIsTrue, Pending, Due
  <2> QED BY <2>1, <2>2, <2>3 DEF CtlInv
<1>10. CASE VerifyOperation
  <2> USE <1>10 DEF VerifyOperation, Goto, TypeOK, CtlInv, Preparing, Applying, Undoing,
     Backward, Working, files, log, store, work, ctl, given
  <2>1. LogInv' /\ HealthInv' /\ ForwardInv' /\ BackwardInv'
    BY DEF LogInv, ForwardInv, StatusInv, HealthInv, Healthy, Failing, BackwardInv, Decided,
       Due, CanInspect, Journals
  <2>2. StatusInv' /\ Backed(meta)' /\ Backed(mem)'
    BY DEF StatusInv, BackwardInv, ForwardInv, LogInv, Due, Decided, Terminal,
       ValidTransition, Allowed, States, HealthInv, Fresh, Failing, Healthy, Backed,
       Metadata
  <2>3. CleanInv' /\ ResultInv'
    BY DEF CleanInv, Active, Decided, StatusInv, Fresh, Metadata, Terminal, Backed,
       ResultInv, ResultIsTrue, Pending, Due
  <2> QED BY <2>1, <2>2, <2>3 DEF CtlInv
<1>11. CASE VerifyFails
  <2> USE <1>11 DEF VerifyFails, Refused, Fault, RollbackFailure, TypeOK, CtlInv, Preparing,
     Applying, Undoing, Backward, Working, files, log, store, work, ctl, given
  <2>1. LogInv' /\ HealthInv' /\ ForwardInv' /\ BackwardInv'
    BY DEF LogInv, ForwardInv, StatusInv, HealthInv, Healthy, Failing, BackwardInv, Decided,
       Due, CanInspect, Journals
  <2>2. StatusInv' /\ Backed(meta)' /\ Backed(mem)'
    BY DEF StatusInv, BackwardInv, ForwardInv, LogInv, Due, Decided, Terminal,
       ValidTransition, Allowed, States, HealthInv, Fresh, Failing, Healthy, Backed,
       Metadata
  <2>3. CleanInv' /\ ResultInv'
    BY DEF CleanInv, Active, Decided, StatusInv, Fresh, Metadata, Terminal, Backed,
       ResultInv, ResultIsTrue, Pending, Due
  <2> QED BY <2>1, <2>2, <2>3 DEF CtlInv
<1>12. CASE LogApplied
  <2>1. jrn' = Extend(jrn, OpRecord("OP_APPLIED", cur)) /\ tail' = tail /\ stale' = stale
    BY <1>12 DEF LogApplied, WriteFrame, CtlInv, HealthInv, Healthy, Failing
  <2>2. Adds({}, {cur}, {}, {}, FALSE, FALSE)
    BY <1>12, <2>1, FrameEffect DEF LogApplied
  <2>3. /\ jrn'.ok /\ jrn'.state = jrn.state
        /\ jrn'.prepared = jrn.prepared /\ jrn'.applied = jrn.applied \cup {cur}
        /\ jrn'.rollbackPrepared = jrn.rollbackPrepared
        /\ jrn'.rollbackApplied = jrn.rollbackApplied
        /\ (jrn'.committed <=> jrn.committed) /\ (jrn'.rolledBack <=> jrn.rolledBack)
    BY <2>2 DEF Adds
  <2> USE <1>12 DEF LogApplied, NextOperation, GotoOp, Transition, TypeOK, CtlInv,
     Preparing, Applying, Undoing, Backward, Working, files, log, store, work, ctl, given
  <2>4. LogInv' /\ HealthInv' /\ ForwardInv' /\ BackwardInv'
    BY <2>1, <2>3 DEF LogInv, ForwardInv, StatusInv, HealthInv, Healthy, Failing,
       BackwardInv, Decided, Due, CanInspect, Journals
  <2>5. StatusInv' /\ Backed(meta)' /\ Backed(mem)'
    BY <2>1, <2>3 DEF StatusInv, BackwardInv, ForwardInv, LogInv, Due, Decided, Terminal,
       ValidTransition, Allowed, States, HealthInv, Fresh, Failing, Healthy, Backed,
       Metadata
  <2>6. CleanInv' /\ ResultInv'
    BY <2>1, <2>3 DEF CleanInv, Active, Decided, StatusInv, Fresh, Metadata, Terminal,
       Backed, ResultInv, ResultIsTrue, Pending, Due
  <2> QED BY <2>4, <2>5, <2>6 DEF CtlInv
<1>13. CASE Assert
  <2>1. jrn' = Extend(jrn, Marker("ASSERT_RESULT")) /\ tail' = tail /\ stale' = stale
    BY <1>13 DEF Assert, WriteFrame, CtlInv, HealthInv, Healthy, Failing
  <2>2. Adds({}, {}, {}, {}, FALSE, FALSE)
    BY <1>13, <2>1, FrameEffect DEF Assert
  <2>3. /\ jrn'.ok /\ jrn'.state = jrn.state
        /\ jrn'.prepared = jrn.prepared /\ jrn'.applied = jrn.applied
        /\ jrn'.rollbackPrepared = jrn.rollbackPrepared
        /\ jrn'.rollbackApplied = jrn.rollbackApplied
        /\ (jrn'.committed <=> jrn.committed) /\ (jrn'.rolledBack <=> jrn.rolledBack)
    BY <2>2 DEF Adds
  <2> USE <1>13 DEF Assert, NextAssertion, GotoOp, Transition, RollbackFailure, TypeOK,
     CtlInv, Preparing, Applying, Undoing, Backward, Working, files, log, store, work, ctl,
     given
  <2>4. LogInv' /\ HealthInv' /\ ForwardInv' /\ BackwardInv'
    BY <2>1, <2>3 DEF LogInv, ForwardInv, StatusInv, HealthInv, Healthy, Failing,
       BackwardInv, Decided, Due, CanInspect, Journals
  <2>5. StatusInv' /\ Backed(meta)' /\ Backed(mem)'
    BY <2>1, <2>3 DEF StatusInv, BackwardInv, ForwardInv, LogInv, Due, Decided, Terminal,
       ValidTransition, Allowed, States, HealthInv, Fresh, Failing, Healthy, Backed,
       Metadata
  <2>6. CleanInv' /\ ResultInv'
    BY <2>1, <2>3 DEF CleanInv, Active, Decided, StatusInv, Fresh, Metadata, Terminal,
       Backed, ResultInv, ResultIsTrue, Pending, Due
  <2> QED BY <2>4, <2>5, <2>6 DEF CtlInv
<1>14. CASE LogCommit
  <2>1. jrn' = Extend(jrn, Marker("TX_COMMIT")) /\ tail' = tail /\ stale' = stale
    BY <1>14 DEF LogCommit, WriteFrame, CtlInv, HealthInv, Healthy, Failing
  <2>2. Adds({}, {}, {}, {}, TRUE, FALSE)
    BY <1>14, <2>1, FrameEffect DEF LogCommit
  <2>3. /\ jrn'.ok /\ jrn'.state = jrn.state
        /\ jrn'.prepared = jrn.prepared /\ jrn'.applied = jrn.applied
        /\ jrn'.rollbackPrepared = jrn.rollbackPrepared
        /\ jrn'.rollbackApplied = jrn.rollbackApplied
        /\ jrn'.committed /\ (jrn'.rolledBack <=> jrn.rolledBack)
    BY <2>2 DEF Adds
  <2> USE <1>14 DEF LogCommit, Transition, TypeOK, CtlInv, Preparing, Applying, Undoing,
     Backward, Working, files, log, store, work, ctl, given
  <2>4. LogInv' /\ HealthInv' /\ ForwardInv' /\ BackwardInv'
    BY <2>1, <2>3 DEF LogInv, ForwardInv, StatusInv, HealthInv, Healthy, Failing,
       BackwardInv, Decided, Due, CanInspect, Journals
  <2>5. StatusInv' /\ Backed(meta)' /\ Backed(mem)'
    BY <2>1, <2>3 DEF StatusInv, BackwardInv, ForwardInv, LogInv, Due, Decided, Terminal,
       ValidTransition, Allowed, States, HealthInv, Fresh, Failing, Healthy, Backed,
       Metadata
  <2>6. CleanInv' /\ ResultInv'
    BY <2>1, <2>3 DEF CleanInv, Active, Decided, StatusInv, Fresh, Metadata, Terminal,
       Backed, ResultInv, ResultIsTrue, Pending, Due
  <2> QED BY <2>4, <2>5, <2>6 DEF CtlInv
<1> QED BY <1>1, <1>2, <1>3, <1>4, <1>5, <1>6, <1>7, <1>8, <1>9, <1>10, <1>11, <1>12, <1>13,
   <1>14 DEF Execute

\* Recover (recovery.go).
LEMMA RecoverStep == Inv /\ TypeOK' /\ Recover => CtlInv'
<1> SUFFICES ASSUME Inv, TypeOK', Recover PROVE CtlInv'
  OBVIOUS
<1> USE DEF Inv
<1>1. CASE OpenJournal
  <2> USE <1>1 DEF OpenJournal, TypeOK, CtlInv, Preparing, Applying, Undoing, Backward,
     Working, files, log, store, work, ctl, given
  <2>1. LogInv' /\ HealthInv' /\ ForwardInv' /\ BackwardInv'
    BY DEF LogInv, ForwardInv, StatusInv, HealthInv, Healthy, Failing, BackwardInv, Decided,
       Due, CanInspect, Journals
  <2>2. StatusInv' /\ Backed(meta)' /\ Backed(mem)'
    BY DEF StatusInv, BackwardInv, ForwardInv, LogInv, Due, Decided, Terminal,
       ValidTransition, Allowed, States, HealthInv, Fresh, Failing, Healthy, Backed,
       Metadata
  <2>3. CleanInv' /\ ResultInv'
    BY DEF CleanInv, Active, Decided, StatusInv, Fresh, Metadata, Terminal, Backed,
       ResultInv, ResultIsTrue, Pending, Due
  <2> QED BY <2>1, <2>2, <2>3 DEF CtlInv
<1>2. CASE OpenJournalFails
  <2> USE <1>2 DEF OpenJournalFails, Refused, Fault, Stop, Fresh, TypeOK, CtlInv, Preparing,
     Applying, Undoing, Backward, Working, files, log, store, work, ctl, given
  <2>1. LogInv' /\ HealthInv' /\ ForwardInv' /\ BackwardInv'
    BY DEF LogInv, ForwardInv, StatusInv, HealthInv, Healthy, Failing, BackwardInv, Decided,
       Due, CanInspect, Journals
  <2>2. StatusInv' /\ Backed(meta)' /\ Backed(mem)'
    BY DEF StatusInv, BackwardInv, ForwardInv, LogInv, Due, Decided, Terminal,
       ValidTransition, Allowed, States, HealthInv, Fresh, Failing, Healthy, Backed,
       Metadata
  <2>3. CleanInv' /\ ResultInv'
    BY DEF CleanInv, Active, Decided, StatusInv, Fresh, Metadata, Terminal, Backed,
       ResultInv, ResultIsTrue, Pending, Due
  <2> QED BY <2>1, <2>2, <2>3 DEF CtlInv
<1>3. CASE Reconcile
  <2>1. CASE mode = "finish" /\ Goto(IF mem.cleaned THEN "release" ELSE "cleanup")
    <3> USE <1>3, <2>1 DEF Reconcile, Goto, TypeOK, CtlInv, Preparing, Applying, Undoing,
       Backward, Working, files, log, store, work, ctl, given
    <3>1. LogInv'
      BY DEF LogInv, ForwardInv, StatusInv
    <3>2. HealthInv'
      BY DEF HealthInv, Healthy, Failing, StatusInv, BackwardInv, Decided
    <3>3. ForwardInv'
      BY DEF ForwardInv, StatusInv, LogInv, Due
    <3>4. BackwardInv'
      BY DEF BackwardInv, LogInv, CanInspect, Journals
    <3>5. StatusInv'
      BY DEF StatusInv, BackwardInv, ForwardInv, LogInv, Due, Decided, Terminal,
         ValidTransition, Allowed, States, HealthInv, Fresh, Failing, Healthy, Backed,
         Metadata
    <3>6. Backed(meta)'
      BY DEF Backed, StatusInv, LogInv, Fresh, Metadata
    <3>7. Backed(mem)'
      BY DEF Backed, StatusInv, Fresh, LogInv, Metadata
    <3>8. CleanInv'
      BY DEF CleanInv, Active, Decided, StatusInv, Fresh, Metadata, Terminal, Backed
    <3>9. ResultInv'
      BY DEF ResultInv, ResultIsTrue, Pending, CleanInv, StatusInv, Terminal, Decided,
         Backed, Due, Fresh, Metadata
    <3> QED BY <3>1, <3>2, <3>3, <3>4, <3>5, <3>6, <3>7, <3>8, <3>9 DEF CtlInv
  <2>2. CASE mode = "undo" /\ mem.status = "ROLLING_BACK" /\ GotoOp("inspect", Len(prep))
    <3> USE <1>3, <2>2 DEF Reconcile, GotoOp, TypeOK, CtlInv, Preparing, Applying, Undoing,
       Backward, Working, files, log, store, work, ctl, given
    <3>1. LogInv'
      BY DEF LogInv, ForwardInv, StatusInv
    <3>2. HealthInv'
      BY DEF HealthInv, Healthy, Failing, StatusInv, BackwardInv, Decided
    <3>3. ForwardInv'
      BY DEF ForwardInv, StatusInv, LogInv, Due
    <3>4. BackwardInv'
      BY StartBackward DEF StatusInv, LogInv
    <3>5. StatusInv'
      BY DEF StatusInv, BackwardInv, ForwardInv, LogInv, Due, Decided, Terminal,
         ValidTransition, Allowed, States, HealthInv, Fresh, Failing, Healthy, Backed,
         Metadata
    <3>6. Backed(meta)'
      BY DEF Backed, StatusInv, LogInv, Fresh, Metadata
    <3>7. Backed(mem)'
      BY DEF Backed, StatusInv, Fresh, LogInv, Metadata
    <3>8. CleanInv'
      BY DEF CleanInv, Active, Decided, StatusInv, Fresh, Metadata, Terminal, Backed
    <3>9. ResultInv'
      BY DEF ResultInv, ResultIsTrue, Pending, CleanInv, StatusInv, Terminal, Decided,
         Backed, Due, Fresh, Metadata
    <3> QED BY <3>1, <3>2, <3>3, <3>4, <3>5, <3>6, <3>7, <3>8, <3>9 DEF CtlInv
  <2>3. CASE /\ mode # "finish" /\ (mode = "undo" => mem.status # "ROLLING_BACK")
             /\ Transition("ROLLING_BACK")
    <3> USE <1>3, <2>3 DEF Reconcile, Transition, TypeOK, CtlInv, Preparing, Applying,
       Undoing, Backward, Working, files, log, store, work, ctl, given
    <3>1. LogInv'
      BY DEF LogInv, ForwardInv, StatusInv
    <3>2. HealthInv'
      BY DEF HealthInv, Healthy, Failing, StatusInv, BackwardInv, Decided
    <3>3. ForwardInv'
      BY DEF ForwardInv, StatusInv, LogInv, Due
    <3>4. BackwardInv'
      BY DEF BackwardInv, LogInv, CanInspect, Journals
    <3>5. StatusInv'
      BY DEF StatusInv, BackwardInv, ForwardInv, LogInv, Due, Decided, Terminal,
         ValidTransition, Allowed, States, HealthInv, Fresh, Failing, Healthy, Backed,
         Metadata
    <3>6. Backed(meta)'
      BY DEF Backed, StatusInv, LogInv, Fresh, Metadata
    <3>7. Backed(mem)'
      BY DEF Backed, StatusInv, Fresh, LogInv, Metadata
    <3>8. CleanInv'
      BY DEF CleanInv, Active, Decided, StatusInv, Fresh, Metadata, Terminal, Backed
    <3>9. ResultInv'
      BY DEF ResultInv, ResultIsTrue, Pending, CleanInv, StatusInv, Terminal, Decided,
         Backed, Due, Fresh, Metadata
    <3> QED BY <3>1, <3>2, <3>3, <3>4, <3>5, <3>6, <3>7, <3>8, <3>9 DEF CtlInv
  <2> QED BY <1>3, <2>1, <2>2, <2>3, ReconcileCases
<1>4. CASE ReconcileFails
  <2>1. \/ mem'.status = "PLANNED" /\ ~mem'.cleaned /\ pc' = "stopped"
        \/ mem' = mem /\ pc' \in {"recover", "transition"}
        \/ mem'.status = "RECOVERY_FAILED" /\ mem'.cleaned = mem.cleaned /\ pc' = "give up"
    BY <1>4, FailEffect, StopEffect DEF ReconcileFails
  <2> USE <1>4 DEF ReconcileFails, Fault, WriteMetadataFails, Stop, Fail, Fresh, TypeOK,
     CtlInv, Preparing, Applying, Undoing, Backward, Working, files, log, store, work, ctl,
     given
  <2>2. LogInv' /\ HealthInv' /\ ForwardInv' /\ BackwardInv'
    BY <2>1 DEF LogInv, ForwardInv, StatusInv, HealthInv, Healthy, Failing, BackwardInv,
       Decided, Due, CanInspect, Journals
  <2>3. StatusInv'
    BY <2>1 DEF StatusInv, BackwardInv, ForwardInv, LogInv, Due, Decided, Terminal,
       ValidTransition, Allowed, States, HealthInv, Fresh, Failing, Healthy, Backed,
       Metadata
  <2>4. Backed(meta)'
    BY <2>1 DEF Backed, StatusInv, LogInv, Fresh, Metadata
  <2>5. Backed(mem)'
    BY <2>1 DEF Backed, StatusInv, Fresh, LogInv, Metadata
  <2>6. CleanInv'
    BY <2>1 DEF CleanInv, Active, Decided, StatusInv, Fresh, Metadata, Terminal, Backed
  <2>7. ResultInv'
    BY <2>1 DEF ResultInv, ResultIsTrue, Pending, CleanInv, StatusInv, Terminal, Decided,
       Backed, Due, Fresh, Metadata
  <2> QED BY <2>2, <2>3, <2>4, <2>5, <2>6, <2>7 DEF CtlInv
<1>5. CASE InspectDone
  <2> USE <1>5 DEF InspectDone, GotoOp, CleanTemporaries, TypeOK, CtlInv, Preparing,
     Applying, Undoing, Backward, Working, files, log, store, work, ctl, given
  <2>1. LogInv' /\ HealthInv' /\ ForwardInv' /\ BackwardInv'
    BY DEF LogInv, ForwardInv, StatusInv, HealthInv, Healthy, Failing, BackwardInv, Decided,
       Due, CanInspect, Journals
  <2>2. StatusInv' /\ Backed(meta)' /\ Backed(mem)'
    BY DEF StatusInv, BackwardInv, ForwardInv, LogInv, Due, Decided, Terminal,
       ValidTransition, Allowed, States, HealthInv, Fresh, Failing, Healthy, Backed,
       Metadata
  <2>3. CleanInv' /\ ResultInv'
    BY DEF CleanInv, Active, Decided, StatusInv, Fresh, Metadata, Terminal, Backed,
       ResultInv, ResultIsTrue, Pending, Due
  <2> QED BY <2>1, <2>2, <2>3 DEF CtlInv
<1>6. CASE Inspect
  <2> USE <1>6 DEF Inspect, CleanTemporaries, TypeOK, CtlInv, Preparing, Applying, Undoing,
     Backward, Working, files, log, store, work, ctl, given
  <2>1. LogInv' /\ HealthInv' /\ ForwardInv' /\ BackwardInv'
    BY DEF LogInv, ForwardInv, StatusInv, HealthInv, Healthy, Failing, BackwardInv, Decided,
       Due, CanInspect, Journals
  <2>2. StatusInv' /\ Backed(meta)' /\ Backed(mem)'
    BY DEF StatusInv, BackwardInv, ForwardInv, LogInv, Due, Decided, Terminal,
       ValidTransition, Allowed, States, HealthInv, Fresh, Failing, Healthy, Backed,
       Metadata
  <2>3. CleanInv' /\ ResultInv'
    BY DEF CleanInv, Active, Decided, StatusInv, Fresh, Metadata, Terminal, Backed,
       ResultInv, ResultIsTrue, Pending, Due
  <2> QED BY <2>1, <2>2, <2>3 DEF CtlInv
<1>7. CASE InspectRefused
  <2> USE <1>7 DEF InspectRefused, Fail, CleanTemporaries, TypeOK, CtlInv, Preparing,
     Applying, Undoing, Backward, Working, files, log, store, work, ctl, given
  <2>1. LogInv' /\ HealthInv' /\ ForwardInv' /\ BackwardInv'
    BY DEF LogInv, ForwardInv, StatusInv, HealthInv, Healthy, Failing, BackwardInv, Decided,
       Due, CanInspect, Journals
  <2>2. StatusInv' /\ Backed(meta)' /\ Backed(mem)'
    BY DEF StatusInv, BackwardInv, ForwardInv, LogInv, Due, Decided, Terminal,
       ValidTransition, Allowed, States, HealthInv, Fresh, Failing, Healthy, Backed,
       Metadata
  <2>3. CleanInv' /\ ResultInv'
    BY DEF CleanInv, Active, Decided, StatusInv, Fresh, Metadata, Terminal, Backed,
       ResultInv, ResultIsTrue, Pending, Due
  <2> QED BY <2>1, <2>2, <2>3 DEF CtlInv
<1>8. CASE InspectFails
  <2> USE <1>8 DEF InspectFails, Fault, Fail, TypeOK, CtlInv, Preparing, Applying, Undoing,
     Backward, Working, files, log, store, work, ctl, given
  <2>1. LogInv' /\ HealthInv' /\ ForwardInv' /\ BackwardInv'
    BY DEF LogInv, ForwardInv, StatusInv, HealthInv, Healthy, Failing, BackwardInv, Decided,
       Due, CanInspect, Journals
  <2>2. StatusInv' /\ Backed(meta)' /\ Backed(mem)'
    BY DEF StatusInv, BackwardInv, ForwardInv, LogInv, Due, Decided, Terminal,
       ValidTransition, Allowed, States, HealthInv, Fresh, Failing, Healthy, Backed,
       Metadata
  <2>3. CleanInv' /\ ResultInv'
    BY DEF CleanInv, Active, Decided, StatusInv, Fresh, Metadata, Terminal, Backed,
       ResultInv, ResultIsTrue, Pending, Due
  <2> QED BY <2>1, <2>2, <2>3 DEF CtlInv
<1>9. CASE LogUndo
  <2>1. cur \in jrn.prepared \ jrn.rollbackPrepared
    BY <1>9, Numbering DEF LogUndo, CtlInv, BackwardInv, Backward, Undoing, TypeOK
  <2>2. jrn' = Extend(jrn, OpRecord("ROLLBACK_PREPARED", cur)) /\ tail' = tail /\ stale' = stale
    BY <1>9 DEF LogUndo, WriteFrame, CtlInv, HealthInv, Healthy, Failing
  <2>3. Adds({}, {}, {cur}, {}, FALSE, FALSE)
    BY <1>9, <2>2, FrameEffect DEF LogUndo
  <2>4. /\ jrn'.ok /\ jrn'.state = jrn.state
        /\ jrn'.prepared = jrn.prepared /\ jrn'.applied = jrn.applied
        /\ jrn'.rollbackPrepared = jrn.rollbackPrepared \cup {cur}
        /\ jrn'.rollbackApplied = jrn.rollbackApplied
        /\ (jrn'.committed <=> jrn.committed) /\ (jrn'.rolledBack <=> jrn.rolledBack)
    BY <2>3 DEF Adds
  <2> USE <1>9 DEF LogUndo, Goto, TypeOK, CtlInv, Preparing, Applying, Undoing, Backward,
     Working, files, log, store, work, ctl, given
  <2>5. LogInv'
    BY <2>1, <2>2, <2>4 DEF LogInv, ForwardInv, StatusInv
  <2>6. HealthInv'
    BY <2>1, <2>2, <2>4 DEF HealthInv, Healthy, Failing, StatusInv, BackwardInv, Decided
  <2>7. ForwardInv'
    BY <2>1, <2>2, <2>4 DEF ForwardInv, StatusInv, LogInv, Due
  <2>8. BackwardInv'
    BY <2>1, <2>2, <2>4 DEF BackwardInv, LogInv, CanInspect, Journals
  <2>9. StatusInv' /\ Backed(meta)' /\ Backed(mem)'
    BY <2>1, <2>2, <2>4 DEF StatusInv, BackwardInv, ForwardInv, LogInv, Due, Decided,
       Terminal, ValidTransition, Allowed, States, HealthInv, Fresh, Failing, Healthy,
       Backed, Metadata
  <2>10. CleanInv' /\ ResultInv'
    BY <2>1, <2>2, <2>4 DEF CleanInv, Active, Decided, StatusInv, Fresh, Metadata, Terminal,
       Backed, ResultInv, ResultIsTrue, Pending, Due
  <2> QED BY <2>5, <2>6, <2>7, <2>8, <2>9, <2>10 DEF CtlInv
<1>10. CASE StartUndo
  <2> USE <1>10 DEF StartUndo, TypeOK, CtlInv, Preparing, Applying, Undoing, Backward,
     Working, files, log, store, work, ctl, given
  <2>1. LogInv' /\ HealthInv' /\ ForwardInv' /\ BackwardInv'
    BY DEF LogInv, ForwardInv, StatusInv, HealthInv, Healthy, Failing, BackwardInv, Decided,
       Due, CanInspect, Journals
  <2>2. StatusInv' /\ Backed(meta)' /\ Backed(mem)'
    BY DEF StatusInv, BackwardInv, ForwardInv, LogInv, Due, Decided, Terminal,
       ValidTransition, Allowed, States, HealthInv, Fresh, Failing, Healthy, Backed,
       Metadata
  <2>3. CleanInv' /\ ResultInv'
    BY DEF CleanInv, Active, Decided, StatusInv, Fresh, Metadata, Terminal, Backed,
       ResultInv, ResultIsTrue, Pending, Due
  <2> QED BY <2>1, <2>2, <2>3 DEF CtlInv
<1>11. CASE NothingToUndo
  <2> USE <1>11 DEF NothingToUndo, Goto, TypeOK, CtlInv, Preparing, Applying, Undoing,
     Backward, Working, files, log, store, work, ctl, given
  <2>1. LogInv' /\ HealthInv' /\ ForwardInv' /\ BackwardInv'
    BY DEF LogInv, ForwardInv, StatusInv, HealthInv, Healthy, Failing, BackwardInv, Decided,
       Due, CanInspect, Journals
  <2>2. StatusInv' /\ Backed(meta)' /\ Backed(mem)'
    BY DEF StatusInv, BackwardInv, ForwardInv, LogInv, Due, Decided, Terminal,
       ValidTransition, Allowed, States, HealthInv, Fresh, Failing, Healthy, Backed,
       Metadata
  <2>3. CleanInv' /\ ResultInv'
    BY DEF CleanInv, Active, Decided, StatusInv, Fresh, Metadata, Terminal, Backed,
       ResultInv, ResultIsTrue, Pending, Due
  <2> QED BY <2>1, <2>2, <2>3 DEF CtlInv
<1>12. CASE UndoRefused
  <2> USE <1>12 DEF UndoRefused, Refused, Fault, Fail, TypeOK, CtlInv, Preparing, Applying,
     Undoing, Backward, Working, files, log, store, work, ctl, given
  <2>1. LogInv' /\ HealthInv' /\ ForwardInv' /\ BackwardInv'
    BY DEF LogInv, ForwardInv, StatusInv, HealthInv, Healthy, Failing, BackwardInv, Decided,
       Due, CanInspect, Journals
  <2>2. StatusInv' /\ Backed(meta)' /\ Backed(mem)'
    BY DEF StatusInv, BackwardInv, ForwardInv, LogInv, Due, Decided, Terminal,
       ValidTransition, Allowed, States, HealthInv, Fresh, Failing, Healthy, Backed,
       Metadata
  <2>3. CleanInv' /\ ResultInv'
    BY DEF CleanInv, Active, Decided, StatusInv, Fresh, Metadata, Terminal, Backed,
       ResultInv, ResultIsTrue, Pending, Due
  <2> QED BY <2>1, <2>2, <2>3 DEF CtlInv
<1>13. CASE FinishUndo
  <2> USE <1>13 DEF FinishUndo, Goto, TypeOK, CtlInv, Preparing, Applying, Undoing,
     Backward, Working, files, log, store, work, ctl, given
  <2>1. LogInv' /\ HealthInv' /\ ForwardInv' /\ BackwardInv'
    BY DEF LogInv, ForwardInv, StatusInv, HealthInv, Healthy, Failing, BackwardInv, Decided,
       Due, CanInspect, Journals
  <2>2. StatusInv' /\ Backed(meta)' /\ Backed(mem)'
    BY DEF StatusInv, BackwardInv, ForwardInv, LogInv, Due, Decided, Terminal,
       ValidTransition, Allowed, States, HealthInv, Fresh, Failing, Healthy, Backed,
       Metadata
  <2>3. CleanInv' /\ ResultInv'
    BY DEF CleanInv, Active, Decided, StatusInv, Fresh, Metadata, Terminal, Backed,
       ResultInv, ResultIsTrue, Pending, Due
  <2> QED BY <2>1, <2>2, <2>3 DEF CtlInv
<1>14. CASE Recheck
  <2> USE <1>14 DEF Recheck, Goto, TypeOK, CtlInv, Preparing, Applying, Undoing, Backward,
     Working, files, log, store, work, ctl, given
  <2>1. LogInv' /\ HealthInv' /\ ForwardInv' /\ BackwardInv'
    BY DEF LogInv, ForwardInv, StatusInv, HealthInv, Healthy, Failing, BackwardInv, Decided,
       Due, CanInspect, Journals
  <2>2. StatusInv' /\ Backed(meta)' /\ Backed(mem)'
    BY DEF StatusInv, BackwardInv, ForwardInv, LogInv, Due, Decided, Terminal,
       ValidTransition, Allowed, States, HealthInv, Fresh, Failing, Healthy, Backed,
       Metadata
  <2>3. CleanInv' /\ ResultInv'
    BY DEF CleanInv, Active, Decided, StatusInv, Fresh, Metadata, Terminal, Backed,
       ResultInv, ResultIsTrue, Pending, Due
  <2> QED BY <2>1, <2>2, <2>3 DEF CtlInv
<1>15. CASE RecheckFails
  <2> USE <1>15 DEF RecheckFails, Refused, Fault, Fail, TypeOK, CtlInv, Preparing, Applying,
     Undoing, Backward, Working, files, log, store, work, ctl, given
  <2>1. LogInv' /\ HealthInv' /\ ForwardInv' /\ BackwardInv'
    BY DEF LogInv, ForwardInv, StatusInv, HealthInv, Healthy, Failing, BackwardInv, Decided,
       Due, CanInspect, Journals
  <2>2. StatusInv' /\ Backed(meta)' /\ Backed(mem)'
    BY DEF StatusInv, BackwardInv, ForwardInv, LogInv, Due, Decided, Terminal,
       ValidTransition, Allowed, States, HealthInv, Fresh, Failing, Healthy, Backed,
       Metadata
  <2>3. CleanInv' /\ ResultInv'
    BY DEF CleanInv, Active, Decided, StatusInv, Fresh, Metadata, Terminal, Backed,
       ResultInv, ResultIsTrue, Pending, Due
  <2> QED BY <2>1, <2>2, <2>3 DEF CtlInv
<1>16. CASE LogUndone
  <2>1. cur \in jrn.rollbackPrepared \ jrn.rollbackApplied
    BY <1>16 DEF LogUndone, CtlInv, BackwardInv, Undoing
  <2>2. /\ cur \in Nat /\ Len(prep) \in Nat /\ cur <= Len(prep) /\ jrn.state = "ROLLING_BACK"
        /\ \A i \in jrn.prepared : i \in Nat /\ (i > cur => i \in jrn.rollbackApplied)
    BY <1>16, Numbering DEF LogUndone, CtlInv, BackwardInv, Backward, Undoing, TypeOK
  <2>3. pc' = "inspect" /\ cur' = cur - 1 /\ prep' = prep
    BY <1>16 DEF LogUndone, GotoOp
  <2>4. jrn' = Extend(jrn, OpRecord("ROLLBACK_APPLIED", cur)) /\ tail' = tail /\ stale' = stale
    BY <1>16 DEF LogUndone, WriteFrame, CtlInv, HealthInv, Healthy, Failing
  <2>5. Adds({}, {}, {}, {cur}, FALSE, FALSE)
    BY <1>16, <2>4, FrameEffect DEF LogUndone
  <2>6. /\ jrn'.ok /\ jrn'.state = jrn.state
        /\ jrn'.prepared = jrn.prepared /\ jrn'.applied = jrn.applied
        /\ jrn'.rollbackPrepared = jrn.rollbackPrepared
        /\ jrn'.rollbackApplied = jrn.rollbackApplied \cup {cur}
        /\ (jrn'.committed <=> jrn.committed) /\ (jrn'.rolledBack <=> jrn.rolledBack)
    BY <2>5 DEF Adds
  <2>7. BackwardInv'
    BY <2>1, <2>2, <2>3, <2>6 DEF BackwardInv, Backward, Undoing
  <2> USE <1>16 DEF LogUndone, GotoOp, TypeOK, CtlInv, Preparing, Applying, Undoing,
     Backward, Working, files, log, store, work, ctl, given
  <2>8. LogInv'
    BY <2>1, <2>2, <2>3, <2>4, <2>6 DEF LogInv, ForwardInv, StatusInv
  <2>9. HealthInv'
    BY <2>1, <2>2, <2>3, <2>4, <2>6 DEF HealthInv, Healthy, Failing, StatusInv, BackwardInv,
       Decided
  <2>10. ForwardInv'
    BY <2>1, <2>2, <2>3, <2>4, <2>6 DEF ForwardInv, StatusInv, LogInv, Due
  <2>11. StatusInv' /\ Backed(meta)' /\ Backed(mem)'
    BY <2>1, <2>2, <2>3, <2>4, <2>6 DEF StatusInv, BackwardInv, ForwardInv, LogInv, Due,
       Decided, Terminal, ValidTransition, Allowed, States, HealthInv, Fresh, Failing,
       Healthy, Backed, Metadata
  <2>12. CleanInv' /\ ResultInv'
    BY <2>1, <2>2, <2>3, <2>4, <2>6 DEF CleanInv, Active, Decided, StatusInv, Fresh,
       Metadata, Terminal, Backed, ResultInv, ResultIsTrue, Pending, Due
  <2> QED BY <2>7, <2>8, <2>9, <2>10, <2>11, <2>12 DEF CtlInv
<1>17. CASE AllUndone
  <2>1. jrn.prepared = jrn.rollbackApplied
    BY <1>17, Numbering DEF AllUndone, CtlInv, BackwardInv, Backward, LogInv
  <2> USE <1>17 DEF AllUndone, Goto, TypeOK, CtlInv, Preparing, Applying, Undoing, Backward,
     Working, files, log, store, work, ctl, given
  <2>2. LogInv'
    BY <2>1 DEF LogInv, ForwardInv, StatusInv
  <2>3. HealthInv'
    BY <2>1 DEF HealthInv, Healthy, Failing, StatusInv, BackwardInv, Decided
  <2>4. ForwardInv'
    BY <2>1 DEF ForwardInv, StatusInv, LogInv, Due
  <2>5. BackwardInv'
    BY <2>1 DEF BackwardInv, LogInv, CanInspect, Journals
  <2>6. StatusInv' /\ Backed(meta)' /\ Backed(mem)'
    BY <2>1 DEF StatusInv, BackwardInv, ForwardInv, LogInv, Due, Decided, Terminal,
       ValidTransition, Allowed, States, HealthInv, Fresh, Failing, Healthy, Backed,
       Metadata
  <2>7. CleanInv' /\ ResultInv'
    BY <2>1 DEF CleanInv, Active, Decided, StatusInv, Fresh, Metadata, Terminal, Backed,
       ResultInv, ResultIsTrue, Pending, Due
  <2> QED BY <2>2, <2>3, <2>4, <2>5, <2>6, <2>7 DEF CtlInv
<1>18. CASE LogComplete
  <2>1. jrn' = Extend(jrn, Marker("TX_ROLLBACK_COMPLETE")) /\ tail' = tail /\ stale' = stale
    BY <1>18 DEF LogComplete, WriteFrame, CtlInv, HealthInv, Healthy, Failing
  <2>2. Adds({}, {}, {}, {}, FALSE, TRUE)
    BY <1>18, <2>1, FrameEffect DEF LogComplete
  <2>3. /\ jrn'.ok /\ jrn'.state = jrn.state
        /\ jrn'.prepared = jrn.prepared /\ jrn'.applied = jrn.applied
        /\ jrn'.rollbackPrepared = jrn.rollbackPrepared
        /\ jrn'.rollbackApplied = jrn.rollbackApplied
        /\ (jrn'.committed <=> jrn.committed) /\ jrn'.rolledBack
    BY <2>2 DEF Adds
  <2> USE <1>18 DEF LogComplete, Transition, TypeOK, CtlInv, Preparing, Applying, Undoing,
     Backward, Working, files, log, store, work, ctl, given
  <2>4. LogInv' /\ HealthInv' /\ ForwardInv' /\ BackwardInv'
    BY <2>1, <2>3 DEF LogInv, ForwardInv, StatusInv, HealthInv, Healthy, Failing,
       BackwardInv, Decided, Due, CanInspect, Journals
  <2>5. StatusInv' /\ Backed(meta)' /\ Backed(mem)'
    BY <2>1, <2>3 DEF StatusInv, BackwardInv, ForwardInv, LogInv, Due, Decided, Terminal,
       ValidTransition, Allowed, States, HealthInv, Fresh, Failing, Healthy, Backed,
       Metadata
  <2>6. CleanInv' /\ ResultInv'
    BY <2>1, <2>3 DEF CleanInv, Active, Decided, StatusInv, Fresh, Metadata, Terminal,
       Backed, ResultInv, ResultIsTrue, Pending, Due
  <2> QED BY <2>4, <2>5, <2>6 DEF CtlInv
<1>19. CASE GiveUp
  <2> USE <1>19 DEF GiveUp, Stop, Fresh, TypeOK, CtlInv, Preparing, Applying, Undoing,
     Backward, Working, files, log, store, work, ctl, given
  <2>1. LogInv' /\ HealthInv' /\ ForwardInv' /\ BackwardInv'
    BY DEF LogInv, ForwardInv, StatusInv, HealthInv, Healthy, Failing, BackwardInv, Decided,
       Due, CanInspect, Journals
  <2>2. StatusInv' /\ Backed(meta)' /\ Backed(mem)'
    BY DEF StatusInv, BackwardInv, ForwardInv, LogInv, Due, Decided, Terminal,
       ValidTransition, Allowed, States, HealthInv, Fresh, Failing, Healthy, Backed,
       Metadata
  <2>3. CleanInv' /\ ResultInv'
    BY DEF CleanInv, Active, Decided, StatusInv, Fresh, Metadata, Terminal, Backed,
       ResultInv, ResultIsTrue, Pending, Due
  <2> QED BY <2>1, <2>2, <2>3 DEF CtlInv
<1>20. CASE GiveUpFails
  <2>1. faults' # 0
    BY <1>20, FaultCounts DEF GiveUpFails
  <2> USE <1>20 DEF GiveUpFails, Fault, WriteMetadataFails, Stop, Fresh, TypeOK, CtlInv,
     Preparing, Applying, Undoing, Backward, Working, files, log, store, work, ctl, given
  <2>2. LogInv'
    BY <2>1 DEF LogInv, ForwardInv, StatusInv
  <2>3. HealthInv'
    BY <2>1 DEF HealthInv, Healthy, Failing, StatusInv, BackwardInv, Decided
  <2>4. ForwardInv'
    BY <2>1 DEF ForwardInv, StatusInv, LogInv, Due
  <2>5. BackwardInv'
    BY <2>1 DEF BackwardInv, LogInv, CanInspect, Journals
  <2>6. StatusInv' /\ Backed(meta)' /\ Backed(mem)'
    BY <2>1 DEF StatusInv, BackwardInv, ForwardInv, LogInv, Due, Decided, Terminal,
       ValidTransition, Allowed, States, HealthInv, Fresh, Failing, Healthy, Backed,
       Metadata
  <2>7. CleanInv' /\ ResultInv'
    BY <2>1 DEF CleanInv, Active, Decided, StatusInv, Fresh, Metadata, Terminal, Backed,
       ResultInv, ResultIsTrue, Pending, Due
  <2> QED BY <2>2, <2>3, <2>4, <2>5, <2>6, <2>7 DEF CtlInv
<1> QED BY <1>1, <1>2, <1>3, <1>4, <1>5, <1>6, <1>7, <1>8, <1>9, <1>10, <1>11, <1>12, <1>13,
   <1>14, <1>15, <1>16, <1>17, <1>18, <1>19, <1>20 DEF Recover

\* Transition and the end of the transaction (state.go).
LEMMA DurableStep == Inv /\ TypeOK' /\ Durable => CtlInv'
<1> SUFFICES ASSUME Inv, TypeOK', Durable PROVE CtlInv'
  OBVIOUS
<1> USE DEF Inv
<1>1. CASE AppendState
  <2>1. /\ pc = "transition" /\ WriteFrame(StateRecord(to)) /\ pc' = "persist"
        /\ to' = to /\ faults' = faults /\ tail' = tail /\ stale' = stale
    BY <1>1 DEF AppendState, WriteFrame, ctl
  <2>2. mem'.status = to /\ mem'.cleaned = mem.cleaned
    BY <1>1 DEF AppendState, TypeOK, Metadata
  <2>3. /\ Remembers /\ jrn'.state \in {jrn.state, to}
        /\ to # "RECOVERY_FAILED" \/ faults = 0 => Healthy' /\ jrn'.state = to
    <3>1. CASE stale \/ tail = "torn"
      <4>1. to = "RECOVERY_FAILED" /\ faults # 0
        BY <2>1, <3>1 DEF CtlInv, HealthInv, Healthy, Failing
      <4>2. jrn' \in {jrn, Corrupted(jrn)}
        BY <2>1, <3>1 DEF WriteFrame, Unread
      <4> QED BY <4>1, <4>2, SpoiltEffect
    <3>2. CASE ~(stale \/ tail = "torn")
      <4>1. jrn' = Extend(jrn, StateRecord(to))
        BY <2>1, <3>2 DEF WriteFrame
      <4>2. tail = "clean"
        BY <3>2 DEF TypeOK
      <4> QED BY <2>1, <3>2, <4>1, <4>2, StateFrameEffect DEF Healthy
    <3> QED BY <3>1, <3>2
  <2> USE <1>1 DEF AppendState, TypeOK, CtlInv, Preparing, Applying, Undoing, Backward,
     Working, files, store, work, given
  <2>4. LogInv'
    BY <2>1, <2>2, <2>3 DEF Remembers, LogInv, Due, ForwardInv, StatusInv
  <2>5. HealthInv'
    BY <2>1, <2>2, <2>3 DEF Remembers, HealthInv, Healthy, Failing, StatusInv, BackwardInv, Decided
  <2>6. ForwardInv'
    BY <2>1, <2>2, <2>3 DEF Remembers, ForwardInv, StatusInv, LogInv, Due
  <2>7. BackwardInv'
    BY <2>1, <2>2, <2>3 DEF Remembers, BackwardInv, LogInv, CanInspect, Journals
  <2>8. StatusInv'
    BY <2>1, <2>2, <2>3 DEF Remembers, StatusInv, BackwardInv, ForwardInv, LogInv, Due, Decided,
       Terminal, ValidTransition, Allowed, States, HealthInv, Fresh, Failing, Healthy,
       Backed, Metadata
  <2>9. Backed(meta)'
    BY <2>1, <2>2, <2>3 DEF Remembers, Backed, Due, StatusInv, LogInv, Fresh, Metadata
  <2>10. Backed(mem)'
    BY <2>1, <2>2, <2>3 DEF Remembers, Backed, Due, StatusInv, Fresh, LogInv, Metadata
  <2>11. CleanInv'
    BY <2>1, <2>2, <2>3 DEF Remembers, CleanInv, Active, Decided, StatusInv, Fresh, Metadata, Terminal,
       Backed
  <2>12. ResultInv'
    BY <2>1, <2>2, <2>3 DEF Remembers, ResultInv, ResultIsTrue, Pending, CleanInv, StatusInv, Terminal,
       Decided, Backed, Due, Fresh, Metadata
  <2> QED BY <2>4, <2>5, <2>6, <2>7, <2>8, <2>9, <2>10, <2>11, <2>12 DEF CtlInv
<1>2. CASE PersistState
  <2>1. CASE to = "PREPARED" /\ Transition("RUNNING")
    <3> USE <1>2, <2>1 DEF PersistState, Transition, TypeOK, CtlInv, Preparing, Applying,
       Undoing, Backward, Working, files, log, store, work, ctl, given
    <3>1. LogInv'
      BY DEF LogInv, ForwardInv, StatusInv
    <3>2. HealthInv'
      BY DEF HealthInv, Healthy, Failing, StatusInv, BackwardInv, Decided
    <3>3. ForwardInv'
      BY DEF ForwardInv, StatusInv, LogInv, Due
    <3>4. BackwardInv'
      BY DEF BackwardInv, LogInv, CanInspect, Journals
    <3>5. StatusInv'
      BY DEF StatusInv, BackwardInv, ForwardInv, LogInv, Due, Decided, Terminal,
         ValidTransition, Allowed, States, HealthInv, Fresh, Failing, Healthy, Backed,
         Metadata
    <3>6. Backed(meta)'
      BY DEF Backed, StatusInv, LogInv, Fresh, Metadata
    <3>7. Backed(mem)'
      BY DEF Backed, StatusInv, Fresh, LogInv, Metadata
    <3>8. CleanInv'
      BY DEF CleanInv, Active, Decided, StatusInv, Fresh, Metadata, Terminal, Backed
    <3>9. ResultInv'
      BY DEF ResultInv, ResultIsTrue, Pending, CleanInv, StatusInv, Terminal, Decided,
         Backed, Due, Fresh, Metadata
    <3> QED BY <3>1, <3>2, <3>3, <3>4, <3>5, <3>6, <3>7, <3>8, <3>9 DEF CtlInv
  <2>2. CASE to = "RUNNING" /\ NextOperation(1)
    <3> USE <1>2, <2>2 DEF PersistState, NextOperation, GotoOp, Transition, TypeOK, CtlInv,
       Preparing, Applying, Undoing, Backward, Working, files, log, store, work, ctl, given
    <3>1. LogInv'
      BY DEF LogInv, ForwardInv, StatusInv
    <3>2. HealthInv'
      BY DEF HealthInv, Healthy, Failing, StatusInv, BackwardInv, Decided
    <3>3. ForwardInv'
      BY StartForward DEF StatusInv, Due
    <3>4. BackwardInv'
      BY DEF BackwardInv, LogInv, CanInspect, Journals
    <3>5. StatusInv'
      BY Numbering DEF StatusInv, Due, ValidTransition, Allowed, States, Decided
    <3>6. Backed(meta)'
      BY DEF Backed, StatusInv, LogInv, Fresh, Metadata
    <3>7. Backed(mem)'
      BY DEF Backed, StatusInv, Fresh, LogInv, Metadata
    <3>8. CleanInv'
      BY DEF CleanInv, Active, Decided, StatusInv, Fresh, Metadata, Terminal, Backed
    <3>9. ResultInv'
      BY DEF ResultInv, ResultIsTrue, Pending, CleanInv, StatusInv, Terminal, Decided,
         Backed, Due, Fresh, Metadata
    <3> QED BY <3>1, <3>2, <3>3, <3>4, <3>5, <3>6, <3>7, <3>8, <3>9 DEF CtlInv
  <2>3. CASE to = "VERIFYING" /\ NextAssertion(1)
    <3> USE <1>2, <2>3 DEF PersistState, NextAssertion, GotoOp, Transition, TypeOK, CtlInv,
       Preparing, Applying, Undoing, Backward, Working, files, log, store, work, ctl, given
    <3>1. LogInv'
      BY DEF LogInv, ForwardInv, StatusInv
    <3>2. HealthInv'
      BY DEF HealthInv, Healthy, Failing, StatusInv, BackwardInv, Decided
    <3>3. ForwardInv'
      BY DEF ForwardInv, StatusInv, LogInv, Due
    <3>4. BackwardInv'
      BY DEF BackwardInv, LogInv, CanInspect, Journals
    <3>5. StatusInv'
      BY DEF StatusInv, BackwardInv, ForwardInv, LogInv, Due, Decided, Terminal,
         ValidTransition, Allowed, States, HealthInv, Fresh, Failing, Healthy, Backed,
         Metadata
    <3>6. Backed(meta)'
      BY DEF Backed, StatusInv, LogInv, Fresh, Metadata
    <3>7. Backed(mem)'
      BY DEF Backed, StatusInv, Fresh, LogInv, Metadata
    <3>8. CleanInv'
      BY DEF CleanInv, Active, Decided, StatusInv, Fresh, Metadata, Terminal, Backed
    <3>9. ResultInv'
      BY DEF ResultInv, ResultIsTrue, Pending, CleanInv, StatusInv, Terminal, Decided,
         Backed, Due, Fresh, Metadata
    <3> QED BY <3>1, <3>2, <3>3, <3>4, <3>5, <3>6, <3>7, <3>8, <3>9 DEF CtlInv
  <2>4. CASE to = "COMMITTING" /\ Goto("log commit")
    <3> USE <1>2, <2>4 DEF PersistState, Goto, TypeOK, CtlInv, Preparing, Applying, Undoing,
       Backward, Working, files, log, store, work, ctl, given
    <3>1. LogInv'
      BY DEF LogInv, ForwardInv, StatusInv
    <3>2. HealthInv'
      BY DEF HealthInv, Healthy, Failing, StatusInv, BackwardInv, Decided
    <3>3. ForwardInv'
      BY DEF ForwardInv, StatusInv, LogInv, Due
    <3>4. BackwardInv'
      BY DEF BackwardInv, LogInv, CanInspect, Journals
    <3>5. StatusInv'
      BY DEF StatusInv, BackwardInv, ForwardInv, LogInv, Due, Decided, Terminal,
         ValidTransition, Allowed, States, HealthInv, Fresh, Failing, Healthy, Backed,
         Metadata
    <3>6. Backed(meta)'
      BY DEF Backed, StatusInv, LogInv, Fresh, Metadata
    <3>7. Backed(mem)'
      BY DEF Backed, StatusInv, Fresh, LogInv, Metadata
    <3>8. CleanInv'
      BY DEF CleanInv, Active, Decided, StatusInv, Fresh, Metadata, Terminal, Backed
    <3>9. ResultInv'
      BY DEF ResultInv, ResultIsTrue, Pending, CleanInv, StatusInv, Terminal, Decided,
         Backed, Due, Fresh, Metadata
    <3> QED BY <3>1, <3>2, <3>3, <3>4, <3>5, <3>6, <3>7, <3>8, <3>9 DEF CtlInv
  <2>5. CASE to = "ROLLING_BACK" /\ GotoOp("inspect", Len(prep))
    <3> USE <1>2, <2>5 DEF PersistState, GotoOp, TypeOK, CtlInv, Preparing, Applying,
       Undoing, Backward, Working, files, log, store, work, ctl, given
    <3>1. LogInv'
      BY DEF LogInv, ForwardInv, StatusInv
    <3>2. HealthInv'
      BY DEF HealthInv, Healthy, Failing, StatusInv, BackwardInv, Decided
    <3>3. ForwardInv'
      BY DEF ForwardInv, StatusInv, LogInv, Due
    <3>4. BackwardInv'
      BY StartBackward DEF StatusInv, LogInv
    <3>5. StatusInv'
      BY DEF StatusInv, BackwardInv, ForwardInv, LogInv, Due, Decided, Terminal,
         ValidTransition, Allowed, States, HealthInv, Fresh, Failing, Healthy, Backed,
         Metadata
    <3>6. Backed(meta)'
      BY DEF Backed, StatusInv, LogInv, Fresh, Metadata
    <3>7. Backed(mem)'
      BY DEF Backed, StatusInv, Fresh, LogInv, Metadata
    <3>8. CleanInv'
      BY DEF CleanInv, Active, Decided, StatusInv, Fresh, Metadata, Terminal, Backed
    <3>9. ResultInv'
      BY DEF ResultInv, ResultIsTrue, Pending, CleanInv, StatusInv, Terminal, Decided,
         Backed, Due, Fresh, Metadata
    <3> QED BY <3>1, <3>2, <3>3, <3>4, <3>5, <3>6, <3>7, <3>8, <3>9 DEF CtlInv
  <2>6. CASE to \in {"COMMITTED", "ROLLED_BACK"} /\ Goto("cleanup")
    <3> USE <1>2, <2>6 DEF PersistState, Goto, TypeOK, CtlInv, Preparing, Applying, Undoing,
       Backward, Working, files, log, store, work, ctl, given
    <3>1. LogInv'
      BY DEF LogInv, ForwardInv, StatusInv
    <3>2. HealthInv'
      BY DEF HealthInv, Healthy, Failing, StatusInv, BackwardInv, Decided
    <3>3. ForwardInv'
      BY DEF ForwardInv, StatusInv, LogInv, Due
    <3>4. BackwardInv'
      BY DEF BackwardInv, LogInv, CanInspect, Journals
    <3>5. StatusInv'
      BY DEF StatusInv, BackwardInv, ForwardInv, LogInv, Due, Decided, Terminal,
         ValidTransition, Allowed, States, HealthInv, Fresh, Failing, Healthy, Backed,
         Metadata
    <3>6. Backed(meta)'
      BY DEF Backed, StatusInv, LogInv, Fresh, Metadata
    <3>7. Backed(mem)'
      BY DEF Backed, StatusInv, Fresh, LogInv, Metadata
    <3>8. CleanInv'
      BY DEF CleanInv, Active, Decided, StatusInv, Fresh, Metadata, Terminal, Backed
    <3>9. ResultInv'
      BY DEF ResultInv, ResultIsTrue, Pending, CleanInv, StatusInv, Terminal, Decided,
         Backed, Due, Fresh, Metadata
    <3> QED BY <3>1, <3>2, <3>3, <3>4, <3>5, <3>6, <3>7, <3>8, <3>9 DEF CtlInv
  <2>7. CASE Stop("RECOVERY_FAILED")
    <3> USE <1>2, <2>7 DEF PersistState, Stop, Fresh, TypeOK, CtlInv, Preparing, Applying,
       Undoing, Backward, Working, files, log, store, work, ctl, given
    <3>1. LogInv'
      BY DEF LogInv, ForwardInv, StatusInv
    <3>2. HealthInv'
      BY DEF HealthInv, Healthy, Failing, StatusInv, BackwardInv, Decided
    <3>3. ForwardInv'
      BY DEF ForwardInv, StatusInv, LogInv, Due
    <3>4. BackwardInv'
      BY DEF BackwardInv, LogInv, CanInspect, Journals
    <3>5. StatusInv'
      BY DEF StatusInv, BackwardInv, ForwardInv, LogInv, Due, Decided, Terminal,
         ValidTransition, Allowed, States, HealthInv, Fresh, Failing, Healthy, Backed,
         Metadata
    <3>6. Backed(meta)'
      BY DEF Backed, StatusInv, LogInv, Fresh, Metadata
    <3>7. Backed(mem)'
      BY DEF Backed, StatusInv, Fresh, LogInv, Metadata
    <3>8. CleanInv'
      BY DEF CleanInv, Active, Decided, StatusInv, Fresh, Metadata, Terminal, Backed
    <3>9. ResultInv'
      BY DEF ResultInv, ResultIsTrue, Pending, CleanInv, StatusInv, Terminal, Decided,
         Backed, Due, Fresh, Metadata
    <3> QED BY <3>1, <3>2, <3>3, <3>4, <3>5, <3>6, <3>7, <3>8, <3>9 DEF CtlInv
  <2> QED BY <1>2, <2>1, <2>2, <2>3, <2>4, <2>5, <2>6, <2>7, AfterStateCases DEF PersistState
<1>3. CASE PersistStateFails
  <2>1. pc' # "transition"
    BY <1>3, FailEffect, StopEffect DEF PersistStateFails, StateError, RollbackFailure, CtlInv, StatusInv
  <2>2. \/ mem'.status = "PLANNED" /\ ~mem'.cleaned /\ pc' = "stopped"
        \/ mem' = mem /\ pc' \in {"recover", "transition"}
        \/ mem'.status = "RECOVERY_FAILED" /\ mem'.cleaned = mem.cleaned /\ pc' = "give up"
    BY <1>3, <2>1, FailEffect, StopEffect DEF PersistStateFails, StateError, RollbackFailure
  <2>3. faults' # 0
    BY <1>3, FaultCounts DEF PersistStateFails
  <2> USE <1>3 DEF PersistStateFails, Fault, WriteMetadataFails, StateError, Stop, Fresh,
     Fail, RollbackFailure, TypeOK, CtlInv, Preparing, Applying, Undoing, Backward, Working,
     files, log, store, work, ctl, given
  <2>4. LogInv'
    BY <2>1, <2>2, <2>3 DEF LogInv, ForwardInv, StatusInv
  <2>5. HealthInv'
    BY <2>1, <2>2, <2>3 DEF HealthInv, Healthy, Failing, StatusInv, BackwardInv, Decided
  <2>6. ForwardInv'
    BY <2>1, <2>2, <2>3 DEF ForwardInv, StatusInv, LogInv, Due
  <2>7. BackwardInv'
    BY <2>1, <2>2, <2>3 DEF BackwardInv, LogInv, CanInspect, Journals
  <2>8. StatusInv'
    BY <2>1, <2>2, <2>3 DEF StatusInv, BackwardInv, ForwardInv, LogInv, Due, Decided,
       Terminal, ValidTransition, Allowed, States, HealthInv, Fresh, Failing, Healthy,
       Backed, Metadata
  <2>9. Backed(meta)'
    BY <2>1, <2>2, <2>3 DEF Backed, StatusInv, LogInv, Fresh, Metadata
  <2>10. Backed(mem)'
    BY <2>1, <2>2, <2>3 DEF Backed, StatusInv, Fresh, LogInv, Metadata
  <2>11. CleanInv'
    BY <2>1, <2>2, <2>3 DEF CleanInv, Active, Decided, StatusInv, Fresh, Metadata, Terminal,
       Backed
  <2>12. ResultInv'
    BY <2>1, <2>2, <2>3 DEF ResultInv, ResultIsTrue, Pending, CleanInv, StatusInv, Terminal,
       Decided, Backed, Due, Fresh, Metadata
  <2> QED BY <2>4, <2>5, <2>6, <2>7, <2>8, <2>9, <2>10, <2>11, <2>12 DEF CtlInv
<1>4. CASE AppendFails
  <2>1. /\ pc \in Appending /\ WriteFrameError(Frame) /\ AppendError /\ faults' # 0
        /\ prep' = IF pc = "log prepared" /\ jrn'.prepared # jrn.prepared
                    THEN Append(prep, Prepare(fs, Op)) ELSE prep
        /\ UNCHANGED <<bak, meta, lock, script>>
    BY <1>4, FaultCounts DEF AppendFails, files, store, given
  <2>2. \/ /\ pc' = "stopped" /\ result' \in {"RECOVERY_REQUIRED", "RECOVERY_FAILED"}
           /\ mem'.status = "PLANNED" /\ ~mem'.cleaned
        \/ /\ pc' = "recover" /\ UNCHANGED <<mem, result>> /\ pc = "transition"
           /\ to \in {"RUNNING", "VERIFYING", "COMMITTING"}
        \/ /\ pc' = "transition" /\ to' = "RECOVERY_FAILED" /\ UNCHANGED <<mem, result>>
           /\ mem.status = "ROLLING_BACK"
    BY <2>1, AppendErrorEffect
  <2>3. LogInv' /\ (jrn.committed => jrn'.committed) /\ (jrn.rolledBack => jrn'.rolledBack)
    BY <2>1, AppendedLog
  <2>4. HealthInv'
    BY <2>1, <2>2 DEF HealthInv, Failing
  <2>5. ForwardInv' /\ BackwardInv'
    BY <2>2 DEF ForwardInv, BackwardInv, Preparing, Applying, Undoing, Backward
  <2>6. StatusInv'
    BY <2>1, <2>2 DEF StatusInv, Working, Preparing, Applying, Undoing, Backward,
       ValidTransition, Allowed, States
  <2>7. Backed(meta)' /\ Backed(mem)'
    BY <2>1, <2>2, <2>3 DEF CtlInv, Backed
  <2>8. CleanInv'
    BY <2>1, <2>2, <2>3 DEF CtlInv, CleanInv, Decided, Active, Appending
  <2>9. ResultInv'
    BY <2>1, <2>2 DEF CtlInv, ResultInv, ResultIsTrue, Pending, CleanInv, StatusInv, Due, Decided,
       Active, Terminal, Backed, Appending
  <2> QED BY <2>3, <2>4, <2>5, <2>6, <2>7, <2>8, <2>9 DEF CtlInv
<1>5. CASE RemoveBackups
  <2> USE <1>5 DEF RemoveBackups, TypeOK, CtlInv, Preparing, Applying, Undoing, Backward,
     Working, files, log, store, work, ctl, given
  <2>1. LogInv' /\ HealthInv' /\ ForwardInv' /\ BackwardInv'
    BY DEF LogInv, ForwardInv, StatusInv, HealthInv, Healthy, Failing, BackwardInv, Decided,
       Due, CanInspect, Journals
  <2>2. StatusInv' /\ Backed(meta)' /\ Backed(mem)'
    BY DEF StatusInv, BackwardInv, ForwardInv, LogInv, Due, Decided, Terminal,
       ValidTransition, Allowed, States, HealthInv, Fresh, Failing, Healthy, Backed,
       Metadata
  <2>3. CleanInv' /\ ResultInv'
    BY DEF CleanInv, Active, Decided, StatusInv, Fresh, Metadata, Terminal, Backed,
       ResultInv, ResultIsTrue, Pending, Due
  <2> QED BY <2>1, <2>2, <2>3 DEF CtlInv
<1>6. CASE RecordCleanup
  <2> USE <1>6 DEF RecordCleanup, Goto, TypeOK, CtlInv, Preparing, Applying, Undoing,
     Backward, Working, files, log, store, work, ctl, given
  <2>1. LogInv' /\ HealthInv' /\ ForwardInv' /\ BackwardInv'
    BY DEF LogInv, ForwardInv, StatusInv, HealthInv, Healthy, Failing, BackwardInv, Decided,
       Due, CanInspect, Journals
  <2>2. StatusInv' /\ Backed(meta)' /\ Backed(mem)'
    BY DEF StatusInv, BackwardInv, ForwardInv, LogInv, Due, Decided, Terminal,
       ValidTransition, Allowed, States, HealthInv, Fresh, Failing, Healthy, Backed,
       Metadata
  <2>3. CleanInv' /\ ResultInv'
    BY DEF CleanInv, Active, Decided, StatusInv, Fresh, Metadata, Terminal, Backed,
       ResultInv, ResultIsTrue, Pending, Due
  <2> QED BY <2>1, <2>2, <2>3 DEF CtlInv
<1>7. CASE Release
  <2> USE <1>7 DEF Release, Stop, Fresh, TypeOK, CtlInv, Preparing, Applying, Undoing,
     Backward, Working, files, log, store, work, ctl, given
  <2>1. LogInv' /\ HealthInv' /\ ForwardInv' /\ BackwardInv'
    BY DEF LogInv, ForwardInv, StatusInv, HealthInv, Healthy, Failing, BackwardInv, Decided,
       Due, CanInspect, Journals
  <2>2. StatusInv' /\ Backed(meta)' /\ Backed(mem)'
    BY DEF StatusInv, BackwardInv, ForwardInv, LogInv, Due, Decided, Terminal,
       ValidTransition, Allowed, States, HealthInv, Fresh, Failing, Healthy, Backed,
       Metadata
  <2>3. CleanInv' /\ ResultInv'
    BY DEF CleanInv, Active, Decided, StatusInv, Fresh, Metadata, Terminal, Backed,
       ResultInv, ResultIsTrue, Pending, Due
  <2> QED BY <2>1, <2>2, <2>3 DEF CtlInv
<1>8. CASE EndFails
  <2>1. \/ mem'.status = "PLANNED" /\ ~mem'.cleaned /\ pc' = "stopped"
        \/ mem' = mem /\ pc' \in {"recover", "transition"}
        \/ mem'.status = "RECOVERY_FAILED" /\ mem'.cleaned = mem.cleaned /\ pc' = "give up"
    BY <1>8, FailEffect, StopEffect DEF EndFails
  <2>2. EndAttempted
    BY <1>8 DEF EndFails
  <2>3. bak' = bak \/ (bak' = [s \in Slots |-> Absent] /\ Decided)
    BY <1>8 DEF EndFails, EndAttempted, CtlInv, StatusInv, Backed, Terminal, Decided
  <2>4. pc = "cleaned" => mem.cleaned
    BY DEF CtlInv, CleanInv
  <2>5. meta' = meta \/ (meta' = mem /\ pc = "cleaned")
    BY <2>2 DEF EndAttempted
  <2>6. lock' = lock \/ meta.cleaned
    BY <1>8 DEF EndFails, EndAttempted, CtlInv, CleanInv
  <2> USE <1>8 DEF EndFails, Fault, EndAttempted, Stop, Fresh, Fail, TypeOK, CtlInv,
     Preparing, Applying, Undoing, Backward, Working, files, log, store, work, ctl, given
  <2>7. LogInv' /\ HealthInv' /\ ForwardInv' /\ BackwardInv'
    BY <2>1, <2>2, <2>3, <2>4, <2>5, <2>6 DEF LogInv, ForwardInv, StatusInv, HealthInv,
       Healthy, Failing, BackwardInv, Decided, Due, CanInspect, Journals
  <2>8. StatusInv'
    BY <2>1, <2>2, <2>3, <2>4, <2>5, <2>6 DEF StatusInv, BackwardInv, ForwardInv, LogInv,
       Due, Decided, Terminal, ValidTransition, Allowed, States, HealthInv, Fresh, Failing,
       Healthy, Backed, Metadata
  <2>9. Backed(meta)'
    BY <2>1, <2>2, <2>3, <2>4, <2>5, <2>6 DEF Backed, StatusInv, LogInv, Fresh, Metadata
  <2>10. Backed(mem)'
    BY <2>1, <2>2, <2>3, <2>4, <2>5, <2>6 DEF Backed, StatusInv, Fresh, LogInv, Metadata
  <2>11. CleanInv'
    BY <2>1, <2>2, <2>3, <2>4, <2>5, <2>6 DEF CleanInv, Active, Decided, StatusInv, Fresh,
       Metadata, Terminal, Backed
  <2>12. ResultInv'
    BY <2>1, <2>2, <2>3, <2>4, <2>5, <2>6 DEF ResultInv, ResultIsTrue, Pending, CleanInv,
       StatusInv, Terminal, Decided, Backed, Due, Fresh, Metadata
  <2> QED BY <2>7, <2>8, <2>9, <2>10, <2>11, <2>12 DEF CtlInv
<1> QED BY <1>1, <1>2, <1>3, <1>4, <1>5, <1>6, <1>7, <1>8 DEF Durable

\* A file system call that succeeds changes the files alone.
LEMMA Quiet ==
  /\ CtlInv /\ UNCHANGED <<log, store, ctl, stale, cur, bak, script>>
  /\ faults' = 0 => faults = 0
  => CtlInv'
<1> SUFFICES ASSUME CtlInv, UNCHANGED <<log, store, ctl, stale, cur, bak, script>>,
                    faults' = 0 => faults = 0
             PROVE  CtlInv'
  OBVIOUS
<1> USE DEF log, store, ctl
<1>1. LogInv'
  BY DEF CtlInv, LogInv
<1>2. HealthInv'
  BY DEF CtlInv, HealthInv, Failing, Healthy
<1>3. ForwardInv'
  BY DEF CtlInv, ForwardInv
<1>4. BackwardInv'
  BY DEF CtlInv, BackwardInv
<1>5. StatusInv'
  BY DEF CtlInv, StatusInv, Due, Decided
<1>6. Backed(meta)'
  BY DEF CtlInv, Backed
<1>7. Backed(mem)'
  BY DEF CtlInv, Backed
<1>8. CleanInv'
  BY DEF CtlInv, CleanInv, Active, Decided
<1>9. ResultInv'
  BY DEF CtlInv, ResultInv, ResultIsTrue, Pending
<1> QED BY <1>1, <1>2, <1>3, <1>4, <1>5, <1>6, <1>7, <1>8, <1>9 DEF CtlInv

\* The calls of Apply and Undo (engine.go).
LEMMA FileStep == Inv /\ TypeOK' /\ FileCall => CtlInv'
<1> SUFFICES ASSUME Inv, TypeOK', FileCall PROVE CtlInv'
  OBVIOUS
<1> USE DEF Inv
<1>1. CASE DoCreate
  BY <1>1, Quiet DEF DoCreate, files, CallFrame, given
<1>2. CASE DoFill
  BY <1>2, Quiet DEF DoFill, files, CallFrame, given
<1>3. CASE DoRemove
  BY <1>3, Quiet DEF DoRemove, files, CallFrame, given
<1>4. CASE DoRemoveSome
  BY <1>4, Quiet DEF DoRemoveSome, files, CallFrame, given
<1>5. CASE DoInstall
  BY <1>5, Quiet DEF DoInstall, files, CallFrame, given
<1>6. CASE DoRename
  BY <1>6, Quiet DEF DoRename, files, CallFrame, given
<1>7. CASE DoFailedRename
  <2>1. faults' = 0 => faults = 0
    BY <1>7 DEF DoFailedRename, Refused, Fault, TypeOK
  <2>2. UNCHANGED <<files, log, store, ctl, stale, cur, given>>
    BY <1>7 DEF DoFailedRename
  <2> QED BY <2>1, <2>2, Quiet DEF files, given
<1>8. CASE DoMkdir
  BY <1>8, Quiet DEF DoMkdir, files, CallFrame, given
<1>9. CASE DoRmdir
  BY <1>9, Quiet DEF DoRmdir, files, CallFrame, given
<1>10. CASE DoCheckAbsent
  BY <1>10, Quiet DEF DoCheckAbsent, files, CallFrame, given
<1>11. CASE CallFails
  <2> USE <1>11 DEF CallFails, Refused, Fault, Fail, RollbackFailure, TypeOK, CtlInv,
     Preparing, Applying, Undoing, Backward, Working, files, log, store, work, ctl, given
  <2>1. LogInv' /\ HealthInv' /\ ForwardInv' /\ BackwardInv'
    BY DEF LogInv, ForwardInv, StatusInv, HealthInv, Healthy, Failing, BackwardInv, Decided,
       Due, CanInspect, Journals
  <2>2. StatusInv' /\ Backed(meta)' /\ Backed(mem)'
    BY DEF StatusInv, BackwardInv, ForwardInv, LogInv, Due, Decided, Terminal,
       ValidTransition, Allowed, States, HealthInv, Fresh, Failing, Healthy, Backed,
       Metadata
  <2>3. CleanInv' /\ ResultInv'
    BY DEF CleanInv, Active, Decided, StatusInv, Fresh, Metadata, Terminal, Backed,
       ResultInv, ResultIsTrue, Pending, Due
  <2> QED BY <2>1, <2>2, <2>3 DEF CtlInv
<1> QED BY <1>1, <1>2, <1>3, <1>4, <1>5, <1>6, <1>7, <1>8, <1>9, <1>10, <1>11 DEF FileCall

\* A process ends or a new one starts.
LEMMA OtherStep == Inv /\ TypeOK' /\ (RecoverCommand \/ Crash \/ Done \/ UNCHANGED vars) => CtlInv'
<1> SUFFICES ASSUME Inv, TypeOK', RecoverCommand \/ Crash \/ Done \/ UNCHANGED vars PROVE CtlInv'
  OBVIOUS
<1> USE DEF Inv
<1>1. CASE RecoverCommand
  <2> USE <1>1 DEF RecoverCommand, TypeOK, CtlInv, Preparing, Applying, Undoing, Backward,
     Working, files, log, store, work, ctl, given
  <2>1. LogInv' /\ HealthInv' /\ ForwardInv' /\ BackwardInv'
    BY DEF LogInv, ForwardInv, StatusInv, HealthInv, Healthy, Failing, BackwardInv, Decided,
       Due, CanInspect, Journals
  <2>2. StatusInv' /\ Backed(meta)' /\ Backed(mem)'
    BY DEF StatusInv, BackwardInv, ForwardInv, LogInv, Due, Decided, Terminal,
       ValidTransition, Allowed, States, HealthInv, Fresh, Failing, Healthy, Backed,
       Metadata
  <2>3. CleanInv' /\ ResultInv'
    BY DEF CleanInv, Active, Decided, StatusInv, Fresh, Metadata, Terminal, Backed,
       ResultInv, ResultIsTrue, Pending, Due
  <2> QED BY <2>1, <2>2, <2>3 DEF CtlInv
<1>2. CASE Crash
  <2> USE <1>2 DEF Crash, Stop, Fresh, TypeOK, CtlInv, Preparing, Applying, Undoing,
     Backward, Working, files, log, store, work, ctl, given
  <2>1. LogInv' /\ HealthInv' /\ ForwardInv' /\ BackwardInv'
    BY DEF LogInv, ForwardInv, StatusInv, HealthInv, Healthy, Failing, BackwardInv, Decided,
       Due, CanInspect, Journals
  <2>2. StatusInv' /\ Backed(meta)' /\ Backed(mem)'
    BY DEF StatusInv, BackwardInv, ForwardInv, LogInv, Due, Decided, Terminal,
       ValidTransition, Allowed, States, HealthInv, Fresh, Failing, Healthy, Backed,
       Metadata
  <2>3. CleanInv' /\ ResultInv'
    BY DEF CleanInv, Active, Decided, StatusInv, Fresh, Metadata, Terminal, Backed,
       ResultInv, ResultIsTrue, Pending, Due
  <2> QED BY <2>1, <2>2, <2>3 DEF CtlInv
<1>3. CASE Done \/ UNCHANGED vars
  BY <1>3, Quiet DEF Done, vars, files, log, store, work, ctl, given
<1> QED BY <1>1, <1>2, <1>3

--------------------------------------------------------------------------------

\* The invariant holds when no transaction has begun.
LEMMA InitInv == Init => Inv
<1> SUFFICES ASSUME Init PROVE Inv
  OBVIOUS
<1>1. TypeOK
  <2> USE BoundsAssumption DEF Init
  <2>1. fs \in [Paths -> Entries] /\ origin \in [Paths -> Entries] /\ script \in Seq(Operations)
    OBVIOUS
  <2>2. tmp \in [Slots -> Entries] /\ bak \in [Slots -> Entries]
    BY DEF Entries
  <2>3. jrn \in Journals
    BY DEF BegunJournal, Journals, States
  <2>4. prep \in Seq(Descriptors) /\ todo \in Seq(Calls)
    OBVIOUS
  <2>5. meta \in Metadata /\ mem \in Metadata
    BY DEF Fresh, Metadata, States
  <2> QED BY <2>1, <2>2, <2>3, <2>4, <2>5 DEF TypeOK, States, Locations, Results
<1>2. Len(script) \in Nat /\ Len(script) <= MaxOps
  BY BoundsAssumption DEF Init
<1> USE DEF Init
<1>3. LogInv
  BY <1>2 DEF LogInv, BegunJournal
<1>4. HealthInv
  BY DEF HealthInv, Healthy, BegunJournal
<1>5. ForwardInv
  BY DEF ForwardInv, Preparing, Applying, BegunJournal
<1>6. BackwardInv
  BY DEF BackwardInv, Backward, Undoing
<1>7. StatusInv
  BY DEF StatusInv, Fresh, BegunJournal, Decided, Working
<1>8. Backed(meta) /\ Backed(mem)
  BY DEF Backed, Fresh
<1>9. CleanInv
  BY DEF CleanInv, Active, Fresh
<1>10. ResultInv
  BY DEF ResultInv, ResultIsTrue
<1> QED BY <1>1, <1>3, <1>4, <1>5, <1>6, <1>7, <1>8, <1>9, <1>10 DEF Inv, CtlInv

\* Every step preserves the types.
LEMMA TypeStep == Inv /\ [Next]_vars => TypeOK'
<1> SUFFICES ASSUME Inv, [Next]_vars PROVE TypeOK'
  OBVIOUS
<1>1. /\ TypeOK /\ CtlInv
      /\ FilesOK /\ LogOK /\ StatusOK /\ ControlOK /\ WorkOK /\ CountsOK
  BY TypeParts DEF Inv
<1>2. FilesOK' /\ LogOK' /\ WorkOK'
  BY <1>1, FilesType, LogType, WorkType
<1>3. StatusOK' /\ ControlOK' /\ CountsOK'
  BY <1>1, StatusType, ControlType, CountsType
<1> QED BY <1>2, <1>3 DEF TypeOK, FilesOK, LogOK, StatusOK, ControlOK, WorkOK, CountsOK

\* Every step preserves the invariant.
LEMMA InvStep == Inv /\ [Next]_vars => Inv'
<1>1. Inv /\ [Next]_vars => TypeOK'
  BY TypeStep
<1>2. Inv /\ TypeOK' /\ [Next]_vars => CtlInv'
  BY ExecuteStep, FileStep, RecoverStep, DurableStep, OtherStep DEF Next, Run
<1> QED BY <1>1, <1>2 DEF Inv

\* The four views of the transaction agree in every reachable state.
THEOREM Invariance == Spec => []Inv
BY InitInv, InvStep, PTL DEF Spec

\* Every variable keeps its type, whatever crashes and whatever fails.
THEOREM TypeCorrect == Spec => []TypeOK
<1>1. Inv => TypeOK
  BY DEF Inv
<1> QED BY <1>1, Invariance, PTL

\* The metadata never names an outcome that the journal does not (state.go, Unresolved
\* and ReconcileStatus).
THEOREM TerminalStatusCorrect == Spec => []TerminalStatusIsJournaled
<1>1. Inv => TerminalStatusIsJournaled
  BY DEF Inv, CtlInv, Backed, TerminalStatusIsJournaled
<1> QED BY <1>1, Invariance, PTL

\* The lock is released behind the outcome, the backups and the metadata, in this order,
\* after any crashes and failures (state.go, Release).
THEOREM ReleaseCorrect == Spec => []ReleaseIsLast
<1>1. Inv => ReleaseIsLast
  BY DEF Inv, CtlInv, CleanInv, ReleaseIsLast
<1> QED BY <1>1, Invariance, PTL

\* The commands report what is on disk (txn.go, Execute; recovery.go, Recover).
THEOREM ResultCorrect == Spec => []ResultIsTrue
<1>1. Inv => ResultIsTrue
  BY DEF Inv, CtlInv, ResultInv
<1> QED BY <1>1, Invariance, PTL

\* No failure happens beyond the number allowed.
LEMMA FaultsBounded ==
  TypeOK /\ faults <= MaxFaults /\ [Next]_vars => faults' <= MaxFaults
<1> SUFFICES ASSUME TypeOK, faults <= MaxFaults, [Next]_vars
             PROVE  faults' = faults \/ (faults < MaxFaults /\ faults' = faults + 1)
  BY BoundsAssumption DEF TypeOK
<1> USE DEF Refused, Fault, CallFrame
<1>1. CASE Execute
  BY <1>1 DEF Execute, Begin, PlanAccepted, PlanRejected, PrepareOperation, PrepareFails,
     LogPrepared, StartApply, StartApplyFails, FinishApply, VerifyOperation, VerifyFails,
     LogApplied, Assert, LogCommit
<1>2. CASE FileCall
  BY <1>2 DEF FileCall, DoCreate, DoFill, DoRemove, DoRemoveSome, DoInstall, DoRename,
     DoFailedRename, DoMkdir, DoRmdir, DoCheckAbsent, CallFails
<1>3. CASE Recover
  BY <1>3, ReconcileFrame DEF Recover, OpenJournal, OpenJournalFails, ReconcileFails,
     InspectDone, Inspect, InspectRefused, InspectFails, LogUndo, StartUndo, NothingToUndo,
     UndoRefused, FinishUndo, Recheck, RecheckFails, LogUndone, AllUndone, LogComplete,
     GiveUp, GiveUpFails
<1>4. CASE Durable
  BY <1>4, EndFailsCases DEF Durable, AppendState, PersistState, PersistStateFails,
     AppendFails, RemoveBackups, RecordCleanup, Release
<1>5. CASE RecoverCommand \/ Crash \/ Done \/ UNCHANGED vars
  BY <1>5 DEF RecoverCommand, Crash, Done, vars
<1> QED BY <1>1, <1>2, <1>3, <1>4, <1>5 DEF Next, Run

\* Crashes alone never spoil the journal: with no failing call, any number of crashes,
\* torn frames and repeated recoveries leaves a file that its reader accepts
\* (journal.go, Decode and OpenAppendRecovery).
THEOREM JournalCorrect ==
  ASSUME MaxFaults = 0
  PROVE  Spec => []JournalStaysReadable
<1>1. Init => faults <= MaxFaults
  BY BoundsAssumption DEF Init
<1>2. Inv /\ faults <= MaxFaults /\ [Next]_vars => (faults <= MaxFaults)'
  BY FaultsBounded DEF Inv
<1>3. Inv /\ faults <= MaxFaults => JournalStaysReadable
  <2> SUFFICES ASSUME Inv, faults <= MaxFaults PROVE jrn.ok
    BY DEF JournalStaysReadable
  <2>1. faults \in Nat
    BY DEF Inv, TypeOK
  <2>2. faults = 0
    BY <2>1
  <2> QED BY <2>2 DEF Inv, CtlInv, HealthInv
<1> QED BY <1>1, <1>2, <1>3, Invariance, PTL DEF Spec

\* Only a file system call of the engine changes a file.
LEMMA OnlyCalls == [Next]_vars /\ fs' # fs => pc \in {"applying", "undoing"}
<1> SUFFICES ASSUME [Next]_vars, pc \notin {"applying", "undoing"} PROVE fs' = fs
  OBVIOUS
<1> USE DEF files
<1>1. CASE Execute
  BY <1>1 DEF Execute, Begin, PlanAccepted, PlanRejected, PrepareOperation, PrepareFails,
     LogPrepared, StartApply, StartApplyFails, FinishApply, VerifyOperation, VerifyFails,
     LogApplied, Assert, LogCommit
<1>2. CASE FileCall
  BY <1>2 DEF FileCall, DoCreate, DoFill, DoRemove, DoRemoveSome, DoInstall, DoRename,
     DoFailedRename, DoMkdir, DoRmdir, DoCheckAbsent, CallFails, Calling
<1>3. CASE Recover
  BY <1>3, ReconcileFrame DEF Recover, OpenJournal, OpenJournalFails, ReconcileFails,
     InspectDone, Inspect, InspectRefused, InspectFails, LogUndo, StartUndo, NothingToUndo,
     UndoRefused, FinishUndo, Recheck, RecheckFails, LogUndone, AllUndone, LogComplete,
     GiveUp, GiveUpFails
<1>4. CASE Durable
  BY <1>4, EndFailsCases DEF Durable, AppendState, PersistState, PersistStateFails,
     AppendFails, RemoveBackups, RecordCleanup, Release
<1>5. CASE RecoverCommand \/ Crash \/ Done \/ UNCHANGED vars
  BY <1>5 DEF RecoverCommand, Crash, Done, vars
<1> QED BY <1>1, <1>2, <1>3, <1>4, <1>5 DEF Next, Run

\* A file changes only under a durable frame that announces it, forward and backward
\* (txn.go, Execute; recovery.go, Recover).
THEOREM AnnouncedCorrect == Spec => ChangesAreAnnounced
<1>1. Inv /\ [Next]_vars => [fs' # fs => ChangeIsAnnounced]_vars
  <2> SUFFICES ASSUME Inv, [Next]_vars, fs' # fs PROVE ChangeIsAnnounced
    OBVIOUS
  <2>1. CASE pc = "applying"
    BY <2>1 DEF Inv, CtlInv, ForwardInv, Applying, ChangeIsAnnounced
  <2>2. CASE pc = "undoing"
    BY <2>2 DEF Inv, CtlInv, BackwardInv, Undoing, Backward, ChangeIsAnnounced
  <2> QED BY <2>1, <2>2, OnlyCalls
<1> QED BY <1>1, Invariance, PTL DEF Spec, ChangesAreAnnounced

\* Once the journal has decided the transaction the runtime leaves the files alone: the
\* part of AllOrNothing that does not depend on what the calls of the engine do.
THEOREM DecisionIsFinal == Spec => [][Decided => UNCHANGED fs]_vars
<1>1. Inv /\ [Next]_vars => [Decided => UNCHANGED fs]_vars
  <2> SUFFICES ASSUME Inv, [Next]_vars, fs' # fs PROVE ~Decided
    OBVIOUS
  <2>1. pc \in Working
    BY OnlyCalls DEF Working, Applying, Backward, Undoing
  <2> QED BY <2>1 DEF Inv, CtlInv, StatusInv
<1> QED BY <1>1, Invariance, PTL DEF Spec

================================================================================
