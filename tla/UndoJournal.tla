------------------------------ MODULE UndoJournal ------------------------------
(***************************************************************************)
(* The transaction journal as its reader sees it (src/internal/journal).   *)
(*                                                                         *)
(* Decode is a left fold over the frames of journal.bin: it keeps the      *)
(* state of the last TX_STATE record, the operations each kind of record   *)
(* has named and the terminal markers, and refuses the whole file at the   *)
(* first frame that does not fit what came before.  The file is modelled   *)
(* by the result of that fold, so that appending a frame is one step of    *)
(* the decoder (Extend).                                                   *)
(***************************************************************************)
EXTENDS Integers

States == {"PLANNED", "PREPARED", "RUNNING", "VERIFYING", "COMMITTING", "COMMITTED",
           "ROLLING_BACK", "ROLLED_BACK", "RECOVERY_REQUIRED", "RECOVERY_FAILED"}

Terminal(s) == s \in {"COMMITTED", "ROLLED_BACK"}

\* The states a transaction may enter next.  The table is written twice in the
\* source, for the in-memory status and for the journal reader, with one content.
Allowed ==
  [s \in States |->
     CASE s = "PLANNED"           -> {"PREPARED", "ROLLING_BACK", "RECOVERY_REQUIRED"}
       [] s = "PREPARED"          -> {"RUNNING", "ROLLING_BACK", "RECOVERY_REQUIRED"}
       [] s = "RUNNING"           -> {"VERIFYING", "ROLLING_BACK", "RECOVERY_REQUIRED"}
       [] s = "VERIFYING"         -> {"COMMITTING", "ROLLING_BACK", "RECOVERY_REQUIRED"}
       [] s = "COMMITTING"        -> {"COMMITTED", "ROLLING_BACK", "RECOVERY_REQUIRED"}
       [] s = "ROLLING_BACK"      -> {"ROLLED_BACK", "RECOVERY_FAILED"}
       [] s = "RECOVERY_REQUIRED" -> {"ROLLING_BACK", "RECOVERY_FAILED"}
       [] s = "RECOVERY_FAILED"   -> {"ROLLING_BACK"}
       [] OTHER                   -> {}]

ValidTransition(from, to) == to \in Allowed[from]

\* A frame: what Decode reads of its payload.  op is 0 and state "PLANNED" in the
\* frames that carry none.
RecordTypes == {"TX_STATE", "OP_PREPARED", "OP_APPLIED", "ASSERT_RESULT",
                "ROLLBACK_PREPARED", "ROLLBACK_APPLIED", "TX_COMMIT",
                "TX_ROLLBACK_COMPLETE"}

Records == [type : RecordTypes, op : Nat, state : States]

StateRecord(s)    == [type |-> "TX_STATE", op |-> 0, state |-> s]
OpRecord(type, o) == [type |-> type, op |-> o, state |-> "PLANNED"]
Marker(type)      == [type |-> type, op |-> 0, state |-> "PLANNED"]

\* What Decode has gathered: ok is FALSE once it has answered E_JOURNAL_CORRUPT.
Journals == [ok : BOOLEAN, state : States,
             prepared : SUBSET Nat, applied : SUBSET Nat,
             rollbackPrepared : SUBSET Nat, rollbackApplied : SUBSET Nat,
             committed : BOOLEAN, rolledBack : BOOLEAN]

\* The file just after TX_BEGIN.
BegunJournal ==
  [ok |-> TRUE, state |-> "PLANNED", prepared |-> {}, applied |-> {},
   rollbackPrepared |-> {}, rollbackApplied |-> {},
   committed |-> FALSE, rolledBack |-> FALSE]

\* The reader compares the sizes of the sets; applied and rollbackApplied only
\* ever hold members of prepared, so equal sizes are equal sets.
ReferenceOK(j, r) ==
  /\ r.type = "OP_PREPARED"       => r.op \notin j.prepared /\ j.prepared = j.applied
  /\ r.type = "OP_APPLIED"        => r.op \in j.prepared \ j.applied
  /\ r.type = "ROLLBACK_PREPARED" => r.op \in j.prepared \ j.rollbackPrepared
  /\ r.type = "ROLLBACK_APPLIED"  => r.op \in j.rollbackPrepared \ j.rollbackApplied

SemanticsOK(j, r) ==
  /\ j.committed \/ j.rolledBack => r.type = "TX_STATE"
  /\ r.type = "TX_STATE" =>
       /\ ValidTransition(j.state, r.state)
       /\ r.state = "VERIFYING" => j.prepared = j.applied
       /\ j.committed => r.state = "COMMITTED"
       /\ j.rolledBack => r.state = "ROLLED_BACK"
  /\ r.type \in {"OP_PREPARED", "OP_APPLIED"} => j.state = "RUNNING"
  /\ r.type = "ASSERT_RESULT" => j.state = "VERIFYING"
  /\ r.type \in {"ROLLBACK_PREPARED", "ROLLBACK_APPLIED"} => j.state = "ROLLING_BACK"
  /\ r.type = "TX_COMMIT" => j.state = "COMMITTING" /\ j.prepared = j.applied
  /\ r.type = "TX_ROLLBACK_COMPLETE" =>
       j.state = "ROLLING_BACK" /\ j.prepared = j.rollbackApplied

\* The summary once the next frame has been read.
Accumulate(j, r) ==
  [ok               |-> TRUE,
   state            |-> IF r.type = "TX_STATE" THEN r.state ELSE j.state,
   prepared         |-> j.prepared \cup (IF r.type = "OP_PREPARED" THEN {r.op} ELSE {}),
   applied          |-> j.applied \cup (IF r.type = "OP_APPLIED" THEN {r.op} ELSE {}),
   rollbackPrepared |-> j.rollbackPrepared
                          \cup (IF r.type = "ROLLBACK_PREPARED" THEN {r.op} ELSE {}),
   rollbackApplied  |-> j.rollbackApplied
                          \cup (IF r.type = "ROLLBACK_APPLIED" THEN {r.op} ELSE {}),
   committed        |-> j.committed \/ r.type = "TX_COMMIT",
   rolledBack       |-> j.rolledBack \/ r.type = "TX_ROLLBACK_COMPLETE"]

Corrupted(j) == [j EXCEPT !.ok = FALSE]

Extend(j, r) ==
  IF j.ok /\ ReferenceOK(j, r) /\ SemanticsOK(j, r) THEN Accumulate(j, r) ELSE Corrupted(j)

================================================================================
