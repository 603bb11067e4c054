------------------------------ MODULE UndoProgram ------------------------------
(***************************************************************************)
(* A program of several transactions: what `undo run` and `undo recover`   *)
(* do, one command after another on one root (src/internal/cli/app.go),    *)
(* the fail-fast loop (src/internal/program/program.go), and the errors    *)
(* that come up to it and decide its report and its exit status.           *)
(*                                                                         *)
(* A transaction is one record of the store here and passes through what   *)
(* UndoTxn shows of it: it is open, its terminal marker is in the journal, *)
(* it is resolved.  Plans, preconditions, operations and assertions have   *)
(* any verdict.  A kill is possible in every state of a command.           *)
(***************************************************************************)
EXTENDS Naturals, Sequences, FiniteSets

CONSTANTS
  Last,       \* the transactions of the program are 1..Last, in source order
  MaxRuns     \* bound on the number of commands

ASSUME SizeAssumption == Last \in Nat \ {0} /\ MaxRuns \in Nat

VARIABLES
  insts,      \* all transactions ever begun on the root: [of, stage]
  pc,         \* where the command is; "idle": none runs
  asked,      \* program.Run: the transactions selected, in order
  before,     \* the number of records when the command started
  report,     \* Result.Transactions: the statuses, in the order of asked
  cause,      \* the error inside Execute that rollbackFailure will wrap
  exit,       \* the exit status, or "none" while there is none
  runs        \* commands started so far

vars == <<insts, pc, asked, before, report, cause, exit, runs>>

Stages == {"open",      \* begun, undecided
           "marked",    \* TX_COMMIT is in the journal
           "reverted",  \* TX_ROLLBACK_COMPLETE is in the journal
           "kept", "undone"}   \* ... and the lock is gone

Unresolved(i) == insts[i].stage \in {"open", "marked", "reverted"}
OpenInsts     == {i \in DOMAIN insts : Unresolved(i)}

Statuses == {"committed", "rolled_back", "failed_preflight", "recovery_required",
             "recovery_failed", "skipped"}

\* The exit statuses 0 to 6, by their classes in src/README.md:224-232.
Classes == {"success", "usage", "unsafe plan", "path or io", "rolled back",
            "recovery required", "recovery failed"}

\* Errors of a cause: of pathcap, of plan, corrupt journal, anything else.
Causes == {"path", "plan", "corrupt", "plain"}

TypeOK ==
  /\ insts \in Seq([of : 1..Last, stage : Stages])
  /\ pc \in {"idle", "preview", "ask", "next", "begin", "work", "settle", "undo", "recover"}
  /\ asked \in Seq(1..Last)
  /\ before \in 0..Len(insts)
  /\ report \in Seq(Statuses)
  /\ cause \in Causes
  /\ exit \in Classes \cup {"none", "panic"}
  /\ runs \in 0..MaxRuns

Init ==
  /\ insts = <<>> /\ pc = "idle" /\ asked = <<>> /\ before = 0 /\ report = <<>>
  /\ cause = "plain" /\ exit = "none" /\ runs = 0

--------------------------------------------------------------------------------
(* Errors.  A chain holds what errors.As finds when it unwraps an error, from  *)
(* the outside to the inside.  The error of `undo run` is a program.Error and  *)
(* its chain is that of its Cause: "rolled back" (txn.Error, which only        *)
(* rollbackFailure makes), "required" and "failed" (recovery.Error), causes.   *)

Found(chain, kinds) == \E i \in DOMAIN chain : chain[i] \in kinds

\* Mutant: whatever failed inside a transaction, it was rolled back.
ExitOfEager(chain) ==
  IF Found(chain, {"rolled back", "required", "failed"}) THEN "rolled back"
  ELSE IF Found(chain, {"plan"}) THEN "unsafe plan" ELSE "path or io"

\* classifyError below a program.Error: the first kind in the order of its cases.
ExitOf(chain) ==
  CASE chain = <<>>                                   -> "panic"  \* err.Error() of nil
    [] Found(chain, {"path"})                         -> "path or io"
    [] Found(chain, {"plan"})                         -> "unsafe plan"
    [] Found(chain, {"rolled back"})                  -> "rolled back"
    [] Found(chain, {"required", "failed"})           ->
         LET first == CHOOSE i \in DOMAIN chain :
                        /\ chain[i] \in {"required", "failed"}
                        /\ \A j \in 1..(i - 1) : chain[j] \notin {"required", "failed"}
         IN IF chain[first] = "required" THEN "recovery required" ELSE "recovery failed"
    [] Found(chain, {"corrupt"})                      -> "recovery failed"
    [] OTHER                                          -> "path or io"

\* The chains that recovery.Pending and recovery.RecoverRoot return: their own errors
\* with their causes, and those of the operating system as they are.
PendingErrors == {<<"failed", "plain">>, <<"plain">>}
RecoverErrors == PendingErrors \cup {<<"failed", c>> : c \in {"path", "corrupt"}}

--------------------------------------------------------------------------------
(* The results.                                                                *)

Current == Len(report) + 1                  \* the index of the loop in Run

\* Mutant: appendSkipped(&result, transactions[index:]) after the entry itself.
FailedResultTwice(status) ==
  report' = [i \in 1..(Len(asked) + 1) |-> IF i < Current THEN report[i]
                                           ELSE IF i = Current THEN status ELSE "skipped"]

\* The entry of the transaction that failed, and appendSkipped for those behind it.
FailedResult(status) ==
  report' = [i \in 1..Len(asked) |-> IF i < Current THEN report[i]
                                     ELSE IF i = Current THEN status ELSE "skipped"]

End(status) == pc' = "idle" /\ exit' = status /\ UNCHANGED <<asked, before, runs>>

\* Mutant: the loop goes on behind a transaction that failed.
StopNot(status, chain) == /\ report' = Append(report, status) /\ pc' = "next"
                          /\ UNCHANGED <<asked, before, runs, exit>>

\* Run returns an error: the report, and the exit status of the chain in program.Error.
Stop(status, chain) == FailedResult(status) /\ End(ExitOf(chain))

Started == Len(insts)                       \* the record Execute works on
Turn(stage) == insts' = [insts EXCEPT ![Started].stage = stage]

--------------------------------------------------------------------------------
(* undo run                                                                    *)

\* Mutant: a name that is not in the program is not refused.
StartRunUnknown ==
  /\ pc = "idle" /\ runs < MaxRuns
  /\ \/ asked' = [i \in 1..Last |-> i]
     \/ \E t \in 0..Last : asked' = <<t>>
  /\ pc' = "preview" /\ before' = Len(insts) /\ report' = <<>> /\ exit' = "none"
  /\ runs' = runs + 1
  /\ UNCHANGED <<insts, cause>>

StartRun ==
  /\ pc = "idle" /\ runs < MaxRuns
  /\ \/ asked' = [i \in 1..Last |-> i]
     \/ \E t \in 1..Last : asked' = <<t>>
  /\ pc' = "preview" /\ before' = Len(insts) /\ report' = <<>> /\ exit' = "none"
  /\ runs' = runs + 1
  /\ UNCHANGED <<insts, cause>>

\* The arguments, the script, the capabilities or the plan of the whole program.
PreviewFails ==
  /\ pc = "preview"
  /\ \E status \in {"usage", "unsafe plan", "path or io"} : End(status)
  /\ UNCHANGED <<insts, report, cause>>

PreviewUnsafe ==
  /\ pc = "preview" /\ End("unsafe plan")
  /\ UNCHANGED <<insts, report, cause>>

PreviewSafe ==
  /\ pc = "preview" /\ pc' = "ask"
  /\ UNCHANGED <<insts, asked, before, report, cause, exit, runs>>

Decline ==
  /\ pc = "ask" /\ \E status \in {"usage", "path or io"} : End(status)
  /\ UNCHANGED <<insts, report, cause>>

Approve ==
  /\ pc = "ask" /\ pc' = "next"
  /\ UNCHANGED <<insts, asked, before, report, cause, exit, runs>>

--------------------------------------------------------------------------------
(* program.Run                                                                 *)

Finish ==
  /\ pc = "next" /\ Current > Len(asked)
  /\ End("success")
  /\ UNCHANGED <<insts, report, cause>>

\* plan.Build refuses the transaction, or a precondition cannot be evaluated.
PlanFails ==
  /\ pc = "next" /\ Current <= Len(asked)
  /\ \E c \in {"path", "plan", "plain"} : Stop("failed_preflight", <<c>>)
  /\ UNCHANGED <<insts, cause>>

\* A precondition is false: this error has no cause.
PlanUnsafe ==
  /\ pc = "next" /\ Current <= Len(asked)
  /\ Stop("failed_preflight", <<>>)
  /\ UNCHANGED <<insts, cause>>

PlanSafe ==
  /\ pc = "next" /\ Current <= Len(asked) /\ pc' = "begin"
  /\ UNCHANGED <<insts, asked, before, report, cause, exit, runs>>

--------------------------------------------------------------------------------
(* txn.Execute                                                                 *)

\* Pending finds an unresolved transaction, or cannot tell.
Blocked ==
  /\ pc = "begin"
  /\ \/ OpenInsts # {} /\ Stop("failed_preflight", <<"required">>)
     \/ \E chain \in PendingErrors : Stop("failed_preflight", chain)
  /\ UNCHANGED <<insts, cause>>

\* Mutant: only the transactions of this command count.
MayBeginBlind == \A i \in OpenInsts : i <= before

\* recovery.Pending: no lock and no unresolved metadata.
MayBegin == OpenInsts = {}

Begin ==
  /\ pc = "begin" /\ MayBegin
  /\ insts' = Append(insts, [of |-> asked[Current], stage |-> "open"])
  /\ pc' = "work"
  /\ UNCHANGED <<asked, before, report, cause, exit, runs>>

\* Begin fails; what it made may stay behind.
BeginFails ==
  /\ pc = "begin" /\ MayBegin
  /\ \/ UNCHANGED insts
     \/ insts' = Append(insts, [of |-> asked[Current], stage |-> "open"])
  /\ Stop("failed_preflight", <<"plain">>)
  /\ UNCHANGED cause

\* From the plan under the lock to the last assertion: an error that is rolled back,
WorkFails ==
  /\ pc = "work" /\ pc' = "undo"
  /\ \E c \in Causes \ {"corrupt"} : cause' = c
  /\ UNCHANGED <<insts, asked, before, report, exit, runs>>

\* ... or an append that fails, after which nothing is tried.
WorkStops ==
  /\ pc = "work"
  /\ Stop("recovery_required", <<"required", "plain">>)
  /\ UNCHANGED <<insts, cause>>

\* TX_COMMIT.
Mark ==
  /\ pc = "work" /\ pc' = "settle" /\ Turn("marked")
  /\ UNCHANGED <<asked, before, report, cause, exit, runs>>

\* The append of TX_COMMIT fails, with or without its frame in the file.
MarkFails ==
  /\ pc = "work"
  /\ UNCHANGED insts \/ Turn("marked")
  /\ Stop("recovery_required", <<"required", "plain">>)
  /\ UNCHANGED cause

\* COMMITTED, the backups and the lock.
Commit ==
  /\ pc = "settle" /\ pc' = "next" /\ Turn("kept")
  /\ report' = Append(report, "committed")
  /\ UNCHANGED <<asked, before, cause, exit, runs>>

\* ... one of them fails; the lock may be gone.
SettleFails ==
  /\ pc = "settle"
  /\ UNCHANGED insts \/ Turn("kept")
  /\ Stop("recovery_required", <<"required", "plain">>)
  /\ UNCHANGED cause

\* rollbackFailure: Recover undoes the transaction.
RollBack ==
  /\ pc = "undo" /\ Turn("undone")
  /\ Stop("rolled_back", <<"rolled back", cause>>)
  /\ UNCHANGED cause

RollBackFails ==
  /\ pc = "undo"
  /\ UNCHANGED insts \/ \E stage \in {"reverted", "undone"} : Turn(stage)
  /\ \E chain \in RecoverErrors : Stop("recovery_failed", <<"failed", cause>> \o chain)
  /\ UNCHANGED cause

--------------------------------------------------------------------------------
(* undo recover, and the end of a process                                      *)

StartRecover ==
  /\ pc = "idle" /\ runs < MaxRuns /\ pc' = "recover"
  /\ asked' = <<>> /\ before' = Len(insts) /\ report' = <<>> /\ exit' = "none"
  /\ runs' = runs + 1
  /\ UNCHANGED <<insts, cause>>

RecoverDeclined ==
  /\ pc = "recover" /\ \E status \in {"usage", "path or io"} : End(status)
  /\ UNCHANGED <<insts, report, cause>>

NothingToRecover ==
  /\ pc = "recover" /\ OpenInsts = {} /\ End("success")
  /\ UNCHANGED <<insts, report, cause>>

\* Mutant: whatever is unresolved is undone.
VerdictUndo(stage) == "undone"

\* Recover decides by the terminal record of the journal.
Verdict(stage) == IF stage = "marked" THEN "kept" ELSE "undone"

Recovered ==
  /\ pc = "recover"
  /\ \E i \in OpenInsts : insts' = [insts EXCEPT ![i].stage = Verdict(@)]
  /\ End("success")
  /\ UNCHANGED <<report, cause>>

\* A recovery that fails, or is cut, has perhaps written the terminal record, and
\* perhaps removed the lock.
Advanced(i) ==
  \/ insts[i].stage = "open" /\ insts' = [insts EXCEPT ![i].stage = "reverted"]
  \/ insts' = [insts EXCEPT ![i].stage = Verdict(@)]

RecoverFails ==
  /\ pc = "recover"
  /\ UNCHANGED insts \/ \E i \in OpenInsts : Advanced(i)
  /\ \E chain \in RecoverErrors : End(ExitOf(chain))
  /\ UNCHANGED <<report, cause>>

\* A kill.  What the process was about to write next may be on the disk.
Kill ==
  /\ pc # "idle" /\ pc' = "idle" /\ exit' = "none" /\ report' = <<>>
  /\ \/ UNCHANGED insts
     \/ /\ pc = "begin" /\ MayBegin
        /\ insts' = Append(insts, [of |-> asked[Current], stage |-> "open"])
     \/ pc = "work" /\ Turn("marked")
     \/ pc = "settle" /\ Turn("kept")
     \/ pc = "undo" /\ \E stage \in {"reverted", "undone"} : Turn(stage)
     \/ pc = "recover" /\ \E i \in OpenInsts : Advanced(i)
  /\ UNCHANGED <<asked, before, cause, runs>>

Run     == PreviewFails \/ PreviewUnsafe \/ PreviewSafe \/ Decline \/ Approve
           \/ Finish \/ PlanFails \/ PlanUnsafe \/ PlanSafe
Execute == Blocked \/ Begin \/ BeginFails \/ WorkFails \/ WorkStops \/ Mark \/ MarkFails
           \/ Commit \/ SettleFails \/ RollBack \/ RollBackFails
Recover == RecoverDeclined \/ NothingToRecover \/ Recovered \/ RecoverFails

Next == StartRun \/ Run \/ Execute \/ StartRecover \/ Recover \/ Kill

Spec == Init /\ [][Next]_vars

--------------------------------------------------------------------------------
(* Properties                                                                  *)

\* The records of the command that runs or ran last.
Mine == {i \in DOMAIN insts : i > before}

\* Over any sequence of commands, kills and failures only the last transaction of a
\* root can be unresolved: none is begun over the remains of another.
OnlyLastUnresolved == \A i \in OpenInsts : i = Len(insts)

\* A command begins its transactions in source order, without a gap, and goes to the
\* next one only when the one before it is committed and released.
FailFast == \A i \in Mine : /\ i - before \in DOMAIN asked
                            /\ insts[i].of = asked[i - before]
                            /\ i < Len(insts) => insts[i].stage = "kept"

\* What each status in a finished report may say of the store.
Agrees(status, k) ==
  LET i == before + k IN
  /\ status = "committed"         => i \in Mine /\ insts[i].stage = "kept"
  /\ status = "rolled_back"       => i \in Mine /\ insts[i].stage = "undone"
  /\ status = "failed_preflight"  => (i \in Mine => insts[i].stage = "open")
  /\ status = "recovery_required" => i \in Mine /\ insts[i].stage \in {"open", "marked", "kept"}
  /\ status = "recovery_failed"   => i \in Mine /\ insts[i].stage \in {"open", "reverted", "undone"}
  /\ status = "skipped"           => i \notin Mine

\* A command that has printed its report has one entry for every selected transaction,
\* each true of the store: committed ones stay, rolled back ones left nothing,
\* those not reached were never begun.
ReportIsTrue ==
  pc = "idle" /\ report # <<>> =>
    /\ Len(report) = Len(asked)
    /\ \A k \in DOMAIN report : Agrees(report[k], k)

\* What the exit status tells a script that reads nothing else: 0 that all it asked
\* for is committed, 1 that nothing was begun, 4 that nothing is left to recover: the
\* transactions begun are committed but for the last, which is undone.
ExitIsTrue ==
  /\ exit = "success" => Cardinality(Mine) = Len(asked) /\ \A i \in Mine : insts[i].stage = "kept"
  /\ exit = "usage" => Mine = {}
  /\ exit = "rolled back" => /\ Mine # {} /\ OpenInsts = {}
                 /\ \A i \in Mine : insts[i].stage = IF i = Len(insts) THEN "undone" ELSE "kept"

\* What the journal has decided no later command, failure or kill turns round, and
\* no record is lost.
DecisionStands ==
  [][\A i \in DOMAIN insts :
       /\ i \in DOMAIN insts' /\ insts'[i].of = insts[i].of
       /\ insts[i].stage \in {"marked", "kept"} => insts'[i].stage \in {"marked", "kept"}
       /\ insts[i].stage \in {"reverted", "undone"} => insts'[i].stage \in {"reverted", "undone"}
       /\ insts[i].stage \in {"kept", "undone"} => insts'[i].stage = insts[i].stage]_vars

\* A run that got as far as executing transactions prints the ordered list of results.
ResultIsPrinted == exit # "panic"

\* A run that reports a transaction it could not bring to an end says so with its
\* exit status, for whoever reads nothing else.
TroubleIsTold ==
  pc = "idle" /\ exit # "none"
  /\ (\E k \in DOMAIN report : report[k] \in {"recovery_required", "recovery_failed"})
  => exit \in {"recovery required", "recovery failed"}

================================================================================
