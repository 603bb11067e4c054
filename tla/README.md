# UndoLang: verified models of the transaction runtime

UndoLang is a small language for file system changes and a runtime that journals
what it is about to do, so that a failure or a crash can be undone. This directory
holds TLA+ models of the runtime, the TLC runs that check them and the theorems
about them that TLAPS checks. Paths such as `txn/txn.go` are under `src/internal/`.

## 1. The system

| Component | State it keeps | Operations | What makes it correct |
|---|---|---|---|
| transaction runtime `txn` | in memory: the transaction, the operation at hand | `Execute`: begin, plan under the lock, prepare, journal, apply and verify each operation, check assertions, commit, clean up, release | all or nothing; what it reports is what is on disk |
| recovery `recovery` | none but what it replays | `Pending`, `RecoverRoot`, `Recover`, `fail` | undoes or finishes whatever a crash left; may itself be cut anywhere |
| journal `journal` | `journal.bin`: checksummed, numbered frames | `Append`, `Decode`, `OpenAppend`, `OpenAppendRecovery` | its writer never produces what its reader refuses; a torn tail costs nothing |
| state store `state` | `.undo/active.lock`; per transaction `meta.json`, `status`, `backup/` | `Begin`, `Transition`, `ReconcileStatus`, `CleanupBackups`, `Release`, `History`, `Unresolved` | status never runs ahead of the journal; the lock goes last |
| file engine `fsop` | the user's files, temporaries beside them, backups | `Prepare`, `Apply`, `Verify`, `Undo`, `Classify`, `CleanupTemporaries` for mkdir, copy, move, write, replace, delete | the inverse restores what Prepare saw; no temporary outlives the transaction |
| planner `plan` | an overlay of foreseen effects | `Build`, `exactOperation`, `exactTransfer` | accepts only scripts that can run and be undone |
| program runner `program` | the results so far | `Run` | source order, fail fast, no transaction after a failed one, a report that is true |
| command line `cli` | none | `run`, `recover`, `history`, `classifyError`; commands that parse, plan and print | the exit status tells a script what happened |
| conditions `condition`, streams `streamutil` | none | evaluate, search, replace, hash in chunks | the same answer as on the whole file |
| path capabilities `pathcap` | open directory handles | `Open`, `Resolve`, `Handle` | one entry, one name; no path leaves its roots or enters `.undo` |
| language `lang`, `report`, `tools/buildproof` | none | parse, validate, print | sequential |

The command line parses a script and calls `program.Run`, which plans and executes
one transaction after another. `Execute` writes to the store and the journal and
calls the engine; on a failure it closes its journal and calls `RecoverRoot`, the
same code that `undo recover` runs in a later process. So two programs, the one that
goes forward and the one that goes back, talk only through the disk: the journal
decides, the metadata repeats it, the lock and the metadata together say that
something is left to do.

Hard behaviours, each listed with its line under `hazards` in `PROJECT.json`:

- a kill between any two file system calls, in `Apply`, in `Undo`, in the middle of
  an append, between marker, status, cleanup and release, and again in the recovery;
- a call that fails although it had its effect (an append whose sync fails, a
  metadata write that fails after its rename, a removal whose directory sync fails);
- `fail`, which writes to the journal or the metadata right after a failure;
- a recovery that resumes, and compares what was undone before with what it finds;
- Begin's own crash windows and its deferred cleanup; two processes on one root, which
  share the lock, the directories and nothing in memory;
- the planner's overlay, which foresees what operations do to files that do not exist
  yet, and is built before the engine looks at them;
- errors that come up through four packages and end as one number;
- the chunk boundaries of `Contains` and `ReplaceAll`;
- one entry with many names, through links and roots, each layer using another name.

## 2. The modules

| Module | Models | Uses |
|---|---|---|
| `UndoJournal` | `journal/journal.go`, the transition table of `state/state.go` | |
| `UndoEngine` | `fsop/engine.go`, `fsop/tree.go`, `fsop/types.go` as pure operators: descriptors, lists of file system calls, checks, classification | |
| `UndoTxn` | the state machine: `txn/txn.go`, `recovery/recovery.go`, `state/state.go`, and the calls of the engine one by one | `UndoJournal`, `UndoEngine` |
| `AtomicUpdate` | the promise: files in any state while the update is open, all or nothing once it is decided | |
| `UndoStore` | many transactions and several processes on one root: `state/state.go` (Begin step by step, Release, History), `recovery.Pending`, the rollback of a failed run | |
| `SerialRoot` | the promise of the lock: at most one transaction of a root is unsettled | |
| `UndoPlan` | `plan/plan.go`: overlay and checks, beside what `fsop` does with the same operations | |
| `UndoProgram` | `program/program.go`, `run` and `recover` of `cli/app.go`, the errors and exit statuses | |
| `UndoStream` | `streamutil/stream.go`, `Contains` and `ReplaceAll`, one turn of a loop at a time | |
| `UndoPaths` | `pathcap/pathcap.go`, and which entry a condition of `condition/condition.go` speaks of | |
| `MCUndoTxn`, `MCUndoStore`, `MCUndoPlan`, `MCUndoProgram`, `MCUndoStream`, `MCUndoPaths` | small instances for TLC | |
| `UndoLemmas` | lemmas on the operators of `UndoJournal` and `UndoEngine` | |
| `UndoTxnProofs` | the inductive invariant of `UndoTxn`, the types of every step, every step preserves the invariant; the theorems on journal, status and results | `UndoLemmas` |
| `UndoTxnFiles` | the invariant of files, temporaries and backups, what is saved and what a rollback restores; the stages of a script, what a commit leaves, and the refinement of `AtomicUpdate` | `UndoTxnProofs` |
| `UndoStoreProofs`, `UndoProgramProofs`, `UndoPlanProofs`, `UndoStreamProofs`, `UndoPathsProofs` | invariant, steps and theorems of `UndoStore`, `UndoProgram`, `UndoPlan`, `UndoStream` and `UndoPaths` | |

How they fit together: `UndoTxn` is one transaction with every call of the engine.
`UndoStore` takes what `UndoTxn` does between Begin and Release as `work` that appends
to the journal, and looks at Begin, Release and the look at the lock in single steps,
with two processes. `UndoProgram` takes a transaction of `UndoStore` as one record that
is open, marked, reverted or resolved, and looks at commands one after another.
`UndoPlan` is what `UndoTxn` takes as the verdict of the plan, `UndoPaths` says when the
names that planner, engine and recovery use are the same entry, `UndoStream` what a
condition and a replace find in a file.

### State and code: UndoTxn

| Variable | In the program |
|---|---|
| `fs` | what is at each path of the script |
| `tmp[<<op, role>>]` | `.undo-tmp-*` (role apply) and `.undo-restore-*` (roles target and source) |
| `bak[<<op, role>>]` | `backup/<op>/target` and `backup/<op>/source` |
| `jrn`, `tail`, `prep` | `journal.bin`: what `Decode` makes of it, whether an incomplete frame follows, the descriptors in it |
| `meta`, `lock` | `meta.json` (and `status`, which repeats it), `active.lock` |
| `mem` | `Transaction.Meta` in memory |
| `stale` | the appender has written something that it does not count |
| `pc`, `to`, `mode`, `cur`, `side`, `todo` | where the process is: the status being entered, whether Recover finishes or undoes, the operation, the disposition `Classify` found, the calls still to make |
| `result` | the status the command reports |
| `script`, `origin`, `crashes`, `faults` | the transaction, the files before it, counters that bound the runs |

Every point at which the program has made something durable or changed a file is the
end of an action, so a crash is possible between any two of them. `Apply` and `Undo`
are lists of calls (`ApplyCalls`, `UndoCalls`), executed one by one: create, fill,
remove, install, rename, mkdir, rmdir. An action and its error path are two actions:
`X` and `XFails`; a check that fails and a call of the operating system that fails
share the second (`Refused`). `Transition` is two steps, the append and the metadata,
and `AfterState` and `StateError` are its call sites.

An append leaves the fold of `Decode` over one more frame (`Extend`), so a writer that
breaks a rule of the reader sets `jrn.ok` to FALSE at once. A failed append leaves
nothing, a part or the whole of the frame (`WriteFrameError`), and everything later
that the same appender writes is read against those remains (`Unread`).

### State and code: the other modules

`UndoStore`: `lock`, `meta[i]`, `log[i]` are `active.lock`, `meta.json` and
`journal.bin` of transaction i as `Pending` and `Decode` tell them apart; `torn` are the
transactions whose files no recovery can classify (`InterruptedWrite` shows how they come
about). A process has `pc`, its command, the transaction it works on (`id`), its
`Transaction.Meta` (`mem`), whether Recover found the journal open (`undoing`), and what
`Pending` has read so far: `seen` (the lock), `names` (the directory listing), `found`
(the unresolved among them). The actions are the calls in their order: lock (`O_EXCL`,
empty at first), directory, metadata, journal, TX_BEGIN, with the deferred removal of
directory and lock when one fails; lock, listing and one metadata file at a time in
`Pending`; status and metadata before each inverse (`Enter`), marker, the frame behind
it, metadata, cleanup; and in `Release` the check of the lock, its removal by name and
the sync behind it.

An error of a recovery that undoes goes through `fail`: in ROLLING_BACK one more frame
(`FailLog`, or `SpoilLog` behind the remains of an append that failed), then
RECOVERY_FAILED into the metadata (`FailMeta`), wherever the error came from, also behind
the removal of the lock. A recovery that found the marker goes through `terminalFail`,
which writes nothing. `Ends` tells the two apart.

`behind[p]` says that somebody has appended to the journal of p since p read it. The file
is not opened with `O_APPEND` and each appender counts frames by itself, so what such a
process appends overwrites frames of the others. `Frames` is what `Decode` then finds:
the old state, the state of the frame, so that a marker may be gone, or nothing that can
be read.

`UndoPlan`: `values`, `synthetic` and `unstable` are the overlay's nodes, `mutated` the
targets of `exactOperation`, `disk` what the planner sees, `tree` what the engine will
have made of it when the operations planned so far are executed. `Get` is `overlay.get`,
`Plans...` the checks of the planner, `Can...` those of `Prepare`, and an action joins an
operation to the plan if the planner accepts it; the verdict is "surprised" if the engine
would refuse it.

`UndoProgram`: `insts` are the records of all transactions ever begun on the root,
`asked` and `report` the selected transactions and `Result.Transactions`, `exit` the
status that `classifyError` makes of the chain of errors (`ExitOf`), which is the
sequence that `errors.As` walks through.

`UndoStream`: `pc` is the loop a call is in. `Extend` and `Advance` are a turn of the
loops over the bytes of the needle and of a chunk, `Fall` is a turn of the loops over
mismatches inside them; `matched` is `matched`, and `j` while the table `prefix` is made.
`ReplaceMatch` is a turn of the inner loop of `ReplaceAll`, `RoundDone` what follows that
loop; `data` is `data`, and `carry` between two rounds. `at` is how much the reader has
delivered, `out` and `matches` what was written and counted. A read delivers any number
of bytes, with or without an error, as `io.Reader` allows.

`UndoPaths`: `tree` is a file system with links, `roots` the opened capabilities,
`journaled` the roots and `kept` the path (root, relative, absolute name) that a
transaction keeps for its recovery. `Prepare` is where the engine resolves a path and
the run keeps what it got; `Change` is what other programs do to the tree, before and
after the run is killed; `Reopen` is all that a recovery does with paths. It resolves
nothing: it opens the roots of the journal again and takes the handle by the kept number.
`ResolveRelative` and `ResolveAbsolute` are the two halves of `Resolve`; `Reached` is
what the handle of the root opens. The loops of the code are recursive functions of where
they are: `Eval` and `RootWalk` of a walk (`Walks`: the path reached, the names still to
go, the links that may still be followed), `Clean` and `Opened` of what is done and what
is left.

### What is abstracted

- A regular file, a symbolic link or a directory tree is the value its digest names.
  Trees are removed entry by entry (`DoRemoveSome`), but not changed in their inside.
- A path has at most one parent inside the model (`PathsAssumption` of
  `UndoEngine`), so mkdir creates
  at most two directories. The model does not look inside a tree it moves or copies.
- All patterns of replace are one map (`Replaced`), with a file that has no match and
  one that is replaced by itself.
- A crash is the end of the process: what was written stays written. Loss of power,
  which may also lose what was never synced, is not modelled.
- In `UndoTxn` nobody else changes the files or the state directory, one process works
  at a time, `Begin` is one step, and there is one transaction per behaviour; `UndoStore`
  has the other processes and transactions.
- In `UndoTxn` the plan under the lock and each assertion have any verdict, and the
  initial cases of its runs are scripts that the planner accepts. `UndoProgram` takes any
  verdict of preview, plan, operations and recovery.
- `UndoStore` has no files: undoing is a number of appends, or a refusal that stays.
  One run has one primary root, and status and metadata, two files that are written
  behind each other with the same contents, are one. With `Exclusive = TRUE`
  nobody starts `recover` while a `run` works and nobody starts `run` while a `recover`
  works; the code asks for this discipline but does not enforce it (section 4).
- `UndoPlan` knows kinds of entries (absent, file, directory, link), not contents, sizes
  and counts. Named paths do not lead through links; `UndoPaths` is about those. The
  preview's static plan of transactions that are not next is left out.
- `UndoPaths` has one case of names (no case folding, no Windows volumes), and mode bits
  never refuse anything. While a run holds its roots open their names stay directories.
  Links below them may change at any time; what the properties say of a kept path holds
  as long as its links still lead where they led (`StillLeads`). `Eval` and `RootWalk`
  are the rules of `filepath.EvalSymlinks` and `os.Root`, modelled from their use and
  marked external.
- A recovery inside `run` that finds the journal unreadable reports what the recover
  command would (`E_JOURNAL_CORRUPT`); `rollbackFailure` wraps it in
  `E_RECOVERY_FAILED`.
- The opening and closing of the engine and the capabilities fail together with the
  step that follows (`PrepareFails`, `InspectFails`).

## 3. The runs

| Run | Bounds | States | Shows |
|---|---|---|---|
| `TxnCrash` | scripts of up to 2 operations, 2 crashes anywhere, no failing call | 777,000 | `TypeOK`, `JournalStaysReadable`, `ChangesAreSaved`, `ChangesAreAnnounced`, and `AllOrNothing`: `UndoTxn` implements `AtomicUpdate` with the terminal marker as the decision |
| `TxnFaults` | 1 operation, 1 crash and 2 failing calls anywhere, two roots on two devices | 1,052,000 | `RollbackRestores`, `CommitIsWhole`, `ReleaseIsLast`, `TerminalStatusIsJournaled`, `ResultIsTrue`, `ChangesAreSaved` |
| `TxnLive` | up to 2 operations, 1 crash and 1 failure where they leave files and journal whole | 259,000 | `Resolves`: whoever repeats recover ends the transaction and frees the root |
| `InterruptedWrite` | one write, one kill inside it | | violates `NeverFailsRecovery` (section 4) |
| `StoreLock` | 2 processes, 3 runs, any number of recover and history commands, 2 crashes anywhere, 2 failing calls anywhere but in the cleanup's removal of a directory and, in a recovery that undoes, in the sync behind the unlink; `Exclusive` | 841,000 | `LockGuards`, `WriterOwns`, `OneWriter`, `OpenIsVisible`, `OwnRollback`, and `OneTransaction`: `UndoStore` implements `SerialRoot` |
| `StoreRaces` | 2 processes, 2 runs, 1 failing call anywhere, recover at any time | 2,689,000 | `BeginIsAlone`: without the discipline a root may be spoilt, but nobody else works on a transaction before its TX_BEGIN |
| `StoreLive` | 2 processes, 2 runs, 1 crash after TX_BEGIN, 1 failing call outside Begin's cleanup and, in a recovery that undoes, outside its appends and its last sync; fair | 87,000 | `RecoverAccepts`, `RootIsFreed` |
| `PlanForesees` | 10 paths, up to 4 operations, 32 trees, all `Avoid` habits | 28,000 | `Foresees`, `NoSurprise`, `Exact` |
| `ProgramRuns` | programs of 3 transactions, 3 commands, failures and kills anywhere | 82,000 | `OnlyLastUnresolved`, `FailFast`, `ReportIsTrue`, `ExitIsTrue`, `DecisionStands` |
| `NilCause` | a program of 2 transactions, one command | | violates `ResultIsPrinted` (section 4) |
| `StreamChunks` | files of up to 6 bytes, patterns of up to 3 over two letters, reads of up to 3 | 818,000 | `SameAsWhole`, `NothingAtTheSeam`, `LongestBeginning` |
| `PathNames` | 46 trees, 5 lists of roots, 36 spellings, a path kept from each, any changes between these trees before and after the kill | 33,000 | `NameIsEntry`, `StateIsReserved`, `RecoveryReaches` |

The runs of `MCUndoTxn` have four paths: `a`, `b` (in a root and on a device of its own
where a run says so), a directory `d` and `f` in it; contents A, B, C and a tree T.
Scripts: no operation, every single operation (with and without overwrite, on present
and absent targets, files and trees), and every pair of them that can be planned.

Why the bounds are enough.

- Transactions: two crashes are what it takes to interrupt a transaction and then its
  recovery; a crash in a third process meets the states the second could already leave,
  for every recovery starts from the disk alone. Two operations are what it takes for the
  order of inverses, for a frame between two operations and for a path one operation makes
  and the next one uses. Two failures are a failing call and a failure of the code that
  handles it. One assertion is the loop's one round.
- Store: everything in it is about the lock and at most two unsettled transactions; a
  third run is what meets the remains of a second that met those of a first. Two failures
  are a failing call and one of what `fail` writes behind it. `StoreRaces` has no crash:
  what it is about goes on beside a process that lives. `Symmetry`
  permutes the processes, which no definition tells apart.
- Plan: a path three names deep below two directories has an ancestor of each kind of
  overlay value; four operations are one more than the longest counterexample needed
  while the model was written.
- Program: a transaction before, at and behind the one that fails, and a second and third
  command over what the first left.
- Stream: a pattern of three bytes is the shortest whose prefix table falls back twice;
  six bytes hold two of them, and reads of three cut them at every place.
- Paths: each node is a link within, out of, back into the root, into `.undo`, to
  nothing or to itself, above and below a name of its own.

The theorems of section 5 have none of these bounds, and `UndoStreamProofs` shows that for
streams the instance hides nothing.

Deadlock is checked in the runs of `UndoTxn` and `UndoStore`: a process that stops leaves
either recover to be run again or a root that is free. In `PlanForesees`, `ProgramRuns`,
`NilCause`, `StreamChunks` and `PathNames` it is not: plans, programs with their bounded
number of commands, scans and recoveries end.

**Fairness of `UndoTxn`** (`FairSpec`). `WF_vars(Run)`: a process that can take a step
takes one; it is sequential and never waits. `WF_vars(RecoverCommand)`: somebody runs
`undo recover` again after it stopped, as every error message asks. Nothing is assumed
of crashes, failures, or which of several outcomes a step has; both are bounded, so
they cease. `TxnLive` excludes what the violations show cannot be resolved: kills and
failures inside an operation (`Harmless`, `Quiescent`), failing appends of a recovery,
and a move whose source an earlier operation made (`Independent`).

**Fairness of `UndoStore`** (`FairSpec`). Each process goes on (`WF_vars(Step(p))`: no
call waits for another process, the lock is `O_EXCL` and a refusal, never a wait). It does
not work or undo for ever (`WF_vars(Advance(p))`: a script and a journal are finite;
undoing may end with `UndoRefused`, and then `RootIsFreed` asks nothing of that root). And
somebody runs recover whenever that is possible again and again
(`SF_vars(\E p : StartRecover(p))`; strong, because runs of others come in between).

## 4. Where code and documents disagree

Two of these have a run of their own, `PROJECT.json` has them with their quotations. The
others are seen by changing constants of a run as the table says; TLC then answers with a
counterexample. All were met while modelling.

| Where | What happens | Documents say | See it with |
|---|---|---|---|
| `fsop/engine.go:689` | `install` removes the target before it renames the new file over it. A kill in between makes every recovery answer RECOVERY_FAILED; the backup is still there (`ChangesAreSaved` holds) | `src/README.md:5` | `InterruptedWrite` |
| `program/program.go:89` | an unsafe plan is returned as an error without cause, `classifyError` asks it for its text: a panic instead of a report | `docs/PROGRAM_EXECUTION_MODEL.md:192` | `NilCause` |
| `fsop/engine.go:292` | the same gap in an inverse operation: recovery is not idempotent there | `docs/TRANSACTIONS.md:30`, "resumes inverse operations idempotently" | `InterruptedWrite` with `CrashAt = {"undoing"}` |
| `recovery/recovery.go:166` | operations already rolled back are compared again with files that later inverses have changed; a move of a file that the same transaction wrote fails this check for ever | `docs/TRANSACTIONS.md:30` | `InterruptedWrite` with `Cases <- ProducedCase`, `MaxOps = 2`, `CrashAt <- Quiescent` |
| `fsop/engine.go:504` | the fallback to copy and delete is not in the journal; the rollback renames across the mount and fails | `src/README.md:5` | `InterruptedWrite` with `Cases <- CrossCase`, `MaxCrashes = 0` |
| `recovery/recovery.go:227` | after a failed append the failure is appended behind the remains, and the journal becomes unreadable | `docs/TRANSACTIONS.md:30`, "repairs only an incomplete final frame after a valid prefix" | `InterruptedWrite` with `FaultAt <- Appending`, `MaxCrashes = 0`, `MaxFaults = 1`, invariant `JournalStaysReadable` |
| `state/state.go:123` | a kill inside Begin leaves a lock, a directory or a journal that recover refuses; somebody has to repair `.undo` by hand | `docs/TRANSACTIONS.md:24` | `StoreLive` with `CrashAt <- Anywhere` |
| `recovery/recovery.go:213` | in a recovery that has undone, Release removes the lock and the sync behind it fails (`state/state.go:219`): `fail` writes RECOVERY_FAILED over the settled metadata when the lock is gone, and another run may have begun. The next recover settles it again | `docs/TECHNICAL_SPEC.md:505`, "Remove active lock only after final status is durable" | `StoreLock` with `UndoFaultAt <- Anywhere`, invariant `LockGuards` |
| `recovery/recovery.go:227` | the same two writes of `fail` as above, beside other commands: recover is refused | `docs/TRANSACTIONS.md:30` | `StoreLive` with `UndoFaultAt <- Anywhere`, invariant `RecoverAccepts` |
| `journal/journal.go:347` | without `O_APPEND` a process that goes on beside a recover overwrites the marker with a frame of its own: the journal is open again, the metadata settled, the lock gone | `docs/SECURITY.md:17` | `StoreLock` with `Exclusive = FALSE`, invariant `OpenIsVisible` |
| `recovery/recovery.go:58` | recover does not look whether the process that holds the lock still runs; beside a running transaction two processes write, and the first to end removes the lock by its name | `docs/SECURITY.md:17`, "Only one active transaction is allowed per primary root" | `StoreLock` with `Exclusive = FALSE` |
| `state/state.go:348` | `history` fails while another process is in Begin, because a directory has no metadata yet | `docs/TECHNICAL_SPEC.md:704`, "read-only commands may run concurrently" | `StoreLock` with invariant `HistoryAnswers` |
| `recovery/recovery.go:72` | lock and metadata are read at different moments: `Pending` may report a second unresolved transaction that never was beside the first | `docs/TECHNICAL_SPEC.md:704`, "must recognize active state and avoid misreporting" | `StoreLock` with invariant `AlarmIsTrue` |
| `plan/plan.go:285` | what the overlay has read outlives the removal of its directory: a later operation on it is accepted and refused by the engine | `docs/TECHNICAL_SPEC.md:291`, `docs/TEST_PLAN.md:100`, "delete parent then use child -> reject" | `PlanForesees` without "remove what was read" in `Avoid` |
| `plan/plan.go:345` | `mkdir` marks the directories above as made although a file is among them | `docs/TECHNICAL_SPEC.md:282` | `PlanForesees` without "mkdir below file" |
| `plan/plan.go:465` | trees are inspected on disk although earlier operations have moved them: legal scripts are refused and others judged by the wrong tree | `docs/TECHNICAL_SPEC.md:282` | `PlanForesees` without "use a moved tree" |
| `cli/app.go:651` | joined errors are classified by the first kind that is looked for: a path error that started a rollback hides that the rollback failed, exit 3 instead of 6 | `src/README.md:224` | `NilCause` with invariant `TroubleIsTold` |
| `plan/plan.go:507`, `fsop/tree.go:240` | a parent that is a link inside the root passes the planner and is refused by the engine when the transaction runs | `docs/SECURITY.md:5`, `docs/TECHNICAL_SPEC.md:296`, "Do not mutate simply to discover whether a plan is legal" | `PathNames` with invariant `ParentsAgree` |
| `cli/app.go:641` | errors of usage end with 3 | `src/README.md:227` gives them 1 | reading |

In the first, third to sixth of them (`UndoTxn`) the runtime fails closed: backups and lock stay, no
result is wrong, which is what `ChangesAreSaved`, `ReleaseIsLast` and `ResultIsTrue` say.
A script that has one of the three habits is not wrong; `Avoid` only names what the plan
does not foresee, so that `NoSurprise` can say that there is nothing else.

## 5. What is proved

Everything here holds for every value of the constants that satisfies the named
assumptions, which TLC evaluates in every run of the module.

### One transaction: `UndoTxnProofs`, `UndoTxnFiles`

For every set of paths, contents, scripts of any length, number of assertions, of
crashes and of failing calls, anywhere (assumptions: `BoundsAssumption`,
`EntriesAssumption`, and `PathsAssumption` of `UndoEngine`):

| Theorem | Says |
|---|---|
| `Invariance` | `Inv` is an invariant |
| `TypeCorrect` | `TypeOK` |
| `TerminalStatusCorrect` | `TerminalStatusIsJournaled` |
| `ReleaseCorrect` | `ReleaseIsLast` |
| `ResultCorrect` | `ResultIsTrue` |
| `JournalCorrect` | `JournalStaysReadable`, if no call fails (`MaxFaults = 0`); section 4 shows that the assumption is needed |
| `AnnouncedCorrect` | `ChangesAreAnnounced` |
| `DecisionIsFinal` | no file changes after the decision |
| `FilesInvariance` | `FilesInv` is an invariant |
| `SavedCorrect` | `ChangesAreSaved`: while the outcome is open, a backup holds the initial entry of every changed path |
| `RestoresCorrect` | `RollbackRestores`: behind the marker of a rollback every path is as it was |
| `StageInvariance` | `StageInv` is an invariant |
| `CommitCorrect` | `CommitIsWhole`: behind TX_COMMIT the files are what the whole script makes of the initial ones |
| `AtomicCorrect` | `AllOrNothing`: `UndoTxn` implements `AtomicUpdate` |

None of the properties is inductive. `Inv` is `TypeOK` and nine parts:

- `LogInv`: the journal by itself: operations are numbered in order, applied and
  rolled back operations are prepared ones, a terminal state has its marker;
- `HealthInv`: while a process works, its appender stands at the end of a readable
  file. The exception, `Failing`, is a recovery on its way to say that it failed; that
  is why the proof needs no assumption on failures but for `JournalCorrect`;
- `ForwardInv`, `BackwardInv`: what is prepared, applied and rolled back at each place
  of Execute and of Recover. They make each append one that the reader accepts;
- `StatusInv`: the status in memory agrees with the journal except between an append
  and its metadata; `Due` carries over a `Transition` what its caller knew;
- `Backed` for metadata and memory, `CleanInv` for backups, metadata and lock,
  `ResultInv` for results.

`UndoTxnProofs` proves the types step by step, then the nine parts with a lemma for
each group of actions (`ExecuteStep`, `FileStep`, `RecoverStep`,
`DurableStep`, `OtherStep`), a step for each action and a substep for the parts it
disturbs. `UndoLemmas` says what one more accepted frame changes, that descriptors and
calls are well formed, and what a list of calls does to the files.

**The files** (`FilesInv`, beside `Inv`). `Reaches(d, p)` are the paths that the
operation of descriptor d may change, `Kept(d, p)` is the entry it recorded of p.

- `ChangeInv`: a path that is not as it was belongs to a journaled operation that is
  not rolled back; `FirstInv`: the first operation on a path recorded the initial
  entry, so that of several operations on one path the first one decides;
- `OrderInv`: the rollback goes from the last operation to the first. With `FirstInv`
  it makes the inverse that runs last the one that restores the initial entry;
- `TemporaryInv`: a temporary belongs to an operation that is not rolled back;
- `BackupInv`: until the outcome is decided, backups hold what descriptors recorded;
- `PlaceInv`: what a process between two calls relies on. The calls still to come touch
  only paths of the operation (`Proper`), an install finds its temporary in a call
  before it (`Closed`), and undoing ends in the state that the descriptor recorded.

The step that needs most is that an operation is recorded as rolled back only if its
paths are as its descriptor says: `Recheck` classifies the files again before the frame
is appended, and the proof follows each kind of operation through that check. A gap in
the calls (section 4) makes the check refuse; it never makes it wrong. So these
theorems hold for kills and failures anywhere, and for scripts no planner accepts.

**The stages of a script** (`StageInv`). `Stages(origin, script)` is the function of
the files after each operation of the script, and `PositionInv` says at which stage a
transaction that goes forward is: at stage `cur - 1` until it applies operation `cur`,
at stage `cur` behind `verify`. In between (`Underway`) nothing but the paths of the
operation has changed, and each directory of a mkdir is there or still to be made. That
`verify` then finds the next stage is `EffectMade`: the entries that the engine looks at
are the ones the operation means. `CommitStep` carries the last stage over the marker.

`Stages` is recursive over the script. That it satisfies its equation for scripts of
every length (`StagesExist`, `StagesEquation`) comes without an induction theorem: if
some length had no such function there would be a least one (`Least`, from the
well-foundedness of the natural numbers), and the function of the length before it
could be extended.

`AtomicCorrect` puts both together: before the marker the abstract update may be in any
state, the step that appends TX_COMMIT decides for the last stage, the one that appends
TX_ROLLBACK_COMPLETE for the first, and behind either no step moves a file.

### Many processes on one root: `UndoStoreProofs`

For any set of processes, number of runs, of crashes (anywhere) and of failing calls
(assumption: `RunsAssumption`). The theorems come in three groups, by what else they
assume.

**Nothing else**: recover at any time, crashes and failing calls anywhere.

| Theorem | Says |
|---|---|
| `RaceInvariance` | `RaceInv` is an invariant |
| `TypeCorrect` | `TypeOK` |
| `AloneCorrect` | `BeginIsAlone`: until TX_BEGIN is written nobody else works on the transaction, though its lock and metadata can be seen |

`BeginIsAlone` is not inductive. Nobody gets past `Open` with a transaction whose journal
has no TX_BEGIN (`UnbegunInv`), and that needs that a number is given to one run only and
is not on the disk before (`NumberInv`). This is what the order in Begin is for: metadata
before journal, TX_BEGIN last, and an empty journal does not decode. Behind TX_BEGIN
nothing of the kind holds without the discipline (section 4).

**`Disciplined`**, that is `Exclusive`, that the deferred removal of a directory does not
fail (`"drop dir" \notin FaultAt`), and that the sync behind the unlink does not fail in
a recovery that undoes (`"sync" \notin UndoFaultAt`). All three are needed: without the
first a recover works beside the run whose lock it found; without the second Begin goes
on to remove its lock and leaves the directory of a transaction that no lock names;
without the third `fail` takes the settlement back when the lock is gone.

| Theorem | Says |
|---|---|
| `Invariance` | `Inv` is an invariant |
| `LockCorrect` | `LockGuards`: a transaction that is not settled, or of which Begin left anything, is named by the lock |
| `WriterCorrect` | `WriterOwns`: who writes, `fail` included, owns the lock, and nobody else has appended since it read the journal |
| `MutualExclusion` | `OneWriter`: no two processes are inside a transaction or about to remove its lock |
| `VisibleCorrect` | `OpenIsVisible`: the metadata of a transaction that is not decided in its journal say so |
| `Refinement` | `OneTransaction`: `UndoStore` implements `SerialRoot` |
| `OwnRollbackCorrect` | `OwnRollback`: the rollback of a failed run finds its own transaction |

`Inv` is `TypeOK`, `LockGuards`, `OpenIsVisible` and three parts. `PlaceInv` says for each
place of a process which command is there and what it has in memory: who undoes, and what
the metadata in memory are where they are written. `OwnInv` relates what a process knows
to what is there: its transaction is the one of the lock from Begin until the unlink
(`LockOf`), directory, metadata and journal are as far as its calls have come
(`RecordOf`), and what `Pending` has seen and found so far is still so (`SeenOf`); it is
this part that is lost when two processes work at once. `AloneInv` says that there is one
owner, and that beside a recovery nobody works. A process that removes the lock in
`Release` removes its own because nobody can be in Begin while the lock is there, which
is `LockGuards` and `OwnInv` together; that is why neither is inductive alone. What
`fail` writes before the unlink leaves the transaction unresolved and locked, so it is
covered by the same argument; `RecordOf` says that nobody writes who is behind.

**`Tidy`**, that is `Disciplined`, that the deferred removal of the lock does not fail
either, that no process is killed in Begin (`CrashAt \cap Beginning = {}`), and that no
append of a recovery that undoes fails
(`UndoFaultAt \cap {"undo", "mark", "close"} = {}`). What a kill in Begin leaves is
refused, and so is what two failures to append leave, see section 4.

| Theorem | Says |
|---|---|
| `AcceptCorrect` | `RecoverAccepts`: what any other kill or failing call leaves, recover does not refuse |

`AcceptInv` is `Inv`, `RaceInv`, `AnswerInv` (the property, for a command that still
runs as well) and three parts. `LeftInv`: the lock is empty, or names a transaction
without metadata or TX_BEGIN, only as long as the Begin that makes it goes on. `Begin`
ends with all of it there or with the lock gone (`LockMoves`). `ListedInv`: a recovery
has listed only directories with metadata. `MildOf`: `fail` appends to a journal that is
as the recovery has read it. Then none of the ways in which recover refuses is open to
it (`NotRefused`), because with `Exclusive` nobody is in Begin beside it.

### Programs: `UndoProgramProofs`

For programs of any length and any number of commands (assumption: `SizeAssumption`):

| Theorem | Says |
|---|---|
| `Invariance`, `TypeCorrect` | `Inv` and `TypeOK` are invariants |
| `OnlyLastCorrect` | `OnlyLastUnresolved`: only the latest transaction of a root may be open |
| `FailFastCorrect` | `FailFast`: behind a transaction that is not committed none of the same command is begun |
| `ReportCorrect` | `ReportIsTrue`: each result agrees with the record of its transaction |
| `ExitCorrect` | `ExitIsTrue`: what the exit status says about the transactions of the command |
| `DecisionCorrect` | `DecisionStands`: what is decided is never undone, nor what is undone kept, and no record is lost |

`Inv` adds to the properties `AllCommitted` (all results so far are commits while a
command still runs), `Counted` (as many records as results, and one more while
`Execute` works) and `Staged` (the stage of that last record at each place of
`Execute`). They link the place in the code to the last record, and with that each
result to the record it was made from. `ExitIsTrue` needs `Silent` beside it: commands
that end before they begin a transaction leave none of their own. It counts committed
transactions with `Cardinality`, for which the proof maps an interval of records to the
selected transactions and takes its size from the library's facts on finite sets.

### Plans: `UndoPlanProofs`

For any set of paths that contains what is above each of them, any trees on disk and
plans of any length (assumption: `PathsAssumption` of `UndoPlan`). All but the last also assume
`Careful`: the scripts have none of the three habits (`Habits \subseteq Avoid`), for
which section 4 has counterexamples.

| Theorem | Says |
|---|---|
| `Invariance`, `TypeCorrect` | `Inv` and `TypeOK` are invariants |
| `ForeseesCorrect` | `Foresees`: what the overlay answers is what the engine will find |
| `NoSurpriseCorrect` | `NoSurprise`: the engine refuses no operation of an accepted plan |
| `ExactCorrect` | `Exact`: a plan of one operation is refused if and only if the engine refuses the operation |

`Foresees` is not inductive: it says nothing of why the overlay is right where it has no
value. `Now` does, in five parts over values, synthetic and unstable paths, disk and
tree: `Agreed` (what is set or read is true of the tree, what is only read of the disk
too), `Apparent` (what was read and exists is below nothing that was set), `Untouched`
(where nothing is known and nothing above was set, tree and disk agree), `Emptied` (where
something above was set and is stable, there is nothing) and `Opaque` (below an unstable
directory nothing is known). Three lemmas about any overlay carry all operations: `Look`
for what get keeps, `Make` for mkdir and write, `Graft` for delete, copy and move, the
last of which is two grafts. `GetUnstable` and `GetStable` derive the answers of get; the
nearest path above that was set exists because there is a least number among their
distances (`Lowest`, from the well-foundedness of the natural numbers). `ExactCorrect`
has an invariant of its own, that before the first operation the overlay is empty.

### Searching and replacing: `UndoStreamProofs`

For any alphabet, files, patterns and replacements of any length, any size of the
buffer, and any way in which reads cut the file and reads and writes fail (assumption:
`StreamAssumption`: the pattern is not empty, which `validate.go` guarantees):

| Theorem | Says |
|---|---|
| `Invariance`, `TypeCorrect` | `Inv` and `TypeOK` are invariants |
| `WholeCorrect` | `SameAsWhole`: the answers are those of the whole file |
| `SeamCorrect` | `NothingAtTheSeam`: between two writes nothing is lost or done twice |
| `LongestCorrect` | `LongestBeginning`: the table, and what is remembered between two reads |
| `WrittenCorrect` | `OnlyResultIsWritten`: also behind an error the output is a beginning of the result |

`Inv` adds five parts. `ShapeInv` places the data in the file: they are the bytes from
`Done` to `at`. `TableInv` is the table so far, and `TableCandidateInv` and `SearchInv`
say of both loops over mismatches what makes them right: `matched` is a `Candidate`, the
longest beginning of the pattern that ends the text and that may go on with the next
byte; every longer one has been refused by that byte. A mismatch gives way to the next
shorter beginning, which the table knows (`NextCandidate`), and it may look it up because
of two beginnings that end a text the shorter ends the longer (`EndsShorter`); a byte that
fits, or the empty beginning, gives the longest one again (`NextLongest`). `SeamInv` says
that `out` and what becomes of the file behind `Done` are together the result.

What becomes of a file (`Result`) is a recursive function over its places, from the end.
`ResultEquation` proves that there is such a function for files of every length, again
by the least length that would have none, and `Unmatched` that bytes are copied wherever
no match begins. `Copying` says when the data are enough to know that: no match begins
in them, and one that did would end in them, which is what `keep` is for; only at the
end of the file all of them may be written.

### Paths: `UndoPathsProofs`

For all trees with any links (also circles of links), any lists of roots, any paths of
scripts, any number of links that `EvalSymlinks` follows, and any changes of the tree during a run, which leave its open
roots in place, and any at all between the run and its recovery (assumption:
`PathsAssumption` of `UndoPaths`: above an entry there are directories, `.` and `..` are
no names, the arguments of `Open` are absolute and clean, as `filepath.Abs` makes them):

| Theorem | Says |
|---|---|
| `Invariance`, `TypeCorrect` | `Inv` and `TypeOK` are invariants |
| `NameCorrect` | `NameIsEntry`: while a run lasts, what the handle of a root reaches is the entry the planner names, and conditions speak of it |
| `ReservedCorrect` | `StateIsReserved`: while a run lasts, no path it uses is or reaches `.undo` |
| `RecoveryCorrect` | `RecoveryReaches`: a recovery whose roots are in place gives them the numbers of the journal, and the kept path, if its links still lead there, reaches the entry it was prepared for and never `.undo` |
| `AgainCorrect` | `ResolvedAgain`: resolving an absolute name again gives that name |

`Inv` has two parts. `RootsInv`: the open roots are the journal's and `Sound`, each its
own canonical name, a directory, and in the set once. `KeptInv`: the kept path has the number
of one of them and an absolute name outside `.undo`. Neither speaks of the tree but for
open roots, which is why they survive `Change`. It is short because the work
is in what the functions compute.

- That the loops are functions at all. `LoopExists`: if every state of a loop comes
  nearer its end by two falling numbers (links left, then names left; or names alone)
  there is a function that satisfies its equation. It is found as the least relation
  that joins an end to itself and a state to what its follower is joined to.
  `LoopInduction` carries a property from the ends of a loop to all its states. Both come
  from the least number of a set (`Least`), and `EvalInduction`, `RootEquation`,
  `CleanInduction` and `OpenInduction` are their uses.
- Walks. `Straight`: an entry that is no link is its own canonical name. `Lockstep`: a
  walk with more names behind it goes as the walk without them and then on. `MoreLinks`:
  what leads nowhere leads nowhere with more links to follow. `RootSame`: the handle goes
  where `EvalSymlinks` goes, but stops before a link that is absolute or leaves the root,
  and at the last name.
- Names. `Mapped`: `canonicalizeForMapping` returns a canonical entry with names behind
  it that lead to nothing, or the entry itself (`Splits`). `SplitFixed`, `ParentFixed`:
  such a name is a fixed point, from which `AgainCorrect` follows, and with it that the
  roots of a recovery are those of the run (`OpenedSame`). `NothingBehind`: there is no
  entry behind a name that leads to nothing; so a path that the handle finds missing is
  missing by its absolute name too (`FoundIs`).
- `RelativeMeans` and `AbsoluteMeans` are the two halves of `Resolve`: an accepted path is
  its root and a way from there of which the absolute name is the canonical one
  (`Means`). For relative paths that needs what `Clean` does to `..` (`CleanRelative`),
  for absolute ones which of several roots is chosen (`MostSpecific`).

## 6. What is only model-checked

- `Resolves` and `RootIsFreed`: liveness under fairness, which the prover cannot treat.

Two properties are proved and not in a run, for others there say nearly as much:
`OnlyResultIsWritten` of `UndoStream` and `ResolvedAgain` of `UndoPaths`. TLC finds no
violation when they are added to the invariants of `StreamChunks` and `PathNames`.

Every invariant and every action property that a run checks is stated by a theorem;
where the theorem has an assumption on crashes, failures or scripts, section 5 names it,
and the run has it in its constants.

### Not modelled

- The language front end `lang` (lexer, parser, checks, printing): sequential, without
  state that outlives a call. The models start from a parsed script.
- The parts of `cli` that parse arguments and print, and `report`: formatting.
- The static plan, which the preview makes of the transactions behind the first: it has
  no verdict but of the script's text.
- The sum itself in conditions on `sha256` and in descriptors: equal contents have
  equal sums and different ones different sums.
- `tools/buildproof`, `cmd`, the web pages: not part of the runtime.
- Loss of power. The code syncs files and directories, but what a file system keeps
  of calls that were not synced differs, as `docs/TRANSACTIONS.md` says.

## 7. Plan

Done: the core (`UndoJournal`, `UndoEngine`, `UndoTxn`, `AtomicUpdate`, their
theorems and the refinement); the root and its processes (`UndoStore`, `SerialRoot`,
their theorems and the refinement); `UndoPlan`, `UndoProgram`, `UndoStream` and
`UndoPaths` with their theorems.

Left, in the order of what it would add:

1. `UndoPlan` in place of `Plannable` in `MCUndoTxn`, so that the scripts of the runs
   are those the model of the planner accepts.
