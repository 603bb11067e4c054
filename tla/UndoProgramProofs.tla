--------------------------- MODULE UndoProgramProofs ---------------------------
(***************************************************************************)
(* Proofs about UndoProgram, for programs of any length and any number of  *)
(* commands, failures and kills.                                           *)
(***************************************************************************)
EXTENDS UndoProgram, SequenceTheorems, FiniteSetTheorems, TLAPS

Running == {"next", "begin", "work", "settle", "undo"}
Inside  == {"work", "settle", "undo"}

\* While the loop runs, everything reported so far is committed.
AllCommitted == pc \in Running => \A k \in DOMAIN report : report[k] = "committed"

\* How many transactions a command has begun, and how far it has reported.
Counted ==
  /\ pc \in {"preview", "ask", "recover"} => Len(insts) = before /\ report = <<>>
  /\ pc \in {"next", "begin"} => Len(insts) = before + Len(report)
  /\ pc \in Inside => Len(insts) = before + Current
  /\ pc \in Running => Len(report) <= Len(asked)
  /\ pc \in Running \ {"next"} => Len(report) < Len(asked)

\* What has become of the transactions a running command has begun.
Staged ==
  /\ pc \in {"next", "begin"} => \A i \in Mine : insts[i].stage = "kept"
  /\ pc \in {"work", "undo"} => insts[Len(insts)].stage = "open"
  /\ pc = "settle" => insts[Len(insts)].stage = "marked"

Inv == TypeOK /\ AllCommitted /\ Counted /\ Staged
       /\ OnlyLastUnresolved /\ FailFast /\ ReportIsTrue

--------------------------------------------------------------------------------
(* Sequences.                                                                  *)

LEMMA InstsType ==
  ASSUME TypeOK
  PROVE  /\ Len(insts) \in Nat /\ DOMAIN insts = 1..Len(insts)
         /\ Len(asked) \in Nat /\ DOMAIN asked = 1..Len(asked)
         /\ Len(report) \in Nat /\ DOMAIN report = 1..Len(report)
         /\ before \in Nat /\ before <= Len(insts)
BY LenProperties DEF TypeOK

\* The record Execute works on turns to another stage; the others stay.
LEMMA Turned ==
  ASSUME TypeOK, NEW n \in DOMAIN insts, NEW stage \in Stages,
         insts' = [insts EXCEPT ![n].stage = stage]
  PROVE  /\ insts' \in Seq([of : 1..Last, stage : Stages])
         /\ Len(insts') = Len(insts)
         /\ DOMAIN insts' = DOMAIN insts
         /\ \A i \in DOMAIN insts : insts'[i].of = insts[i].of
         /\ \A i \in DOMAIN insts : i # n => insts'[i] = insts[i]
         /\ insts'[n].stage = stage
<1> DEFINE R == [of : 1..Last, stage : Stages]
           r == [insts[n] EXCEPT !.stage = stage]
<1>1. insts \in Seq(R) /\ n \in 1..Len(insts)
  BY InstsType DEF TypeOK
<1>2. insts[n] \in R
  BY <1>1, ElementOfSeq
<1>3. r \in R /\ r.of = insts[n].of /\ r.stage = stage
  BY <1>2
<1>4. insts' = [insts EXCEPT ![n] = r]
  OBVIOUS
<1> HIDE DEF r, R
<1>5. /\ insts' \in Seq(R) /\ Len(insts') = Len(insts)
      /\ \A j \in 1..Len(insts) : insts'[j] = IF j = n THEN r ELSE insts[j]
  BY <1>1, <1>3, <1>4, ExceptSeq
<1>6. DOMAIN insts' = 1..Len(insts') /\ DOMAIN insts = 1..Len(insts)
  BY <1>1, <1>5, LenProperties
<1> QED BY <1>1, <1>3, <1>5, <1>6 DEF R

\* A new record joins the others.
LEMMA Joined ==
  ASSUME TypeOK, NEW t \in 1..Last,
         insts' = Append(insts, [of |-> t, stage |-> "open"])
  PROVE  /\ insts' \in Seq([of : 1..Last, stage : Stages])
         /\ Len(insts') = Len(insts) + 1
         /\ DOMAIN insts' = 1..(Len(insts) + 1)
         /\ \A i \in DOMAIN insts : insts'[i] = insts[i]
         /\ insts'[Len(insts) + 1].of = t
         /\ insts'[Len(insts) + 1].stage = "open"
<1> DEFINE R == [of : 1..Last, stage : Stages]
           r == [of |-> t, stage |-> "open"]
<1>1. insts \in Seq(R) /\ DOMAIN insts = 1..Len(insts) /\ r \in R
  BY InstsType DEF TypeOK, Stages
<1>2. r.of = t /\ r.stage = "open"
  OBVIOUS
<1> HIDE DEF r, R
<1>3. /\ insts' \in Seq(R) /\ Len(insts') = Len(insts) + 1
      /\ \A i \in 1..Len(insts) : insts'[i] = insts[i]
      /\ insts'[Len(insts) + 1] = r
  BY <1>1, AppendProperties DEF r
<1>4. DOMAIN insts' = 1..Len(insts')
  BY <1>3, LenProperties
<1> QED BY <1>1, <1>2, <1>3, <1>4 DEF R

\* The report of a command that ends with a failed transaction.
LEMMA Reported ==
  ASSUME TypeOK, Len(report) < Len(asked), NEW status \in Statuses,
         \A k \in DOMAIN report : report[k] = "committed",
         FailedResult(status)
  PROVE  /\ report' \in Seq(Statuses)
         /\ Len(report') = Len(asked) /\ DOMAIN report' = 1..Len(asked)
         /\ \A k \in 1..Len(asked) : /\ k < Current => report'[k] = "committed"
                                     /\ k = Current => report'[k] = status
                                     /\ k > Current => report'[k] = "skipped"
<1> DEFINE f(k) == IF k < Current THEN report[k] ELSE IF k = Current THEN status ELSE "skipped"
<1>1. Len(asked) \in Nat /\ Len(report) \in Nat /\ DOMAIN report = 1..Len(report)
  BY InstsType
<1>2. \A k \in 1..Len(asked) : k < Current => k \in DOMAIN report
  BY <1>1 DEF Current
<1>3. report' = [k \in 1..Len(asked) |-> f(k)]
  BY DEF FailedResult
<1>4. \A k \in 1..Len(asked) : f(k) \in Statuses
  BY <1>2 DEF Statuses
<1>5. report' \in Seq(Statuses)
  BY <1>1, <1>3, <1>4, SeqDef
<1>6. DOMAIN report' = 1..Len(asked)
  BY <1>3
<1>7. Len(report') = Len(asked)
  <2>1. Len(report') \in Nat /\ DOMAIN report' = 1..Len(report')
    BY <1>5, LenProperties
  <2> QED BY <2>1, <1>1, <1>6
<1>8. \A k \in 1..Len(asked) : report'[k] = f(k)
  BY <1>3
<1>9. \A k \in 1..Len(asked) : /\ k < Current => f(k) = "committed"
                               /\ k = Current => f(k) = status
                               /\ k > Current => f(k) = "skipped"
  BY <1>1, <1>2 DEF Current
<1> HIDE DEF f
<1> QED BY <1>5, <1>6, <1>7, <1>8, <1>9

LEMMA ExitType == \A chain : ExitOf(chain) \in Classes \cup {"panic"}
BY Zenon DEF ExitOf, Classes

--------------------------------------------------------------------------------
(* What a step may do to the records.                                          *)

\* While a command works on a transaction, that is the last one, and those it began
\* before are kept.
LEMMA InWork ==
  ASSUME Inv, pc \in Inside
  PROVE  /\ Len(insts) = before + Current /\ Current = Len(report) + 1
         /\ Len(insts) \in DOMAIN insts /\ Len(insts) \in Mine
         /\ \A k \in 1..Len(report) : before + k \in Mine /\ insts[before + k].stage = "kept"
<1>1. Len(insts) = before + Current /\ Current = Len(report) + 1
  BY DEF Inv, Counted, Current
<1>2. Len(insts) \in DOMAIN insts /\ Len(insts) \in Mine
  BY <1>1, InstsType DEF Inv, Mine
<1>3. ASSUME NEW k \in 1..Len(report)
      PROVE  before + k \in Mine /\ insts[before + k].stage = "kept"
  <2>1. before + k \in 1..Len(insts) /\ before + k > before /\ before + k < Len(insts)
    BY <1>1, InstsType DEF Inv
  <2>2. before + k \in Mine
    BY <2>1, InstsType DEF Mine, Inv
  <2> QED BY <2>1, <2>2 DEF Inv, FailFast
<1> QED BY <1>1, <1>2, <1>3

\* ... and before it begins the next one, all of its transactions are kept.
LEMMA BetweenTransactions ==
  ASSUME Inv, pc \in {"next", "begin"}
  PROVE  /\ Len(insts) = before + Len(report)
         /\ \A k \in 1..Len(report) : before + k \in Mine /\ insts[before + k].stage = "kept"
<1>1. Len(insts) = before + Len(report)
  BY DEF Inv, Counted
<1>2. ASSUME NEW k \in 1..Len(report)
      PROVE  before + k \in Mine /\ insts[before + k].stage = "kept"
  <2>1. before + k \in 1..Len(insts) /\ before + k > before
    BY <1>1, InstsType DEF Inv
  <2>2. before + k \in Mine
    BY <2>1, InstsType DEF Mine, Inv
  <2> QED BY <2>2 DEF Inv, Staged
<1> QED BY <1>1, <1>2

\* What the rest of the invariant says of the records.
InstsOK == /\ insts \in Seq([of : 1..Last, stage : Stages])
           /\ OnlyLastUnresolved /\ FailFast

LEMMA SameInsts ==
  ASSUME Inv, UNCHANGED <<insts, before, asked>>
  PROVE  InstsOK' /\ Mine' = Mine
BY DEF Inv, TypeOK, InstsOK, OnlyLastUnresolved, OpenInsts, Unresolved, FailFast, Mine

\* Only the last transaction ever turns to another stage.
LEMMA TurnedLast ==
  ASSUME Inv, Len(insts) \in DOMAIN insts, NEW stage \in Stages,
         insts' = [insts EXCEPT ![Len(insts)].stage = stage], UNCHANGED <<before, asked>>
  PROVE  /\ InstsOK' /\ Len(insts') = Len(insts) /\ Mine' = Mine
         /\ insts'[Len(insts)].stage = stage
         /\ \A i \in DOMAIN insts : i # Len(insts) => insts'[i] = insts[i]
<1> DEFINE n == Len(insts)
<1>1. TypeOK /\ n \in Nat /\ before \in Nat /\ DOMAIN insts = 1..n
  BY InstsType DEF Inv
<1>2. /\ insts' \in Seq([of : 1..Last, stage : Stages])
      /\ Len(insts') = n /\ DOMAIN insts' = DOMAIN insts
      /\ \A i \in DOMAIN insts : insts'[i].of = insts[i].of
      /\ \A i \in DOMAIN insts : i # n => insts'[i] = insts[i]
      /\ insts'[n].stage = stage
  BY <1>1, Turned
<1> HIDE DEF n
<1>3. Mine' = Mine
  BY <1>2 DEF Mine
<1>4. OnlyLastUnresolved'
  <2> SUFFICES ASSUME NEW i \in DOMAIN insts, i # n
               PROVE  ~(Unresolved(i))'
    BY <1>2 DEF OnlyLastUnresolved, OpenInsts
  <2>1. ~Unresolved(i)
    BY DEF Inv, OnlyLastUnresolved, OpenInsts, n
  <2> QED BY <2>1, <1>2 DEF Unresolved
<1>5. FailFast'
  <2> SUFFICES ASSUME NEW i \in Mine
               PROVE  /\ i - before \in DOMAIN asked
                      /\ insts'[i].of = asked[i - before]
                      /\ i < n => insts'[i].stage = "kept"
    BY <1>2, <1>3 DEF FailFast
  <2>1. /\ i \in DOMAIN insts /\ i - before \in DOMAIN asked
        /\ insts[i].of = asked[i - before]
        /\ i < n => insts[i].stage = "kept"
    BY DEF Inv, FailFast, Mine, n
  <2>2. i < n => i # n
    BY <1>1
  <2> QED BY <2>1, <2>2, <1>2
<1> QED BY <1>2, <1>3, <1>4, <1>5 DEF InstsOK, n

LEMMA TurnedInsts ==
  ASSUME Inv, pc \in Inside, NEW stage \in Stages, Turn(stage), UNCHANGED <<before, asked>>
  PROVE  /\ InstsOK' /\ Len(insts') = Len(insts) /\ Mine' = Mine
         /\ insts'[Len(insts)].stage = stage
         /\ \A k \in 1..Len(report) : insts'[before + k] = insts[before + k]
<1>1. /\ Len(insts) \in DOMAIN insts /\ Len(insts) = before + Len(report) + 1
      /\ before \in Nat /\ Len(report) \in Nat
  BY InWork, InstsType DEF Inv, Current
<1>2. /\ InstsOK' /\ Len(insts') = Len(insts) /\ Mine' = Mine
      /\ insts'[Len(insts)].stage = stage
      /\ \A i \in DOMAIN insts : i # Len(insts) => insts'[i] = insts[i]
  BY <1>1, TurnedLast DEF Turn, Started
<1>3. ASSUME NEW k \in 1..Len(report)
      PROVE  insts'[before + k] = insts[before + k]
  <2>1. before + k # Len(insts)
    BY <1>1
  <2>2. before + k \in DOMAIN insts
    BY InWork DEF Mine
  <2> QED BY <2>1, <2>2, <1>2
<1> QED BY <1>2, <1>3

LEMMA JoinedInsts ==
  ASSUME Inv, pc = "begin", OpenInsts = {}, UNCHANGED <<before, asked>>,
         insts' = Append(insts, [of |-> asked[Current], stage |-> "open"])
  PROVE  /\ InstsOK' /\ Len(insts') = Len(insts) + 1
         /\ Len(insts) + 1 \in Mine' /\ insts'[Len(insts) + 1].stage = "open"
         /\ \A k \in 1..Len(report) : before + k \in Mine' /\ insts'[before + k].stage = "kept"
<1> DEFINE n == Len(insts)
<1>1. /\ TypeOK /\ n \in Nat /\ before \in Nat /\ Len(report) \in Nat
      /\ DOMAIN insts = 1..n /\ DOMAIN asked = 1..Len(asked) /\ Len(asked) \in Nat
      /\ n = before + Len(report) /\ Len(report) < Len(asked)
  BY InstsType, BetweenTransactions DEF Inv, Counted, Running
<1>2. Current = n + 1 - before /\ Current \in DOMAIN asked
  BY <1>1 DEF Current
<1>3. asked[Current] \in 1..Last
  BY <1>1, <1>2, ElementOfSeq DEF TypeOK
<1>4. /\ insts' \in Seq([of : 1..Last, stage : Stages])
      /\ Len(insts') = n + 1 /\ DOMAIN insts' = 1..(n + 1)
      /\ \A i \in DOMAIN insts : insts'[i] = insts[i]
      /\ insts'[n + 1].of = asked[Current]
      /\ insts'[n + 1].stage = "open"
  BY <1>1, <1>3, Joined
<1>5. n + 1 \in Mine' /\ \A i \in Mine' : i = n + 1 \/ i \in Mine
  BY <1>1, <1>4 DEF Mine
<1>6. \A i \in Mine : i \in DOMAIN insts /\ insts[i].stage = "kept"
  BY DEF Inv, Staged, Mine
<1> HIDE DEF n
<1>7. OnlyLastUnresolved'
  <2> SUFFICES ASSUME NEW i \in DOMAIN insts', i # n + 1
               PROVE  ~(Unresolved(i))'
    BY <1>4 DEF OnlyLastUnresolved, OpenInsts
  <2>1. i \in DOMAIN insts
    BY <1>1, <1>4
  <2>2. ~Unresolved(i)
    BY <2>1 DEF OpenInsts
  <2> QED BY <2>1, <2>2, <1>4 DEF Unresolved
<1>8. FailFast'
  <2> SUFFICES ASSUME NEW i \in Mine'
               PROVE  /\ i - before \in DOMAIN asked
                      /\ insts'[i].of = asked[i - before]
                      /\ i < n + 1 => insts'[i].stage = "kept"
    BY <1>4 DEF FailFast
  <2>1. CASE i = n + 1
    <3>1. i - before = Current /\ ~(i < n + 1)
      BY <2>1, <1>1, <1>2
    <3> QED BY <2>1, <3>1, <1>2, <1>4
  <2>2. CASE i \in Mine
    BY <2>2, <1>4, <1>6 DEF Inv, FailFast
  <2> QED BY <2>1, <2>2, <1>5
<1>9. ASSUME NEW k \in 1..Len(report)
      PROVE  before + k \in Mine' /\ insts'[before + k].stage = "kept"
  <2>1. before + k \in Mine /\ insts[before + k].stage = "kept"
    BY BetweenTransactions
  <2>2. before + k \in DOMAIN insts /\ before + k \in DOMAIN insts' /\ before + k > before
    BY <2>1, <1>1, <1>4 DEF Mine
  <2> QED BY <2>1, <2>2, <1>4 DEF Mine
<1> QED BY <1>4, <1>5, <1>7, <1>8, <1>9 DEF InstsOK, n

--------------------------------------------------------------------------------
(* A transaction fails, and the command with it.                               *)

\* A transaction fails: the command ends, and its report is true if what it says of
\* this transaction is.
LEMMA Stopped ==
  ASSUME Inv, pc \in Running, Len(report) < Len(asked),
         NEW status \in Statuses, NEW chain, Stop(status, chain),
         InstsOK', cause' \in Causes,
         Len(insts') >= before, Len(insts') <= before + Current,
         \A k \in 1..Len(report) : (before + k) \in Mine' /\ insts'[before + k].stage = "kept",
         \A k \in Nat : k = Current => Agrees(status, k)'
  PROVE  Inv'
<1>1. /\ pc' = "idle" /\ asked' = asked /\ before' = before /\ runs' = runs
      /\ exit' = ExitOf(chain) /\ FailedResult(status)
  BY DEF Stop, End
<1>2. /\ Len(report) \in Nat /\ Len(asked) \in Nat /\ before \in Nat /\ TypeOK
      /\ DOMAIN report = 1..Len(report)
      /\ \A k \in DOMAIN report : report[k] = "committed"
      /\ Current = Len(report) + 1
  BY InstsType DEF Inv, AllCommitted, Current
<1>3. /\ report' \in Seq(Statuses)
      /\ Len(report') = Len(asked) /\ DOMAIN report' = 1..Len(asked)
      /\ \A k \in 1..Len(asked) : /\ k < Current => report'[k] = "committed"
                                  /\ k = Current => report'[k] = status
                                  /\ k > Current => report'[k] = "skipped"
  BY <1>1, <1>2, Reported
<1>4. Len(insts') \in Nat /\ DOMAIN insts' = 1..Len(insts')
  BY LenProperties DEF InstsOK
<1>5. TypeOK'
  <2>1. exit' \in Classes \cup {"none", "panic"}
    BY <1>1, ExitType
  <2>2. before' \in 0..Len(insts')
    BY <1>1, <1>2, <1>4
  <2> QED BY <1>1, <1>3, <2>1, <2>2 DEF TypeOK, Inv, InstsOK
<1>6. Current' = Len(asked) + 1
  BY <1>3 DEF Current
<1>7. ReportIsTrue'
  <2> SUFFICES ASSUME NEW k \in 1..Len(asked)
               PROVE  Agrees(report[k], k)'
    BY <1>1, <1>3 DEF ReportIsTrue
  <2>1. CASE k < Current
    <3>1. k \in 1..Len(report)
      BY <2>1, <1>2
    <3>2. (before + k) \in Mine' /\ insts'[before + k].stage = "kept"
      BY <3>1
    <3>3. Agrees("committed", k)'
      BY <3>2, <1>1 DEF Agrees
    <3>4. report'[k] = "committed"
      BY <2>1, <1>3
    <3> QED BY <3>3, <3>4
  <2>2. CASE k = Current
    <3>1. report'[k] = status
      BY <2>2, <1>3
    <3>2. Agrees(status, k)'
      BY <2>2
    <3> QED BY <3>1, <3>2
  <2>3. CASE k > Current
    <3>1. (before + k) \notin Mine'
      BY <2>3, <1>2, <1>4 DEF Mine
    <3>2. Agrees("skipped", k)'
      BY <3>1, <1>1 DEF Agrees
    <3>3. report'[k] = "skipped"
      BY <2>3, <1>3
    <3> QED BY <3>2, <3>3
  <2> QED BY <2>1, <2>2, <2>3, <1>2
<1> QED BY <1>1, <1>5, <1>7 DEF Inv, AllCommitted, Counted, Staged, Running, Inside, InstsOK

\* It fails before anything of it is begun.
LEMMA NotBegun ==
  ASSUME Inv, pc \in {"next", "begin"}, Current <= Len(asked),
         NEW chain, Stop("failed_preflight", chain), UNCHANGED <<insts, cause>>
  PROVE  Inv'
<1>1. /\ Len(insts) = before + Len(report)
      /\ \A k \in 1..Len(report) : before + k \in Mine /\ insts[before + k].stage = "kept"
  BY BetweenTransactions
<1>2. /\ Len(report) \in Nat /\ Len(asked) \in Nat /\ before \in Nat
      /\ DOMAIN insts = 1..Len(insts) /\ cause' \in Causes /\ pc \in Running
  BY InstsType DEF Inv, TypeOK, Running
<1>3. asked' = asked /\ before' = before
  BY DEF Stop, End
<1>4. InstsOK' /\ Mine' = Mine
  BY <1>3, SameInsts
<1>5. ASSUME NEW k \in Nat, k = Current
      PROVE  Agrees("failed_preflight", k)'
  <2>1. before + k \notin Mine
    BY <1>1, <1>2, <1>5 DEF Mine, Current
  <2> QED BY <2>1, <1>3, <1>4 DEF Agrees
<1>6. /\ Len(report) < Len(asked)
      /\ Len(insts') >= before /\ Len(insts') <= before + Current
  BY <1>1, <1>2 DEF Current
<1>7. "failed_preflight" \in Statuses
  BY DEF Statuses
<1>8. \A k \in 1..Len(report) : (before + k) \in Mine' /\ insts'[before + k].stage = "kept"
  BY <1>1, <1>4
<1> QED BY <1>2, <1>4, <1>5, <1>6, <1>7, <1>8, Stopped

\* Begin fails with what it made left behind.
LEMMA HalfBegun ==
  ASSUME Inv, pc = "begin", MayBegin, NEW chain, Stop("failed_preflight", chain),
         insts' = Append(insts, [of |-> asked[Current], stage |-> "open"]), UNCHANGED cause
  PROVE  Inv'
<1>1. asked' = asked /\ before' = before
  BY DEF Stop, End
<1>2. /\ InstsOK' /\ Len(insts') = Len(insts) + 1
      /\ Len(insts) + 1 \in Mine' /\ insts'[Len(insts) + 1].stage = "open"
      /\ \A k \in 1..Len(report) : before + k \in Mine' /\ insts'[before + k].stage = "kept"
  BY <1>1, JoinedInsts DEF MayBegin
<1>3. /\ Len(report) \in Nat /\ before \in Nat /\ Len(insts) = before + Len(report)
      /\ Len(report) < Len(asked) /\ cause' \in Causes /\ pc \in Running
  BY InstsType, BetweenTransactions DEF Inv, TypeOK, Counted, Running
<1>4. ASSUME NEW k \in Nat, k = Current
      PROVE  Agrees("failed_preflight", k)'
  <2>1. before + k = Len(insts) + 1
    BY <1>3, <1>4 DEF Current
  <2> QED BY <2>1, <1>1, <1>2 DEF Agrees
<1>5. Len(insts') >= before /\ Len(insts') <= before + Current
  BY <1>2, <1>3 DEF Current
<1>6. "failed_preflight" \in Statuses
  BY DEF Statuses
<1> QED BY <1>2, <1>3, <1>4, <1>5, <1>6, Stopped

\* It fails with its record in the store.
LEMMA FailedInside ==
  ASSUME Inv, pc \in Inside, NEW chain, UNCHANGED cause,
         NEW status \in {"rolled_back", "recovery_required", "recovery_failed"},
         Stop(status, chain),
         UNCHANGED insts \/ \E stage \in Stages : Turn(stage),
         status = "rolled_back" => insts'[Len(insts)].stage = "undone",
         status = "recovery_required" => insts'[Len(insts)].stage \in {"open", "marked", "kept"},
         status = "recovery_failed" => insts'[Len(insts)].stage \in {"open", "reverted", "undone"}
  PROVE  Inv'
<1>1. /\ Len(insts) = before + Current /\ Current = Len(report) + 1
      /\ Len(insts) \in Mine
      /\ \A k \in 1..Len(report) : before + k \in Mine /\ insts[before + k].stage = "kept"
  BY InWork
<1>2. asked' = asked /\ before' = before
  BY DEF Stop, End
<1>3. /\ InstsOK' /\ Mine' = Mine /\ Len(insts') = Len(insts)
      /\ \A k \in 1..Len(report) : insts'[before + k] = insts[before + k]
  <2>1. CASE UNCHANGED insts
    BY <2>1, <1>2, SameInsts
  <2>2. CASE \E stage \in Stages : Turn(stage)
    BY <2>2, <1>2, TurnedInsts
  <2> QED BY <2>1, <2>2
<1>4. /\ Len(report) \in Nat /\ before \in Nat /\ Len(report) < Len(asked)
      /\ cause' \in Causes /\ pc \in Running
  BY InstsType DEF Inv, TypeOK, Counted, Running, Inside
<1>5. ASSUME NEW k \in Nat, k = Current
      PROVE  Agrees(status, k)'
  <2>1. before + k = Len(insts)
    BY <1>1, <1>5
  <2> QED BY <2>1, <1>1, <1>2, <1>3 DEF Agrees
<1>6. Len(insts') >= before /\ Len(insts') <= before + Current
  BY <1>1, <1>3, <1>4
<1>7. status \in Statuses
  BY DEF Statuses
<1>8. \A k \in 1..Len(report) : (before + k) \in Mine' /\ insts'[before + k].stage = "kept"
  BY <1>1, <1>3
<1> QED BY <1>3, <1>4, <1>5, <1>6, <1>7, <1>8, Stopped

--------------------------------------------------------------------------------
(* A command ends without a report.                                            *)

LEMMA Ended ==
  ASSUME Inv, InstsOK', Len(insts') >= before,
         pc' = "idle", report' = <<>>, cause' = cause,
         exit' \in Classes \cup {"none", "panic"},
         UNCHANGED <<asked, before, runs>>
  PROVE  Inv'
<1>1. before \in Nat /\ Len(insts') \in Nat /\ <<>> \in Seq(Statuses)
  BY InstsType, LenProperties, EmptySeq DEF Inv, InstsOK
<1>2. before' \in 0..Len(insts')
  BY <1>1
<1>3. TypeOK'
  BY <1>1, <1>2 DEF Inv, TypeOK, InstsOK
<1> QED BY <1>3 DEF Inv, AllCommitted, Counted, Staged, ReportIsTrue, Running, Inside, InstsOK

--------------------------------------------------------------------------------
(* The steps.                                                                  *)

LEMMA InitInv == Init => Inv
<1> SUFFICES ASSUME Init PROVE Inv
  OBVIOUS
<1>1. /\ insts = <<>> /\ report = <<>> /\ asked = <<>> /\ before = 0 /\ pc = "idle"
      /\ cause = "plain" /\ exit = "none" /\ runs = 0
  BY DEF Init
<1>2. TypeOK
  BY <1>1, SizeAssumption, EmptySeq DEF TypeOK, Causes
<1>3. DOMAIN insts = {}
  BY <1>1
<1>4. OnlyLastUnresolved /\ FailFast
  BY <1>3 DEF OnlyLastUnresolved, OpenInsts, FailFast, Mine
<1> QED BY <1>1, <1>2, <1>4
        DEF Inv, AllCommitted, Counted, Staged, ReportIsTrue, Running, Inside

\* Steps that only move the command on.
LEMMA MovesOn ==
  ASSUME Inv, PreviewSafe \/ Approve \/ PlanSafe \/ WorkFails
  PROVE  Inv'
<1>1. /\ InstsOK' /\ Mine' = Mine
      /\ UNCHANGED <<insts, asked, before, report, exit, runs>>
  BY SameInsts DEF PreviewSafe, Approve, PlanSafe, WorkFails
<1>2. Current' = Current /\ DOMAIN report' = DOMAIN report
  BY <1>1 DEF Current
<1>3. /\ Len(report) \in Nat /\ Len(asked) \in Nat /\ before \in Nat
      /\ Len(insts) \in Nat /\ DOMAIN insts = 1..Len(insts)
  BY InstsType DEF Inv
<1>4. CASE PreviewSafe
  <2>1. pc = "preview" /\ pc' = "ask" /\ cause' = cause
    BY <1>4 DEF PreviewSafe
  <2> QED BY <1>1, <2>1 DEF Inv, TypeOK, AllCommitted, Counted, Staged, ReportIsTrue, Running, Inside, InstsOK
<1>5. CASE Approve
  <2>1. pc = "ask" /\ pc' = "next" /\ cause' = cause
    BY <1>5 DEF Approve
  <2>2. Len(insts) = before /\ report = <<>>
    BY <2>1 DEF Inv, Counted
  <2>3. Len(report) = 0 /\ DOMAIN report = {} /\ Mine = {}
    BY <2>2, <1>3 DEF Mine
  <2>4. AllCommitted'
    BY <2>3, <1>2 DEF AllCommitted
  <2>5. Counted'
    BY <1>1, <1>3, <2>1, <2>2, <2>3 DEF Counted, Running, Inside
  <2>6. Staged'
    BY <1>1, <2>1, <2>3 DEF Staged
  <2> QED BY <1>1, <2>1, <2>4, <2>5, <2>6 DEF Inv, TypeOK, ReportIsTrue, InstsOK
<1>6. CASE PlanSafe
  <2>1. pc = "next" /\ pc' = "begin" /\ cause' = cause /\ Current <= Len(asked)
    BY <1>6 DEF PlanSafe
  <2>2. AllCommitted'
    BY <1>1, <2>1 DEF Inv, AllCommitted, Running
  <2>3. Counted'
    BY <1>1, <1>3, <2>1 DEF Inv, Counted, Running, Inside, Current
  <2>4. Staged'
    BY <1>1, <2>1 DEF Inv, Staged
  <2> QED BY <1>1, <2>1, <2>2, <2>3, <2>4 DEF Inv, TypeOK, ReportIsTrue, InstsOK
<1>7. CASE WorkFails
  <2>1. pc = "work" /\ pc' = "undo" /\ cause' \in Causes
    BY <1>7 DEF WorkFails
  <2>2. AllCommitted'
    BY <1>1, <2>1 DEF Inv, AllCommitted, Running
  <2>3. Counted'
    BY <1>1, <1>2, <2>1 DEF Inv, Counted, Running, Inside
  <2>4. Staged'
    BY <1>1, <2>1 DEF Inv, Staged
  <2> QED BY <1>1, <2>1, <2>2, <2>3, <2>4 DEF Inv, TypeOK, ReportIsTrue, InstsOK
<1> QED BY <1>4, <1>5, <1>6, <1>7

LEMMA Starts ==
  ASSUME Inv, StartRun \/ StartRecover
  PROVE  Inv'
<1>1. /\ insts' = insts /\ before' = Len(insts) /\ report' = <<>> /\ cause' = cause
      /\ exit' = "none" /\ pc = "idle" /\ pc' \in {"preview", "recover"}
      /\ runs' = runs + 1 /\ runs < MaxRuns
  BY DEF StartRun, StartRecover
<1>2. asked' \in Seq(1..Last)
  <2>1. CASE StartRecover
    BY <2>1, EmptySeq DEF StartRecover
  <2>2. CASE StartRun
    <3>1. \/ asked' = [i \in 1..Last |-> i]
          \/ \E t \in 1..Last : asked' = <<t>>
      BY <2>2 DEF StartRun
    <3>2. CASE asked' = [i \in 1..Last |-> i]
      <4>1. asked' \in [1..Last -> 1..Last] /\ Last \in Nat
        BY <3>2, SizeAssumption
      <4> QED BY <4>1, SeqDef
    <3>3. CASE \E t \in 1..Last : asked' = <<t>>
      <4>1. PICK t \in 1..Last : asked' = <<t>>
        BY <3>3
      <4> QED BY <4>1
    <3> QED BY <3>1, <3>2, <3>3
  <2> QED BY <2>1, <2>2
<1>3. Len(insts) \in Nat /\ DOMAIN insts = 1..Len(insts) /\ TypeOK
  BY InstsType DEF Inv
<1>4. before' \in 0..Len(insts') /\ runs' \in 0..MaxRuns
  BY <1>1, <1>3, SizeAssumption DEF TypeOK
<1>5. TypeOK'
  BY <1>1, <1>2, <1>3, <1>4, EmptySeq DEF TypeOK
<1>6. Mine' = {}
  BY <1>1, <1>3 DEF Mine
<1>7. FailFast' /\ OnlyLastUnresolved'
  BY <1>1, <1>6 DEF FailFast, OnlyLastUnresolved, OpenInsts, Unresolved, Inv
<1> QED BY <1>1, <1>5, <1>7
        DEF Inv, AllCommitted, Counted, Staged, ReportIsTrue, Running, Inside

\* The end of a command that begins nothing more.
LEMMA Ends ==
  ASSUME Inv,
         \/ PreviewFails \/ PreviewUnsafe \/ Decline
         \/ RecoverDeclined \/ NothingToRecover
  PROVE  Inv'
<1>1. /\ UNCHANGED <<insts, asked, before, report, cause, runs>>
      /\ pc \in {"preview", "ask", "recover"} /\ pc' = "idle" /\ exit' \in Classes
  BY DEF PreviewFails, PreviewUnsafe, Decline, RecoverDeclined, NothingToRecover, End, Classes
<1>2. report' = <<>> /\ Len(insts') >= before
  BY <1>1, InstsType DEF Inv, Counted
<1>3. InstsOK'
  BY <1>1, SameInsts
<1> QED BY <1>1, <1>2, <1>3, Ended

LEMMA Finishes == ASSUME Inv, Finish PROVE Inv'
<1>1. /\ UNCHANGED <<insts, asked, before, report, cause, runs>>
      /\ pc = "next" /\ pc' = "idle" /\ exit' = "success" /\ Current > Len(asked)
  BY DEF Finish, End
<1>2. InstsOK' /\ Mine' = Mine
  BY <1>1, SameInsts
<1>3. /\ Len(report) \in Nat /\ Len(asked) \in Nat /\ DOMAIN report = 1..Len(report)
      /\ \A k \in DOMAIN report : report[k] = "committed"
      /\ Len(report) <= Len(asked)
  BY <1>1, InstsType DEF Inv, AllCommitted, Counted, Running
<1>4. Len(report) = Len(asked)
  BY <1>1, <1>3 DEF Current
<1>5. ASSUME NEW k \in DOMAIN report
      PROVE  Agrees(report[k], k)'
  <2>1. before + k \in Mine /\ insts[before + k].stage = "kept"
    BY <1>1, <1>3, BetweenTransactions
  <2>2. report'[k] = "committed"
    BY <1>1, <1>3
  <2> QED BY <2>1, <2>2, <1>1, <1>2 DEF Agrees
<1>6. ReportIsTrue'
  BY <1>1, <1>4, <1>5 DEF ReportIsTrue
<1>7. TypeOK'
  BY <1>1 DEF Inv, TypeOK, Classes
<1> QED BY <1>1, <1>2, <1>6, <1>7
        DEF Inv, AllCommitted, Counted, Staged, Running, Inside, InstsOK

\* A transaction is begun.
LEMMA Begins == ASSUME Inv, Begin PROVE Inv'
<1>1. /\ pc = "begin" /\ pc' = "work" /\ OpenInsts = {}
      /\ insts' = Append(insts, [of |-> asked[Current], stage |-> "open"])
      /\ UNCHANGED <<asked, before, report, cause, exit, runs>>
  BY DEF Begin, MayBegin
<1>2. /\ InstsOK' /\ Len(insts') = Len(insts) + 1
      /\ insts'[Len(insts) + 1].stage = "open"
  BY <1>1, JoinedInsts
<1>3. /\ Len(report) \in Nat /\ Len(asked) \in Nat /\ before \in Nat /\ Len(insts) \in Nat
      /\ Len(insts) = before + Len(report) /\ Len(report) < Len(asked)
      /\ before <= Len(insts) /\ Current' = Current
  BY <1>1, InstsType, BetweenTransactions DEF Inv, Counted, Running, Current
<1>4. before' \in 0..Len(insts')
  BY <1>1, <1>2, <1>3
<1>5. TypeOK'
  BY <1>1, <1>2, <1>4 DEF Inv, TypeOK, InstsOK
<1>6. AllCommitted'
  BY <1>1 DEF Inv, AllCommitted, Running
<1>7. Len(insts') = before + Current
  BY <1>2, <1>3 DEF Current
<1>8. Counted'
  BY <1>1, <1>3, <1>7 DEF Counted, Running, Inside
<1> QED BY <1>1, <1>2, <1>5, <1>6, <1>8 DEF Inv, Staged, ReportIsTrue, InstsOK

\* TX_COMMIT is written.
LEMMA Marks == ASSUME Inv, Mark PROVE Inv'
<1>1. /\ pc = "work" /\ pc' = "settle" /\ Turn("marked")
      /\ UNCHANGED <<asked, before, report, cause, exit, runs>>
  BY DEF Mark
<1>2. pc \in Inside /\ "marked" \in Stages
  BY <1>1 DEF Inside, Stages
<1>3. /\ InstsOK' /\ Len(insts') = Len(insts) /\ insts'[Len(insts)].stage = "marked"
  BY <1>1, <1>2, TurnedInsts
<1>4. TypeOK'
  BY <1>1, <1>3 DEF Inv, TypeOK, InstsOK
<1>5. AllCommitted'
  BY <1>1 DEF Inv, AllCommitted, Running
<1>6. Counted'
  BY <1>1, <1>3 DEF Inv, Counted, Running, Inside, Current
<1> QED BY <1>1, <1>3, <1>4, <1>5, <1>6 DEF Inv, Staged, ReportIsTrue, InstsOK

\* The transaction is committed and its lock is gone.
LEMMA Commits == ASSUME Inv, Commit PROVE Inv'
<1> DEFINE n == Len(insts)
<1>1. /\ pc = "settle" /\ pc' = "next" /\ Turn("kept") /\ report' = Append(report, "committed")
      /\ UNCHANGED <<asked, before, cause, exit, runs>>
  BY DEF Commit
<1>2. pc \in Inside /\ pc \in Running \ {"next"} /\ "kept" \in Stages /\ "committed" \in Statuses
  BY <1>1 DEF Inside, Running, Stages, Statuses
<1>3. /\ InstsOK' /\ Len(insts') = n /\ Mine' = Mine /\ insts'[n].stage = "kept"
  BY <1>1, <1>2, TurnedInsts
<1>4. /\ TypeOK /\ Len(report) \in Nat /\ Len(asked) \in Nat /\ before \in Nat /\ n \in Nat
      /\ report \in Seq(Statuses) /\ DOMAIN report = 1..Len(report)
      /\ n = before + Current /\ Current = Len(report) + 1 /\ Len(report) < Len(asked)
  BY <1>2, InstsType, InWork DEF Inv, TypeOK, Counted
<1>5. /\ report' \in Seq(Statuses) /\ Len(report') = Len(report) + 1
      /\ \A k \in 1..Len(report) : report'[k] = report[k]
      /\ report'[Len(report) + 1] = "committed"
  BY <1>1, <1>2, <1>4, AppendProperties
<1>6. TypeOK'
  BY <1>1, <1>3, <1>4, <1>5 DEF TypeOK, InstsOK
<1>7. AllCommitted'
  <2>1. DOMAIN report' = 1..(Len(report) + 1)
    BY <1>5, LenProperties
  <2>2. \A k \in 1..Len(report) : report[k] = "committed"
    BY <1>2, <1>4 DEF Inv, AllCommitted
  <2>3. ASSUME NEW k \in DOMAIN report'
        PROVE  report'[k] = "committed"
    <3>1. k \in 1..Len(report) \/ k = Len(report) + 1
      BY <2>1, <1>4
    <3> QED BY <3>1, <2>2, <1>5
  <2> QED BY <2>3 DEF AllCommitted
<1>8. Counted'
  <2>1. Len(insts') = before + Len(report') /\ Len(report') <= Len(asked)
    BY <1>3, <1>4, <1>5
  <2> QED BY <1>1, <2>1 DEF Counted, Running, Inside
<1>9. Staged'
  <2>1. ASSUME NEW i \in Mine
        PROVE  insts'[i].stage = "kept"
    <3>1. i \in 1..n
      BY <1>4, InstsType DEF Mine
    <3>2. CASE i = n
      BY <3>2, <1>3
    <3>3. CASE i < n
      BY <3>3, <1>3 DEF InstsOK, FailFast
    <3> HIDE DEF n
    <3> QED BY <3>1, <3>2, <3>3, <1>4
  <2> QED BY <1>1, <1>3, <2>1 DEF Staged
<1> QED BY <1>1, <1>3, <1>6, <1>7, <1>8, <1>9 DEF Inv, ReportIsTrue, InstsOK

\* A transaction fails and the command stops.
LEMMA Fails ==
  ASSUME Inv,
         \/ PlanFails \/ PlanUnsafe \/ Blocked \/ BeginFails \/ WorkStops
         \/ MarkFails \/ SettleFails \/ RollBack \/ RollBackFails
  PROVE  Inv'
<1>1. CASE PlanFails \/ PlanUnsafe
  BY <1>1, NotBegun DEF PlanFails, PlanUnsafe
<1>2. CASE Blocked
  <2>1. Current <= Len(asked)
    BY <1>2, InstsType DEF Blocked, Inv, Counted, Running, Current
  <2> QED BY <1>2, <2>1, NotBegun DEF Blocked
<1>3. CASE BeginFails
  <2>1. Current <= Len(asked)
    BY <1>3, InstsType DEF BeginFails, Inv, Counted, Running, Current
  <2> QED BY <1>3, <2>1, NotBegun, HalfBegun DEF BeginFails
<1>4. CASE WorkStops
  <2>1. /\ pc \in Inside /\ Stop("recovery_required", <<"required", "plain">>)
        /\ insts[Len(insts)].stage = "open" /\ UNCHANGED <<insts, cause>>
    BY <1>4 DEF WorkStops, Inv, Staged, Inside
  <2>2. insts'[Len(insts)].stage = "open"
    BY <2>1
  <2> QED BY <2>1, <2>2, FailedInside
<1>5. CASE MarkFails
  <2>1. /\ pc \in Inside /\ Stop("recovery_required", <<"required", "plain">>)
        /\ insts[Len(insts)].stage = "open" /\ UNCHANGED cause
        /\ UNCHANGED insts \/ Turn("marked")
        /\ "marked" \in Stages
    BY <1>5 DEF MarkFails, Inv, Staged, Inside, Stages
  <2>2. asked' = asked /\ before' = before
    BY <2>1 DEF Stop, End
  <2>3. insts'[Len(insts)].stage \in {"open", "marked"}
    BY <2>1, <2>2, TurnedInsts
  <2> QED BY <2>1, <2>3, FailedInside
<1>6. CASE SettleFails
  <2>1. /\ pc \in Inside /\ Stop("recovery_required", <<"required", "plain">>)
        /\ insts[Len(insts)].stage = "marked" /\ UNCHANGED cause
        /\ UNCHANGED insts \/ Turn("kept")
        /\ "kept" \in Stages
    BY <1>6 DEF SettleFails, Inv, Staged, Inside, Stages
  <2>2. asked' = asked /\ before' = before
    BY <2>1 DEF Stop, End
  <2>3. insts'[Len(insts)].stage \in {"marked", "kept"}
    BY <2>1, <2>2, TurnedInsts
  <2> QED BY <2>1, <2>3, FailedInside
<1>7. CASE RollBack
  <2>1. /\ pc \in Inside /\ Stop("rolled_back", <<"rolled back", cause>>)
        /\ UNCHANGED cause /\ Turn("undone") /\ "undone" \in Stages
    BY <1>7 DEF RollBack, Inside, Stages
  <2>2. asked' = asked /\ before' = before
    BY <2>1 DEF Stop, End
  <2>3. insts'[Len(insts)].stage = "undone"
    BY <2>1, <2>2, TurnedInsts
  <2> QED BY <2>1, <2>3, FailedInside
<1>8. CASE RollBackFails
  <2>1. PICK chain \in RecoverErrors : Stop("recovery_failed", <<"failed", cause>> \o chain)
    BY <1>8 DEF RollBackFails
  <2>2. /\ pc \in Inside /\ UNCHANGED cause
        /\ insts[Len(insts)].stage = "open"
        /\ UNCHANGED insts \/ \E stage \in {"reverted", "undone"} : Turn(stage)
        /\ {"reverted", "undone"} \subseteq Stages
    BY <1>8 DEF RollBackFails, Inv, Staged, Inside, Stages
  <2>3. asked' = asked /\ before' = before
    BY <2>1 DEF Stop, End
  <2>4. insts'[Len(insts)].stage \in {"open", "reverted", "undone"}
    <3>1. CASE UNCHANGED insts
      BY <3>1, <2>2
    <3>2. CASE \E stage \in {"reverted", "undone"} : Turn(stage)
      <4>1. PICK stage \in {"reverted", "undone"} : Turn(stage)
        BY <3>2
      <4>2. stage \in Stages
        BY <2>2
      <4>3. insts'[Len(insts)].stage = stage
        BY <2>2, <2>3, <4>1, <4>2, TurnedInsts
      <4> QED BY <4>3
    <3> QED BY <2>2, <3>1, <3>2
  <2>5. UNCHANGED insts \/ \E stage \in Stages : Turn(stage)
    BY <2>2
  <2> QED BY <2>1, <2>2, <2>4, <2>5, FailedInside
<1> QED BY <1>1, <1>2, <1>3, <1>4, <1>5, <1>6, <1>7, <1>8

--------------------------------------------------------------------------------
(* Recoveries and kills.                                                       *)

\* What a recovery makes of an unresolved transaction.
LEMMA Resolved ==
  ASSUME Inv, NEW i \in OpenInsts, UNCHANGED <<before, asked>>,
         insts' = [insts EXCEPT ![i].stage = Verdict(@)] \/ Advanced(i)
  PROVE  InstsOK' /\ Len(insts') = Len(insts)
<1>1. i = Len(insts) /\ i \in DOMAIN insts
  BY DEF Inv, OnlyLastUnresolved, OpenInsts
<1>2. PICK stage \in Stages : insts' = [insts EXCEPT ![i].stage = stage]
  <2>1. Verdict(insts[i].stage) \in Stages /\ "reverted" \in Stages
    BY DEF Verdict, Stages
  <2>2. CASE insts' = [insts EXCEPT ![i].stage = Verdict(@)]
    BY <2>1, <2>2
  <2>3. CASE Advanced(i)
    BY <2>1, <2>3 DEF Advanced
  <2> QED BY <2>2, <2>3
<1> QED BY <1>1, <1>2, TurnedLast

LEMMA Recovers ==
  ASSUME Inv, Recovered \/ RecoverFails
  PROVE  Inv'
<1>1. /\ pc = "recover" /\ pc' = "idle" /\ UNCHANGED <<asked, before, runs, report, cause>>
      /\ \/ UNCHANGED insts
         \/ \E i \in OpenInsts : insts' = [insts EXCEPT ![i].stage = Verdict(@)] \/ Advanced(i)
  BY DEF Recovered, RecoverFails, End
<1>2. exit' \in Classes \cup {"none", "panic"}
  <2>1. CASE Recovered
    BY <2>1 DEF Recovered, End, Classes
  <2>2. CASE RecoverFails
    BY <2>2, ExitType DEF RecoverFails, End
  <2> QED BY <2>1, <2>2
<1>3. InstsOK' /\ Len(insts') = Len(insts)
  BY <1>1, SameInsts, Resolved
<1>4. report' = <<>> /\ Len(insts') >= before
  BY <1>1, <1>3, InstsType DEF Inv, Counted
<1> QED BY <1>1, <1>2, <1>3, <1>4, Ended

LEMMA Dies == ASSUME Inv, Kill PROVE Inv'
<1>1. /\ pc' = "idle" /\ exit' = "none" /\ report' = <<>>
      /\ UNCHANGED <<asked, before, cause, runs>>
  BY DEF Kill
<1>2. Len(insts) \in Nat /\ before \in Nat /\ before <= Len(insts)
  BY InstsType DEF Inv
<1>3. InstsOK' /\ Len(insts') >= before
  <2>1. CASE UNCHANGED insts
    BY <2>1, <1>1, <1>2, SameInsts
  <2>2. CASE /\ pc = "begin" /\ MayBegin
             /\ insts' = Append(insts, [of |-> asked[Current], stage |-> "open"])
    <3>1. InstsOK' /\ Len(insts') = Len(insts) + 1
      BY <2>2, <1>1, JoinedInsts DEF MayBegin
    <3> QED BY <3>1, <1>2
  <2>3. CASE pc \in Inside /\ \E stage \in Stages : Turn(stage)
    BY <2>3, <1>1, <1>2, TurnedInsts
  <2>4. CASE \E i \in OpenInsts : Advanced(i)
    BY <2>4, <1>1, <1>2, Resolved
  <2> QED BY <2>1, <2>2, <2>3, <2>4 DEF Kill, Inside, Stages
<1> QED BY <1>1, <1>3, Ended

LEMMA StepInv == Inv /\ [Next]_vars => Inv'
<1> SUFFICES ASSUME Inv, [Next]_vars PROVE Inv'
  OBVIOUS
<1>1. CASE Next
  BY <1>1, MovesOn, Starts, Ends, Finishes, Begins, Marks, Commits, Fails, Recovers, Dies
     DEF Next, Run, Execute, Recover
<1>2. CASE UNCHANGED vars
  <2>1. UNCHANGED <<insts, pc, asked, before, report, cause, exit, runs>>
    BY <1>2 DEF vars
  <2>2. InstsOK' /\ Mine' = Mine /\ Current' = Current
    BY <2>1, SameInsts DEF Current
  <2>3. TypeOK' /\ AllCommitted' /\ Counted' /\ Staged'
    BY <2>1, <2>2 DEF Inv, TypeOK, AllCommitted, Counted, Staged
  <2>4. ReportIsTrue'
    BY <2>1, <2>2 DEF Inv, ReportIsTrue, Agrees
  <2> QED BY <2>2, <2>3, <2>4 DEF Inv, InstsOK
<1> QED BY <1>1, <1>2

--------------------------------------------------------------------------------
(* Decisions.                                                                  *)

\* The body of DecisionStands.
Stands ==
  \A i \in DOMAIN insts :
    /\ i \in DOMAIN insts' /\ insts'[i].of = insts[i].of
    /\ insts[i].stage \in {"marked", "kept"} => insts'[i].stage \in {"marked", "kept"}
    /\ insts[i].stage \in {"reverted", "undone"} => insts'[i].stage \in {"reverted", "undone"}
    /\ insts[i].stage \in {"kept", "undone"} => insts'[i].stage = insts[i].stage

\* One transaction goes one of the ways the journal leaves it.
LEMMA StandsTurned ==
  ASSUME TypeOK, NEW n \in DOMAIN insts, NEW stage \in Stages,
         insts' = [insts EXCEPT ![n].stage = stage],
         \/ insts[n].stage = "open"
         \/ insts[n].stage = "marked" /\ stage = "kept"
         \/ insts[n].stage = "reverted" /\ stage = "undone"
  PROVE  Stands
<1>1. /\ DOMAIN insts' = DOMAIN insts
      /\ \A i \in DOMAIN insts : insts'[i].of = insts[i].of
      /\ \A i \in DOMAIN insts : i # n => insts'[i] = insts[i]
      /\ insts'[n].stage = stage
  BY Turned
<1> QED BY <1>1 DEF Stands

LEMMA StandsResolved ==
  ASSUME Inv, NEW i \in OpenInsts,
         insts' = [insts EXCEPT ![i].stage = Verdict(@)] \/ Advanced(i)
  PROVE  Stands
<1>1. /\ TypeOK /\ i \in DOMAIN insts
      /\ insts[i].stage \in {"open", "marked", "reverted"}
  BY DEF Inv, OpenInsts, Unresolved
<1>2. /\ insts[i].stage = "marked" => Verdict(insts[i].stage) = "kept"
      /\ insts[i].stage # "marked" => Verdict(insts[i].stage) = "undone"
      /\ {"kept", "undone", "reverted"} \subseteq Stages
  BY DEF Verdict, Stages
<1>3. CASE insts' = [insts EXCEPT ![i].stage = Verdict(@)]
  <2>1. insts' = [insts EXCEPT ![i].stage = Verdict(insts[i].stage)]
    BY <1>3
  <2> QED BY <1>1, <1>2, <2>1, StandsTurned
<1>4. CASE insts[i].stage = "open" /\ insts' = [insts EXCEPT ![i].stage = "reverted"]
  BY <1>1, <1>2, <1>4, StandsTurned
<1> QED BY <1>3, <1>4 DEF Advanced

\* What Execute does to its own transaction.
LEMMA StandsInside ==
  ASSUME Inv, pc = "work" \/ pc = "undo", NEW stage \in Stages, Turn(stage)
  PROVE  Stands
<1>1. TypeOK /\ Len(insts) \in DOMAIN insts
  BY InWork DEF Inv, Inside
<1>2. insts[Len(insts)].stage = "open"
  BY DEF Inv, Staged
<1> QED BY <1>1, <1>2, StandsTurned DEF Turn, Started

LEMMA StandsSettled ==
  ASSUME Inv, pc = "settle", Turn("kept")
  PROVE  Stands
<1>1. TypeOK /\ Len(insts) \in DOMAIN insts /\ "kept" \in Stages
  BY InWork DEF Inv, Inside, Stages
<1>2. insts[Len(insts)].stage = "marked"
  BY DEF Inv, Staged
<1>3. insts' = [insts EXCEPT ![Len(insts)].stage = "kept"]
  BY DEF Turn, Started
<1> QED BY <1>1, <1>2, <1>3, StandsTurned

LEMMA StandsBegun ==
  ASSUME Inv, pc = "begin",
         insts' = Append(insts, [of |-> asked[Current], stage |-> "open"])
  PROVE  Stands
<1>1. /\ TypeOK /\ Len(report) \in Nat /\ Len(asked) \in Nat
      /\ asked \in Seq(1..Last) /\ Len(report) < Len(asked)
  BY InstsType DEF Inv, TypeOK, Counted, Running
<1>2. Current \in 1..Len(asked)
  BY <1>1 DEF Current
<1>3. asked[Current] \in 1..Last
  BY <1>1, <1>2, ElementOfSeq
<1>4. /\ DOMAIN insts' = 1..(Len(insts) + 1)
      /\ \A i \in DOMAIN insts : insts'[i] = insts[i]
  BY <1>1, <1>3, Joined
<1>5. DOMAIN insts = 1..Len(insts) /\ Len(insts) \in Nat
  BY <1>1, InstsType
<1> QED BY <1>4, <1>5 DEF Stands

LEMMA StandsSame == ASSUME UNCHANGED insts PROVE Stands
BY DEF Stands

LEMMA StepStands == Inv /\ [Next]_vars => Stands
<1> SUFFICES ASSUME Inv, [Next]_vars PROVE Stands
  OBVIOUS
<1>0. "marked" \in Stages /\ "kept" \in Stages /\ "reverted" \in Stages /\ "undone" \in Stages
  BY DEF Stages
<1>1. CASE UNCHANGED insts
  BY <1>1, StandsSame
<1>2. CASE Begin \/ BeginFails
  BY <1>2, StandsBegun, StandsSame DEF Begin, BeginFails
<1>3. CASE Mark \/ MarkFails \/ Commit \/ SettleFails \/ RollBack
  <2>1. \/ UNCHANGED insts
        \/ pc = "work" /\ Turn("marked")
        \/ pc = "settle" /\ Turn("kept")
        \/ pc = "undo" /\ Turn("undone")
    BY <1>3 DEF Mark, MarkFails, Commit, SettleFails, RollBack
  <2> QED BY <1>0, <2>1, StandsInside, StandsSettled, StandsSame
<1>4. CASE RollBackFails
  <2>1. /\ pc = "undo"
        /\ UNCHANGED insts \/ \E stage \in {"reverted", "undone"} : Turn(stage)
    BY <1>4 DEF RollBackFails
  <2> QED BY <1>0, <2>1, StandsInside, StandsSettled, StandsSame
<1>5. CASE Recovered \/ RecoverFails
  BY <1>5, StandsResolved, StandsSame DEF Recovered, RecoverFails
<1>6. CASE Kill
  <2>1. \/ UNCHANGED insts
        \/ /\ pc = "begin"
           /\ insts' = Append(insts, [of |-> asked[Current], stage |-> "open"])
        \/ pc = "work" /\ Turn("marked")
        \/ pc = "settle" /\ Turn("kept")
        \/ pc = "undo" /\ \E stage \in {"reverted", "undone"} : Turn(stage)
        \/ \E i \in OpenInsts : Advanced(i)
    BY <1>6 DEF Kill
  <2>2. CASE pc = "undo" /\ \E stage \in {"reverted", "undone"} : Turn(stage)
    BY <1>0, <2>2, StandsInside
  <2>3. CASE \E i \in OpenInsts : Advanced(i)
    BY <2>3, StandsResolved
  <2> QED BY <1>0, <2>1, <2>2, <2>3, StandsSame, StandsBegun, StandsInside, StandsSettled
<1>7. \/ UNCHANGED insts
      \/ Begin \/ BeginFails \/ Mark \/ MarkFails \/ Commit \/ SettleFails
      \/ RollBack \/ RollBackFails \/ Recovered \/ RecoverFails \/ Kill
  <2>1. CASE UNCHANGED vars
    BY <2>1 DEF vars
  <2>2. CASE StartRun \/ StartRecover \/ Run
    BY <2>2 DEF StartRun, StartRecover, Run, PreviewFails, PreviewUnsafe, PreviewSafe, Decline,
                Approve, Finish, PlanFails, PlanUnsafe, PlanSafe
  <2>3. CASE Execute \/ Recover
    BY <2>3 DEF Execute, Recover, Blocked, WorkFails, WorkStops, RecoverDeclined, NothingToRecover
  <2> QED BY <2>1, <2>2, <2>3 DEF Next
<1> QED BY <1>1, <1>2, <1>3, <1>4, <1>5, <1>6, <1>7

--------------------------------------------------------------------------------
(* Exit statuses.                                                              *)

\* A command has no exit status before it ends, and recover asks for no transaction.
Silent == /\ pc # "idle" => exit = "none"
          /\ pc = "recover" => asked = <<>>

ExitInv == ExitIsTrue /\ Silent

LEMMA ExitCases ==
  ASSUME NEW chain
  PROVE  /\ ExitOf(chain) # "success" /\ ExitOf(chain) # "usage" /\ ExitOf(chain) # "none"
         /\ ExitOf(chain) = "rolled back" => Found(chain, {"rolled back"})
BY Zenon DEF ExitOf

\* The exit statuses that promise nothing.
LEMMA ExitElse ==
  ASSUME exit' # "success", exit' # "usage", exit' # "rolled back", pc' = "idle"
  PROVE  ExitInv'
BY DEF ExitInv, ExitIsTrue, Silent

\* Only rollbackFailure makes the error that is reported as rolled back.
LEMMA StopsElse ==
  ASSUME NEW status, NEW chain, Stop(status, chain), ~Found(chain, {"rolled back"})
  PROVE  ExitInv'
BY ExitCases, ExitElse DEF Stop, End

LEMMA ElseFound ==
  ASSUME NEW S, NEW chain \in Seq(S), "rolled back" \notin S
  PROVE  ~Found(chain, {"rolled back"})
<1>1. \A i \in DOMAIN chain : chain[i] \in S
  BY LenProperties, ElementOfSeq
<1> QED BY <1>1 DEF Found

LEMMA RecoverChains ==
  ASSUME NEW chain \in RecoverErrors
  PROVE  /\ ~Found(chain, {"rolled back"})
         /\ \A c \in Causes : ~Found(<<"failed", c>> \o chain, {"rolled back"})
<1> DEFINE Kinds == {"failed", "path", "plan", "corrupt", "plain"}
<1>1. /\ <<"plain">> \in Seq(Kinds) /\ \A c \in Kinds : <<"failed", c>> \in Seq(Kinds)
      /\ Causes \subseteq Kinds /\ "rolled back" \notin Kinds
  BY DEF Causes
<1>2. chain = <<"plain">> \/ \E c \in Kinds : chain = <<"failed", c>>
  BY DEF RecoverErrors, PendingErrors
<1> HIDE DEF Kinds
<1>3. chain \in Seq(Kinds)
  BY <1>1, <1>2
<1>4. ASSUME NEW c \in Causes
      PROVE  ~Found(<<"failed", c>> \o chain, {"rolled back"})
  <2>1. <<"failed", c>> \in Seq(Kinds)
    BY <1>1
  <2>2. <<"failed", c>> \o chain \in Seq(Kinds)
    BY <1>3, <2>1, ConcatProperties
  <2> QED BY <1>1, <2>2, ElseFound
<1> QED BY <1>1, <1>3, <1>4, ElseFound

LEMMA ExitFails ==
  ASSUME Inv, Inv',
         \/ PlanFails \/ PlanUnsafe \/ Blocked \/ BeginFails \/ WorkStops
         \/ MarkFails \/ SettleFails \/ RollBackFails
  PROVE  ExitInv'
<1> DEFINE Other(chain) == ~Found(chain, {"rolled back"})
           Kinds == {"path", "plan", "plain", "required"}
<1>1. \A c \in Kinds : Other(<<c>>)
  <2> SUFFICES ASSUME NEW c \in Kinds PROVE Other(<<c>>)
    OBVIOUS
  <2>1. <<c>> \in Seq(Kinds) /\ "rolled back" \notin Kinds
    OBVIOUS
  <2> HIDE DEF Kinds
  <2> QED BY <2>1, ElseFound
<1>2. Other(<<>>) /\ Other(<<"required", "plain">>)
  <2>1. /\ <<>> \in Seq(Kinds) /\ <<"required", "plain">> \in Seq(Kinds)
        /\ "rolled back" \notin Kinds
    OBVIOUS
  <2> HIDE DEF Kinds
  <2> QED BY <2>1, ElseFound
<1>3. cause \in Causes
  BY DEF Inv, TypeOK
<1>4. \A chain \in RecoverErrors : Other(chain) /\ Other(<<"failed", cause>> \o chain)
  BY <1>3, RecoverChains
<1>5. \A chain \in PendingErrors : Other(chain)
  BY <1>4 DEF RecoverErrors
<1> HIDE DEF Other
<1>6. \E status, chain : Stop(status, chain) /\ Other(chain)
  <2>1. CASE PlanFails
    BY <2>1, <1>1 DEF PlanFails
  <2>2. CASE PlanUnsafe
    BY <2>2, <1>2 DEF PlanUnsafe
  <2>3. CASE Blocked
    BY <2>3, <1>1, <1>5 DEF Blocked
  <2>4. CASE BeginFails
    BY <2>4, <1>1 DEF BeginFails
  <2>5. CASE WorkStops \/ MarkFails \/ SettleFails
    BY <2>5, <1>2 DEF WorkStops, MarkFails, SettleFails
  <2>6. CASE RollBackFails
    BY <2>6, <1>4 DEF RollBackFails
  <2> QED BY <2>1, <2>2, <2>3, <2>4, <2>5, <2>6
<1> QED BY <1>6, StopsElse DEF Other

\* Rolled back, and nothing is left to recover.
LEMMA ExitRolledBack == ASSUME Inv, Inv', RollBack PROVE ExitInv'
<1>1. /\ pc \in Inside /\ Turn("undone") /\ "undone" \in Stages
      /\ pc' = "idle" /\ asked' = asked /\ before' = before
      /\ \E chain : exit' = ExitOf(chain)
  BY DEF RollBack, Stop, End, Inside, Stages
<1>2. /\ Len(insts') = Len(insts) /\ Mine' = Mine /\ Len(insts) \in Mine
      /\ insts'[Len(insts)].stage = "undone"
  BY <1>1, TurnedInsts, InWork
<1>3. OpenInsts' = {}
  BY <1>2 DEF Inv, OnlyLastUnresolved, OpenInsts, Unresolved
<1>4. ASSUME NEW i \in Mine
      PROVE  insts'[i].stage = IF i = Len(insts) THEN "undone" ELSE "kept"
  <2>1. CASE i = Len(insts)
    BY <2>1, <1>2
  <2>2. CASE i # Len(insts)
    <3>1. i < Len(insts)
      BY <2>2, InstsType DEF Inv, Mine
    <3>2. insts'[i].stage = "kept"
      BY <3>1, <1>2 DEF Inv, FailFast
    <3> QED BY <2>2, <3>2
  <2> QED BY <2>1, <2>2
<1>5. exit' # "success" /\ exit' # "usage"
  BY <1>1, ExitCases
<1> QED BY <1>1, <1>2, <1>3, <1>4, <1>5 DEF ExitInv, ExitIsTrue, Silent

\* All it asked for is committed.
LEMMA ExitFinishes == ASSUME Inv, Inv', Finish PROVE ExitInv'
<1>1. /\ UNCHANGED <<insts, asked, before, report>>
      /\ pc = "next" /\ pc' = "idle" /\ exit' = "success" /\ Current > Len(asked)
  BY DEF Finish, End
<1>2. /\ Len(report) \in Nat /\ Len(asked) \in Nat /\ before \in Nat
      /\ Len(insts) \in Nat /\ DOMAIN insts = 1..Len(insts)
      /\ Len(report) <= Len(asked) /\ Len(insts) = before + Len(report)
  BY <1>1, InstsType DEF Inv, Counted, Running
<1>3. Len(asked) = Len(report)
  BY <1>1, <1>2 DEF Current
<1>4. Mine = (before + 1)..(before + Len(asked))
  BY <1>2, <1>3 DEF Mine
<1>5. Cardinality(Mine) = Len(asked)
  <2> DEFINE a == before + 1
             b == before + Len(asked)
  <2>1. a \in Int /\ b \in Int /\ (IF a > b THEN 0 ELSE b - a + 1) = Len(asked)
    BY <1>2
  <2>2. Mine = a..b
    BY <1>4
  <2> HIDE DEF a, b
  <2>3. Cardinality(a..b) = IF a > b THEN 0 ELSE b - a + 1
    BY <2>1, FS_Interval
  <2> QED BY <2>1, <2>2, <2>3
<1>6. Mine' = Mine /\ Cardinality(Mine)' = Cardinality(Mine)
  BY <1>1 DEF Mine
<1>7. \A i \in Mine : insts[i].stage = "kept"
  BY <1>1 DEF Inv, Staged
<1> QED BY <1>1, <1>5, <1>6, <1>7 DEF ExitInv, ExitIsTrue, Silent

\* The other ends begin nothing.
LEMMA ExitEnds ==
  ASSUME Inv, ExitInv,
         \/ PreviewFails \/ PreviewUnsafe \/ Decline
         \/ RecoverDeclined \/ NothingToRecover \/ Recovered
  PROVE  ExitInv'
<1>1. /\ pc \in {"preview", "ask", "recover"} /\ pc' = "idle" /\ exit' # "rolled back"
      /\ UNCHANGED <<asked, before>>
      /\ exit' = "success" => pc = "recover"
      /\ UNCHANGED insts \/ Recovered
  BY DEF PreviewFails, PreviewUnsafe, Decline, RecoverDeclined, NothingToRecover, Recovered, End
<1>2. InstsOK' /\ Len(insts') = Len(insts)
  <2>1. CASE UNCHANGED insts
    BY <1>1, <2>1, SameInsts
  <2>2. CASE Recovered
    <3>1. PICK i \in OpenInsts : insts' = [insts EXCEPT ![i].stage = Verdict(@)]
      BY <2>2 DEF Recovered
    <3> QED BY <1>1, <3>1, Resolved
  <2> QED BY <1>1, <2>1, <2>2
<1>3. /\ Len(insts) = before /\ Len(insts) \in Nat /\ DOMAIN insts' = 1..Len(insts')
  BY <1>1, <1>2, InstsType, LenProperties DEF Inv, Counted, InstsOK
<1>4. Mine' = {}
  <2>1. before' = before /\ Len(insts') = before /\ before \in Nat
    BY <1>1, <1>2, <1>3
  <2>2. \A i \in 1..Len(insts') : ~(i > before')
    BY <2>1
  <2> QED BY <1>3, <2>2 DEF Mine
<1>5. exit' = "success" => Len(asked') = 0 /\ Cardinality(Mine)' = 0
  BY <1>1, <1>4, FS_EmptySet DEF ExitInv, Silent
<1> QED BY <1>1, <1>4, <1>5 DEF ExitInv, ExitIsTrue, Silent

LEMMA ExitMoves ==
  ASSUME Inv, ExitInv,
         \/ PreviewSafe \/ Approve \/ PlanSafe \/ WorkFails \/ Begin \/ Mark \/ Commit
         \/ StartRun \/ StartRecover \/ Kill
  PROVE  ExitInv'
<1>1. /\ exit' = "none"
      /\ pc' = "recover" => asked' = <<>>
  BY DEF ExitInv, Silent, PreviewSafe, Approve, PlanSafe, WorkFails, Begin, Mark, Commit,
         StartRun, StartRecover, Kill
<1> QED BY <1>1 DEF ExitInv, ExitIsTrue, Silent

LEMMA StepExit == Inv /\ Inv' /\ ExitInv /\ [Next]_vars => ExitInv'
<1> SUFFICES ASSUME Inv, Inv', ExitInv, [Next]_vars PROVE ExitInv'
  OBVIOUS
<1>1. CASE UNCHANGED vars
  <2>1. UNCHANGED <<insts, pc, asked, before, exit>>
    BY <1>1 DEF vars
  <2>2. Mine' = Mine /\ OpenInsts' = OpenInsts /\ Cardinality(Mine)' = Cardinality(Mine)
    BY <2>1 DEF Mine, OpenInsts, Unresolved
  <2> QED BY <2>1, <2>2 DEF ExitInv, ExitIsTrue, Silent
<1>2. CASE RecoverFails
  <2>1. PICK chain \in RecoverErrors : End(ExitOf(chain))
    BY <1>2 DEF RecoverFails
  <2> QED BY <2>1, RecoverChains, ExitCases, ExitElse DEF End
<1> QED BY <1>1, <1>2, ExitFails, ExitRolledBack, ExitFinishes, ExitEnds, ExitMoves
        DEF Next, Run, Execute, Recover

--------------------------------------------------------------------------------
(* Theorems                                                                    *)

\* Inv is an invariant of a program of any length, over any number of commands.
THEOREM Invariance == Spec => []Inv
<1>1. Init => Inv
  BY InitInv
<1>2. Inv /\ [Next]_vars => Inv'
  BY StepInv
<1> QED BY <1>1, <1>2, PTL DEF Spec

\* Every reachable state is well typed.
THEOREM TypeCorrect == Spec => []TypeOK
<1>1. Inv => TypeOK
  BY DEF Inv
<1> QED BY <1>1, Invariance, PTL

\* No transaction is begun over the remains of another.
THEOREM OnlyLastCorrect == Spec => []OnlyLastUnresolved
<1>1. Inv => OnlyLastUnresolved
  BY DEF Inv
<1> QED BY <1>1, Invariance, PTL

\* Source order, without a gap, and nothing behind a transaction that failed.
THEOREM FailFastCorrect == Spec => []FailFast
<1>1. Inv => FailFast
  BY DEF Inv
<1> QED BY <1>1, Invariance, PTL

\* Every printed status is true of the store.
THEOREM ReportCorrect == Spec => []ReportIsTrue
<1>1. Inv => ReportIsTrue
  BY DEF Inv
<1> QED BY <1>1, Invariance, PTL

\* What the exit status alone tells is true.
THEOREM ExitCorrect == Spec => []ExitIsTrue
<1>1. Init => ExitInv
  BY DEF Init, ExitInv, ExitIsTrue, Silent
<1>2. Inv /\ Inv' /\ ExitInv /\ [Next]_vars => ExitInv'
  BY StepExit
<1>3. ExitInv => ExitIsTrue
  BY DEF ExitInv
<1> QED BY <1>1, <1>2, <1>3, Invariance, PTL DEF Spec

\* No command, failure or kill turns a decision round.
THEOREM DecisionCorrect == Spec => DecisionStands
<1>1. Inv /\ [Next]_vars =>
        [\A i \in DOMAIN insts :
           /\ i \in DOMAIN insts' /\ insts'[i].of = insts[i].of
           /\ insts[i].stage \in {"marked", "kept"} => insts'[i].stage \in {"marked", "kept"}
           /\ insts[i].stage \in {"reverted", "undone"} => insts'[i].stage \in {"reverted", "undone"}
           /\ insts[i].stage \in {"kept", "undone"} => insts'[i].stage = insts[i].stage]_vars
  BY StepStands DEF Stands
<1> QED BY <1>1, Invariance, PTL DEF Spec, DecisionStands

================================================================================
