------------------------------- MODULE UndoStream ------------------------------
(***************************************************************************)
(* Searching and replacing in a file that is read chunk by chunk           *)
(* (src/internal/streamutil/stream.go): Contains, which decides `contains` *)
(* conditions, and ReplaceAll, which writes the new file of a replace and  *)
(* counts its matches for the plan.  One action is one turn of one of      *)
(* their loops; a read delivers any number of bytes, with any error.  What *)
(* both should give is defined on the whole file.                          *)
(***************************************************************************)
EXTENDS Naturals, Sequences

CONSTANTS
  Bytes,
  Inputs,     \* the files
  Needles,    \* the patterns; the empty one is refused by validate.go
  News,       \* the replacements
  BufferSize

ASSUME StreamAssumption ==
  /\ Inputs \subseteq Seq(Bytes) /\ Needles \subseteq Seq(Bytes) /\ News \subseteq Seq(Bytes)
  /\ \A n \in Needles : n # <<>>
  /\ BufferSize \in Nat \ {0}

VARIABLES
  job,        \* "search" (Contains) or "replace" (ReplaceAll)
  input,      \* what the reader will deliver
  old, new,   \* needle or old, replacement
  pc,         \* the loop it is in, or the outcome
  prefix,     \* Contains: the table, as far as it is made
  matched,    \* Contains: matched, and j while the table is made
  at,         \* bytes delivered so far
  data,       \* bytes read and not dealt with; between two rounds of ReplaceAll, carry
  err,        \* what came with the last read: "nil", "EOF", "other", "nothing"
  out,        \* ReplaceAll: bytes written
  matches     \* ReplaceAll: replacements made

task == <<job, input, old, new>>
vars == <<task, pc, prefix, matched, at, data, err, out, matches>>

Errors   == {"nil", "EOF", "other"}
Outcomes == {"found", "absent", "replaced", "failed"}

TypeOK ==
  /\ job \in {"search", "replace"} /\ input \in Inputs /\ old \in Needles /\ new \in News
  /\ pc \in {"table", "read", "search", "replace"} \cup Outcomes
  /\ prefix \in Seq(0..(Len(old) - 1)) /\ Len(prefix) \in 1..Len(old)
  /\ matched \in 0..Len(old) /\ (matched = Len(old) => pc = "found")
  /\ at \in 0..Len(input)
  /\ data \in Seq(Bytes) /\ Len(data) < BufferSize + Len(old)
  /\ pc = "read" => Len(data) < Len(old)
  /\ err \in Errors \cup {"nothing"}
  /\ out \in Seq(Bytes)
  /\ matches \in Nat

Init ==
  /\ job \in {"search", "replace"} /\ input \in Inputs /\ old \in Needles /\ new \in News
  /\ pc = (IF job = "search" THEN "table" ELSE "read")
  /\ prefix = <<0>> /\ matched = 0 /\ at = 0 /\ data = <<>> /\ err = "nil"
  /\ out = <<>> /\ matches = 0

--------------------------------------------------------------------------------
(* Occurrences, and the whole file at once.                                    *)

\* The pattern p occurs in s behind the first i bytes.
Occurs(p, s, i) == i + Len(p) <= Len(s) /\ \A k \in 1..Len(p) : s[i + k] = p[k]

\* The first k bytes of the pattern p are the last of the first n bytes of s.
Ends(p, s, n, k) == k <= n /\ \A j \in 1..k : s[n - k + j] = p[j]

Occurrences(s) == {i \in 0..Len(s) : Occurs(old, s, i)}

\* bytes.Index, when there is an occurrence.
Index(s) == CHOOSE i \in Occurrences(s) : \A j \in Occurrences(s) : i <= j

\* What becomes of s behind each of its bytes when every occurrence of p that does not
\* overlap one replaced before it, from the left, is replaced by w.
Result(p, w, s) ==
  LET rest[i \in 0..Len(s)] ==
        IF i = Len(s) THEN [text |-> <<>>, count |-> 0]
        ELSE IF Occurs(p, s, i)
        THEN [text |-> w \o rest[i + Len(p)].text, count |-> rest[i + Len(p)].count + 1]
        ELSE [text |-> <<s[i + 1]>> \o rest[i + 1].text, count |-> rest[i + 1].count]
  IN rest

Replaced(i) == Result(old, new, input)[i]

--------------------------------------------------------------------------------
(* The reader and the writer.                                                  *)

\* A Read returns n bytes and no error, the end of the file, or another error.
Read ==
  /\ pc = "read"
  /\ \E n \in 0..BufferSize, e \in Errors :
       /\ at + n <= Len(input)
       /\ e = "EOF" => at + n = Len(input)
       /\ at' = at + n
       /\ data' = data \o SubSeq(input, at + 1, at + n)
       /\ err' = IF e = "nil" /\ n = 0 THEN "nothing" ELSE e
  /\ pc' = job
  /\ UNCHANGED <<task, prefix, matched, out, matches>>

Write(bytes) == out' = out \o bytes

--------------------------------------------------------------------------------
(* Contains.                                                                   *)

\* The byte that is compared: of the needle, for the table, or of the chunk.
Looking == \/ pc = "table" /\ Len(prefix) < Len(old)
           \/ pc = "search" /\ data # <<>>
Byte    == IF pc = "table" THEN old[Len(prefix) + 1] ELSE Head(data)

\* Mutant: a mismatch starts again at the beginning of the needle.
Beginning(m) == 0

\* The next shorter beginning that may still go on.
Shorter(m) == prefix[m]

Mismatch == matched > 0 /\ Byte # old[matched + 1]

\* The loops over mismatches.
Fall ==
  /\ Looking /\ Mismatch
  /\ matched' = Shorter(matched)
  /\ UNCHANGED <<task, pc, prefix, at, data, err, out, matches>>

Longer == IF Byte = old[matched + 1] THEN matched + 1 ELSE matched

\* The table gets its next entry.
Extend ==
  /\ pc = "table" /\ Looking /\ ~Mismatch
  /\ matched' = Longer
  /\ prefix' = Append(prefix, Longer)
  /\ UNCHANGED <<task, pc, at, data, err, out, matches>>

TableDone ==
  /\ pc = "table" /\ ~Looking
  /\ pc' = "read" /\ matched' = 0
  /\ UNCHANGED <<task, prefix, at, data, err, out, matches>>

\* One byte of the chunk; a match ends the search.
Advance ==
  /\ pc = "search" /\ Looking /\ ~Mismatch
  /\ matched' = Longer
  /\ data' = Tail(data)
  /\ pc' = IF Longer = Len(old) THEN "found" ELSE pc
  /\ UNCHANGED <<task, prefix, at, err, out, matches>>

ChunkSearched ==
  /\ pc = "search" /\ ~Looking
  /\ pc' = CASE err = "nil" -> "read" [] err = "EOF" -> "absent" [] OTHER -> "failed"
  /\ UNCHANGED <<task, prefix, matched, at, data, err, out, matches>>

--------------------------------------------------------------------------------
(* ReplaceAll.                                                                 *)

Matching == pc = "replace" /\ Occurrences(data) # {}
Scanned  == pc = "replace" /\ Occurrences(data) = {}

\* Mutant: the text behind a match begins at its second byte.
BehindFirst(i) == i + 1

\* The bytes of data before the text behind a match.
Behind(i) == i + Len(old)

\* What a turn of the inner loop writes.
Part == SubSeq(data, 1, Index(data)) \o new

\* The inner loop.
ReplaceMatch ==
  /\ Matching
  /\ Write(Part)
  /\ matches' = matches + 1
  /\ data' = SubSeq(data, Behind(Index(data)) + 1, Len(data))
  /\ UNCHANGED <<task, pc, prefix, matched, at, err>>

\* Mutants: a byte too few, a byte too many.
KeepShort == IF Len(old) <= 2 THEN 0
             ELSE IF Len(old) - 2 > Len(data) THEN Len(data) ELSE Len(old) - 2
KeepLong  == IF Len(old) > Len(data) THEN Len(data) ELSE Len(old)

\* The bytes that may be the beginning of a match in the next chunk.
Keep == IF Len(old) - 1 > Len(data) THEN Len(data) ELSE Len(old) - 1

\* What is written when no match is left.
Flush == CASE err = "EOF" -> Len(data) [] err = "other" -> 0 [] OTHER -> Len(data) - Keep

RoundDone ==
  /\ Scanned
  /\ Write(SubSeq(data, 1, Flush))
  /\ data' = SubSeq(data, Flush + 1, Len(data))
  /\ pc' = CASE err = "nil" -> "read" [] err = "EOF" -> "replaced" [] OTHER -> "failed"
  /\ UNCHANGED <<task, prefix, matched, at, err, matches>>

\* A Write fails, or makes no progress, after some of its bytes.
WriteFails ==
  /\ \/ Matching /\ Part # <<>> /\ \E k \in 0..Len(Part) : Write(SubSeq(Part, 1, k))
     \/ Scanned /\ Flush > 0 /\ \E k \in 0..Flush : Write(SubSeq(data, 1, k))
  /\ pc' = "failed"
  /\ UNCHANGED <<task, prefix, matched, at, data, err, matches>>

Next == \/ Read
        \/ Fall \/ Extend \/ TableDone \/ Advance \/ ChunkSearched
        \/ ReplaceMatch \/ RoundDone \/ WriteFails

Spec == Init /\ [][Next]_vars

--------------------------------------------------------------------------------
(* Properties                                                                  *)

\* However a file is cut into chunks, the answers are those of the whole file:
\* contains is true just when the pattern occurs, and the file written by ReplaceAll
\* is the input with every occurrence replaced, counted as often as it was replaced,
\* so that the plan, the engine and the verification agree on the count.
SameAsWhole ==
  /\ pc = "found"    => Occurrences(input) # {}
  /\ pc = "absent"   => Occurrences(input) = {}
  /\ pc = "replaced" => out = Replaced(0).text /\ matches = Replaced(0).count

\* Between two writes nothing is lost or done twice: what was written, followed by what
\* becomes of the bytes that were kept and of those still to come, is the result.
NothingAtTheSeam ==
  job = "replace" /\ pc \in {"read", "replace"} =>
    LET done == at - Len(data) IN
    /\ data = SubSeq(input, done + 1, at)
    /\ out \o Replaced(done).text = Replaced(0).text
    /\ matches + Replaced(done).count = Replaced(0).count

\* k is the length of the longest beginning of the pattern, below the bound, that ends
\* the first n bytes of s.
Longest(s, n, k, bound) ==
  k < bound /\ Ends(old, s, n, k) /\ \A m \in (k + 1)..(bound - 1) : ~Ends(old, s, n, m)

\* The table knows the longest beginning of each beginning that also ends it, and
\* between two rounds Contains remembers the longest beginning of the needle that ends
\* what it has read; no occurrence has gone by.
LongestBeginning ==
  /\ \A m \in 1..Len(prefix) : Longest(old, m, prefix[m], m)
  /\ job = "search" /\ pc = "read" =>
       /\ Longest(input, at, matched, Len(old) + 1)
       /\ \A i \in Occurrences(input) : i + Len(old) > at

\* Also when a read or a write fails, what ReplaceAll has written so far is the
\* beginning of the result.
OnlyResultIsWritten ==
  job = "replace" => LET text == Replaced(0).text
                     IN  Len(out) <= Len(text) /\ out = SubSeq(text, 1, Len(out))

================================================================================
