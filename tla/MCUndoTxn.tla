------------------------------- MODULE MCUndoTxn -------------------------------
(* Small scripts for TLC: two files and a directory that may hold a third.    *)
EXTENDS UndoTxn

CONSTANTS A, B, C, T, a, b, d, f

MCPaths    == {a, b, d, f}
MCParent   == [p \in MCPaths |-> IF p = f THEN d ELSE p]
MCRootOf   == [p \in MCPaths |-> IF p = b THEN "extra" ELSE "primary"]
MCOneRoot  == [p \in MCPaths |-> "primary"]
MCContents == {A, B, C, T}
MCTrees    == {T}
\* A holds the pattern; C holds one that is replaced by itself.
MCReplaced == [c \in MCContents |-> IF c = A THEN B ELSE IF c = C THEN C ELSE Absent]

Anywhere == Locations

OnPaths(kind, target, source, content, overwrite) ==
  [kind |-> kind, target |-> target, source |-> source, content |-> content,
   overwrite |-> overwrite]

Mkdirs   == {OnPaths("mkdir", p, p, A, FALSE) : p \in {d, f}}
Writes   == {OnPaths("write", p, p, B, FALSE) : p \in {a, f}}
Replaces == {OnPaths("replace", a, a, A, FALSE)}
Deletes  == {OnPaths("delete", p, p, A, FALSE) : p \in {a, b}}
Copies   == {OnPaths("copy", p, a, A, o) : p \in {b, f}, o \in BOOLEAN}
Moves    == {OnPaths("move", p, q, A, o) : p \in {b, f}, q \in {a, b}, o \in BOOLEAN}

AllOps == Mkdirs \cup Writes \cup Replaces \cup Deletes \cup Copies \cup Moves

InitialFiles ==
  {g \in [MCPaths -> {Absent, A, B, C, T, Dir}] :
     /\ g[a] \in {Absent, A, C, T} /\ g[b] \in {Absent, B, T}
     /\ g[d] \in {Absent, Dir} /\ g[f] = Absent}

\* The scripts whose plan is accepted: each operation can be prepared where the ones
\* before it lead, and no path is the target of two mutations.
Mutates(op) == IF op.kind = "move" THEN {op.target, op.source} ELSE {op.target}

Plannable(g, first, second) ==
  /\ CanPrepare(g, first) /\ CanPrepare(Effect(g, first), second)
  /\ second.target \notin Mutates(first)

\* A move whose source an earlier operation made (see ProducedCase).
Independent(first, second) ==
  second.kind = "move" => second.source \notin Mutates(first)

Singles ==
  {c \in {[script |-> <<op>>, fs |-> g] : op \in AllOps, g \in InitialFiles} :
     CanPrepare(c.fs, c.script[1])}

\* C and a tree to overwrite are left to the single operations.
PairFiles == {g \in InitialFiles : g[a] \in {A, T} /\ g[b] \in {Absent, B}}

Pairs ==
  {c \in {[script |-> <<op1, op2>>, fs |-> g] :
            op1 \in AllOps, op2 \in AllOps, g \in PairFiles} :
     Plannable(c.fs, c.script[1], c.script[2])}

IndependentPairs == {c \in Pairs : Independent(c.script[1], c.script[2])}

NoOperation == {[script |-> <<>>, fs |-> g] : g \in PairFiles}

AllCases  == NoOperation \cup Singles \cup Pairs
LiveCases == {c \in Singles \cup IndependentPairs :
                c.fs[a] = A /\ c.fs[b] # Absent /\ c.fs[d] = Dir}

\* Between two calls that change files, as at the checkpoints of the runtime.
Quiescent == Locations \ {"applying", "undoing"}

\* Where a failure leaves files and journal whole: not in the middle of an operation,
\* and no append of a recovery, whose failure may spoil the journal (see JournalStaysReadable).
Harmless == Quiescent \ {"transition", "log undo", "log undone", "log complete"}

\* One overwriting write; a move of a file written before; a move across devices.
OverwriteCase == {c \in Singles : c.script[1].kind = "write" /\ c.fs[a] = A}
ProducedCase  == {c \in Pairs : /\ c.script[1].kind = "write" /\ c.script[1].target = a
                                /\ c.script[2].kind = "move" /\ c.script[2].target = f
                                /\ c.script[2].source = a /\ c.fs[a] = A}
CrossCase     == {c \in Singles : /\ c.script[1].kind = "move" /\ c.script[1].target = b
                                  /\ c.script[1].source = a /\ c.fs[a] = A}

================================================================================
