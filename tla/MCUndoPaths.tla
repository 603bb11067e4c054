----------------------------- MODULE MCUndoPaths -------------------------------
(***************************************************************************)
(* The primary root /r with a directory d, a name l and a name m in d that *)
(* may each be absent, a file, a directory or a link: within the root, out *)
(* of it, to the state directory, to nothing, to itself.  /o is outside or *)
(* an allowed root, /a leads to it.  In Replaced a root has become a link  *)
(* to another, or a file.                                                  *)
(***************************************************************************)
EXTENDS UndoPaths

MCNames == {"r", "d", "l", "m", "n", "o", "a", "x", "y", ".undo"}

Nodes == {Link(FALSE, <<"d">>), Link(TRUE, <<"r", "d">>), Link(FALSE, <<".undo">>),
          Link(TRUE, <<"o">>), Link(FALSE, <<"..", "o">>), Link(FALSE, <<"l">>), Link(FALSE, <<"n">>)}
Inner == {Link(FALSE, <<"..">>), Link(FALSE, <<"..", "l">>), Link(FALSE, <<"..", "..", "r", "d">>)}

Fixed == [p \in {<<>>, <<"r">>, <<"r", "d">>, <<"o">>} |-> Dir]
Alias == [p \in {<<"a">>} |-> Link(TRUE, <<"o">>)]
Leaf  == [p \in {<<"r", "d", "x">>, <<"o", "x">>} |-> File]

\* An entry n at p.
At(p, n) == [q \in {p} |-> n]

Merge(f, g) == [p \in DOMAIN f \cup DOMAIN g |-> IF p \in DOMAIN f THEN f[p] ELSE g[p]]

Replaced ==
  {Merge(At(<<"o">>, n), [p \in {<<>>, <<"r">>, <<"r", "d">>} |-> Dir]) : n \in {Link(TRUE, <<"r">>), File}}
  \cup {Merge(At(<<"r">>, Link(TRUE, <<"o">>)), [p \in {<<>>, <<"o">>, <<"o", "d">>} |-> Dir])}

MCTrees ==
  {Merge(Merge(Merge(Fixed, Alias), Leaf),
         Merge(Merge(At(<<"r", "l">>, l), At(<<"r", "d", "m">>, m)), At(<<"r", ".undo">>, u))) :
     l \in Nodes \cup {Dir, File}, m \in Inner \cup {Dir}, u \in {Dir}}
  \cup {Merge(Merge(Merge(Fixed, Alias), Leaf), At(<<"r", "l">>, l)) : l \in Nodes}
  \cup Replaced

MCRoots == {<< <<"r">> >>, << <<"r">>, <<"o">>, <<"a">> >>, << <<"r">>, <<"a">>, <<"r", "d">>, <<"o">> >>,
            << <<"r">>, <<"r", "l">> >>, << <<"a">>, <<"r">> >>}

Rel == {<<>>, <<"x">>, <<"d">>, <<"d", "x">>, <<"l">>, <<"l", "x">>, <<"l", "m", "x">>, <<"d", "m">>,
        <<"d", "m", "x">>, <<"d", "m", ".undo">>, <<"d", "m", "d", "x">>, <<"l", "..", "x">>, <<"..", "r", "x">>,
        <<".", ".undo", "x">>, <<"n", "x">>, <<"d", "n", "y">>}

MCSpellings == {[abs |-> FALSE, names |-> n] : n \in Rel}
               \cup {[abs |-> TRUE, names |-> <<"r">> \o n] : n \in Rel}
               \cup {[abs |-> TRUE, names |-> n] : n \in {<<"o", "x">>, <<"a", "x">>, <<"a">>, <<"..", "o">>}}
================================================================================
