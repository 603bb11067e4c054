------------------------------ MODULE MCUndoPlan -------------------------------
EXTENDS UndoPlan

P == {<<>>, <<"d">>, <<"d", "x">>, <<"d", "x", "y">>, <<"e">>, <<"e", "x">>, <<"e", "x", "y">>,
      <<"n">>, <<"n", "x">>, <<"n", "x", "y">>}
N == {<<"d">>, <<"d", "x">>, <<"e">>, <<"e", "x">>, <<"n">>, <<"n", "x">>}

\* A directory d with what is in it, e of every kind, and n absent.
Tree(k, x, y) ==
  [p \in P |-> CASE p = <<>>          -> "dir"
                 [] p = <<"d">>       -> "dir"
                 [] p = <<"d", "x">>  -> x
                 [] p = <<"d", "x", "y">> -> IF x = "dir" THEN y ELSE "none"
                 [] p = <<"e">>       -> k
                 [] OTHER             -> "none"]

D == {Tree(k, x, y) : k \in {"none", "file", "dir", "link"}, x \in {"none", "file", "dir", "link"},
                      y \in {"none", "file"}}
================================================================================
