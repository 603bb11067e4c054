----------------------------- MODULE MCUndoStream ------------------------------
EXTENDS UndoStream, SequencesExt

MCBytes == {"a", "b"}

\* Every file of up to six bytes, every pattern of up to three; a replacement that is
\* empty, shorter, or longer and again contains patterns.
MCInputs  == BoundedSeq(MCBytes, 6)
MCNeedles == BoundedSeq(MCBytes, 3) \ {<<>>}
MCNews    == {<<>>, <<"a">>, <<"b", "a", "b", "a">>}
================================================================================
