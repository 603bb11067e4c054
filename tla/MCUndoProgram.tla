----------------------------- MODULE MCUndoProgram -----------------------------
\* Programs of up to three transactions and up to three commands: a run that fails or
\* is killed, a recovery that is killed, and a command that meets what they left.
EXTENDS UndoProgram
================================================================================
