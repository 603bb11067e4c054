------------------------------ MODULE MCUndoStore ------------------------------
(* Two processes on one root for TLC.                                         *)
EXTENDS UndoStore, TLC

CONSTANTS P, Q

MCProcs  == {P, Q}
Symmetry == Permutations(MCProcs)

Anywhere == Locations

\* Where a kill leaves a root that recover accepts: not before TX_BEGIN is written.
Begun == Locations \ Beginning

\* Everywhere but in the cleanup of Begin, whose errors are ignored.
NotInCleanup == Locations \ {"drop dir", "drop lock"}
NotInDropDir == Locations \ {"drop dir"}

\* Where an error of a recovery does not lead fail to write behind the lock ...
NotInSync == Locations \ {"sync"}

\* ... nor behind the remains of another append.
NotInJournal == Locations \ {"undo", "mark", "close", "sync"}

================================================================================
