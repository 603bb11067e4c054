------------------------------ MODULE AtomicUpdate ------------------------------
(***************************************************************************)
(* What a transaction is for its user: files that may be in any state      *)
(* while it is open, and that are exactly the old ones or exactly the new  *)
(* ones from the moment it is decided.                                     *)
(***************************************************************************)
CONSTANTS FileStates

VARIABLES files, decision, before, after

vars == <<files, decision, before, after>>

Init ==
  /\ files \in FileStates /\ after \in FileStates
  /\ before = files
  /\ decision = "open"

Work ==
  /\ decision = "open"
  /\ files' \in FileStates
  /\ UNCHANGED <<decision, before, after>>

Commit ==
  /\ decision = "open" /\ files = after
  /\ decision' = "committed"
  /\ UNCHANGED <<files, before, after>>

RollBack ==
  /\ decision = "open" /\ files = before
  /\ decision' = "rolled back"
  /\ UNCHANGED <<files, before, after>>

Next == Work \/ Commit \/ RollBack

Spec == Init /\ [][Next]_vars

================================================================================
