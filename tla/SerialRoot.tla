------------------------------- MODULE SerialRoot ------------------------------
(***************************************************************************)
(* What the lock of a capability root promises: of all transactions ever   *)
(* begun on the root, at most one has a record that is not yet settled.    *)
(***************************************************************************)
CONSTANT Ids

VARIABLE active

Init == active = {}

Enter == active = {} /\ \E i \in Ids : active' = {i}

Leave == active # {} /\ active' = {}

Next == Enter \/ Leave

Spec == Init /\ [][Next]_active

================================================================================
