--------------------------------- MODULE Gate ---------------------------------
(* What ScopeRunner promises: threads go in and out until the gate is       *)
(* closed, which waits until all are out; then nobody goes in any more.     *)

CONSTANT Threads

VARIABLES inside, closed

vars == <<inside, closed>>

Init == inside = {} /\ closed = FALSE

Enter(t) == ~closed /\ t \notin inside /\ inside' = inside \cup {t} /\ UNCHANGED closed

Leave(t) == t \in inside /\ inside' = inside \ {t} /\ UNCHANGED closed

Shut == ~closed /\ inside = {} /\ closed' = TRUE /\ UNCHANGED inside

Next == Shut \/ \E t \in Threads : Enter(t) \/ Leave(t)

Spec == Init /\ [][Next]_vars
=============================================================================
