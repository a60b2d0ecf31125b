------------------------------ MODULE SlotTable ------------------------------
(***************************************************************************)
(* What Simple::Signal promises its users: a table of at most Capacity     *)
(* callbacks.  Connecting puts the callback in a slot that was empty and   *)
(* is refused exactly when the table is full; disconnecting empties the    *)
(* slot named and no other, and is refused when nothing is connected       *)
(* there.  How free slots are found is left to the implementation.         *)
(***************************************************************************)
EXTENDS Naturals, FiniteSets

CONSTANTS Slots,      \* slot handles the table can hand out
          Capacity,   \* callbacks that fit at once
          Callbacks,  \* what can be connected
          Empty       \* contents of a slot without a callback

VARIABLES table,      \* table[s]: the callback connected at s, or Empty
          result      \* outcome of the latest operation

vars == <<table, result>>

Used == {s \in Slots : table[s] # Empty}

Init == /\ table = [s \in Slots |-> Empty]
        /\ result = "none"

Connect(c) ==
    /\ Cardinality(Used) < Capacity
    /\ \E s \in Slots \ Used : table' = [table EXCEPT ![s] = c]
    /\ result' = "connected"

Refuse ==
    /\ Cardinality(Used) = Capacity
    /\ result' = "full"
    /\ UNCHANGED table

Disconnect(s) ==
    /\ s \in Used
    /\ table' = [table EXCEPT ![s] = Empty]
    /\ result' = "disconnected"

NoSuchSlot(s) ==
    /\ s \notin Used
    /\ result' = "no such slot"
    /\ UNCHANGED table

Next == \/ \E c \in Callbacks : Connect(c)
        \/ Refuse
        \/ \E s \in Slots : Disconnect(s) \/ NoSuchSlot(s)

Spec == Init /\ [][Next]_vars
==============================================================================
