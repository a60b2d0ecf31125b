--------------------------- MODULE ObservableStore ---------------------------
(***************************************************************************)
(* What the gateway promises about its observables: a map from handles to  *)
(* settings and collected values on which every operation is atomic.       *)
(* Changing an observable's parameter discards what was collected, and a   *)
(* value is collected under the parameter the observable has at that       *)
(* moment.  Threads, locks and callbacks do not show.                      *)
(***************************************************************************)
EXTENDS Naturals, Sequences, FiniteSets

CONSTANTS Handles,      \* handles an observable may be given
          MaxSessions,  \* observables that fit at once
          ValuesCap,    \* values kept per observable, the oldest drop out
          Params        \* param-location values

VARIABLE store          \* store[h]: the observable with handle h

Live == DOMAIN store

\* A value remembers the parameter it was read for; ok is FALSE for the 0
\* recorded when nothing could be read.
Values == [param : Params, ok : BOOLEAN]

Push(values, v) ==
    IF Len(values) < ValuesCap THEN Append(values, v)
                               ELSE Append(Tail(values), v)

Init == store = [h \in {} |-> <<>>]

Add(h, p) ==
    /\ Cardinality(Live) < MaxSessions
    /\ h \in Handles \ Live
    /\ store' = [k \in Live \cup {h} |->
                    IF k = h THEN [param |-> p, values |-> <<>>] ELSE store[k]]

Update(h, p) ==
    /\ h \in Live
    /\ p # store[h].param
    /\ store' = [store EXCEPT ![h] = [param |-> p, values |-> <<>>]]

Remove(h) ==
    /\ h \in Live
    /\ store' = [k \in Live \ {h} |-> store[k]]

Observe(h, ok) ==
    /\ h \in Live
    /\ store' = [store EXCEPT ![h].values =
                    Push(@, [param |-> store[h].param, ok |-> ok])]

Next == \E h \in Handles :
            \/ \E p \in Params : Add(h, p) \/ Update(h, p)
            \/ Remove(h)
            \/ \E ok \in BOOLEAN : Observe(h, ok)

Spec == Init /\ [][Next]_store
==============================================================================
