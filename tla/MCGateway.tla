------------------------------ MODULE MCGateway ------------------------------
(* Model values and workloads for checking Gateway with TLC.               *)
EXTENDS Gateway, TLC

CONSTANTS h1, h2, h3, p1, p2

TwoHandles   == {h1, h2}
ThreeHandles == {h1, h2, h3}

TwoParams    == {p1, p2}

Add(p, n, d)   == [op |-> "add", param |-> p, interval |-> n, dev |-> d]
On(op)         == [op : {op}, handle : Handles]

\* Observables are added and then removed.
AddRemove == {Add(p1, 1, "http")} \cup On("remove")

\* The same with longer intervals, one observable's parameter changing
\* meanwhile, and one that nobody removes.
AddUpdateRemove == {Add(p1, 2, "http")} \cup [op : {"remove"}, handle : {h1, h2}]
                   \cup [op : {"update"}, handle : {h1}, param : {p2}]

\* Every kind of request, some about observables that are not there.
AllKinds == {Add(p1, 2, "http"), [op |-> "list"], [op |-> "once", dev |-> "coap"]}
            \cup [op : {"update"}, handle : Handles, param : {p2}]
            \cup On("remove")

\* The handles are alike: no request names one of them.
HandlesAlike == Permutations(Handles)
==============================================================================
