----------------------------- MODULE ScopeRunner -----------------------------
(***************************************************************************)
(* ScopeRunner (src/http/utility.hpp): the counter by which the handlers   *)
(* of asio and the destructor of their client or server keep clear of each *)
(* other.  Every load, exchange and subtraction of the counter is a step;  *)
(* the exchanges are weak and may fail for no reason.                      *)
(***************************************************************************)
EXTENDS Integers, FiniteSets

CONSTANTS
    Threads,     \* threads that run handlers or destroy clients
    MaxEntries   \* bound: handlers run in all

ASSUME MaxEntriesAssumption == MaxEntries \in Nat

VARIABLES
    count,     \* ScopeRunner::count
    pc,        \* where each thread is
    expected,  \* its local of that name
    entries    \* calls of continue_lock so far

vars == <<count, pc, expected, entries>>

Places == {"out", "enter", "inside", "stop", "stopped"}

Init ==
    /\ count = 0
    /\ pc = [t \in Threads |-> "out"]
    /\ expected = [t \in Threads |-> 0]
    /\ entries = 0

-----------------------------------------------------------------------------
(* continue_lock and the release of its lock.                              *)

LoadCount(t) ==
    /\ pc[t] = "out" /\ entries < MaxEntries
    /\ pc' = [pc EXCEPT ![t] = "enter"]
    /\ expected' = [expected EXCEPT ![t] = count]
    /\ entries' = entries + 1
    /\ UNCHANGED count

\* slip: the count is stored without comparing it first.
EnterUncompared(t) ==
    /\ pc[t] = "enter" /\ expected[t] >= 0
    /\ count' = expected[t] + 1
    /\ pc' = [pc EXCEPT ![t] = "inside"]
    /\ UNCHANGED <<expected, entries>>

\* slip: the sign is not looked at.
EnterUnsigned(t) ==
    /\ pc[t] = "enter"
    /\ count = expected[t]
    /\ count' = count + 1
    /\ pc' = [pc EXCEPT ![t] = "inside"]
    /\ UNCHANGED <<expected, entries>>

Enter(t) ==
    /\ pc[t] = "enter" /\ expected[t] >= 0
    /\ count = expected[t]
    /\ count' = count + 1
    /\ pc' = [pc EXCEPT ![t] = "inside"]
    /\ UNCHANGED <<expected, entries>>

\* The exchange fails, with or without reason, and reads the count again.
EnterFails(t) ==
    /\ pc[t] = "enter" /\ expected[t] >= 0
    /\ expected' = [expected EXCEPT ![t] = count]
    /\ UNCHANGED <<count, pc, entries>>

Refused(t) ==
    /\ pc[t] = "enter" /\ expected[t] < 0
    /\ pc' = [pc EXCEPT ![t] = "out"]
    /\ UNCHANGED <<count, expected, entries>>

\* The lock's destructor.
Leave(t) ==
    /\ pc[t] = "inside"
    /\ count' = count - 1
    /\ pc' = [pc EXCEPT ![t] = "out"]
    /\ UNCHANGED <<expected, entries>>

-----------------------------------------------------------------------------
(* stop.                                                                   *)

StopBegin(t) ==
    /\ pc[t] = "out"
    /\ pc' = [pc EXCEPT ![t] = "stop"]
    /\ expected' = [expected EXCEPT ![t] = 0]
    /\ UNCHANGED <<count, entries>>

\* slip: expected keeps what the failed exchange read.
StopFailsKeeps(t) ==
    /\ pc[t] = "stop" /\ count >= 0
    /\ expected' = [expected EXCEPT ![t] = count]
    /\ UNCHANGED <<count, pc, entries>>

\* The exchange fails; expected is set to 0 again.
StopFails(t) ==
    /\ pc[t] = "stop" /\ count >= 0
    /\ expected' = [expected EXCEPT ![t] = 0]
    /\ UNCHANGED <<count, pc, entries>>

Stop(t) ==
    /\ pc[t] = "stop"
    /\ count = expected[t]
    /\ count' = -1
    /\ pc' = [pc EXCEPT ![t] = "stopped"]
    /\ UNCHANGED <<expected, entries>>

\* slip: that another has stopped it goes unnoticed.
StopAgainSpins(t) ==
    /\ pc[t] = "stop" /\ count < 0
    /\ expected' = [expected EXCEPT ![t] = 0]
    /\ UNCHANGED <<count, pc, entries>>

\* Another has stopped it.
StopAgain(t) ==
    /\ pc[t] = "stop" /\ count < 0
    /\ pc' = [pc EXCEPT ![t] = "stopped"]
    /\ expected' = [expected EXCEPT ![t] = count]
    /\ UNCHANGED <<count, entries>>

-----------------------------------------------------------------------------

Next ==
    \E t \in Threads :
        \/ LoadCount(t) \/ Enter(t) \/ EnterFails(t) \/ Refused(t) \/ Leave(t)
        \/ StopBegin(t) \/ StopFails(t) \/ Stop(t) \/ StopAgain(t)

Spec == Init /\ [][Next]_vars

\* Handlers return, and the exchange does not fail for ever without a reason.
FairSpec ==
    /\ Spec
    /\ \A t \in Threads : WF_vars(Leave(t)) /\ WF_vars(Stop(t)) /\ WF_vars(StopAgain(t))

-----------------------------------------------------------------------------
(* Properties.                                                             *)

Inside == {t \in Threads : pc[t] = "inside"}

\* The state has its types.
TypeOK ==
    /\ count \in Int /\ count >= -1
    /\ pc \in [Threads -> Places]
    /\ expected \in [Threads -> Int]
    /\ entries \in Nat

\* count is the number of locks held, or -1, when none is: no interleaving of
\* loads, failed exchanges and releases loses one.
Counted == count = IF count < 0 THEN -1 ELSE Cardinality(Inside)

\* After stop has returned in any thread no handler is running that could use
\* the client or server about to be destroyed, and none gets in later.
StoppedMeansEmpty == (\E t \in Threads : pc[t] = "stopped") => Inside = {} /\ count = -1

\* The counter tells who is inside, and with stop that nobody is.
CounterInv == TypeOK /\ Counted /\ StoppedMeansEmpty

\* The counter implements the gate.
Outer == INSTANCE Gate WITH inside <- Inside, closed <- count = -1
ImplementsGate == Outer!Spec

\* As the handlers there are come to an end, stop returns; meanwhile they may
\* still go in before it.
StopEnds == \A t \in Threads : pc[t] = "stop" ~> pc[t] = "stopped"
=============================================================================
