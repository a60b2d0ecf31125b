---------------------------- MODULE SimpleSignal -----------------------------
(***************************************************************************)
(* Simple::Signal (src/clib/simple_signal.hpp) used from one thread: calls *)
(* are made between emissions or by a callback the emission is running.    *)
(*                                                                         *)
(* The class keeps everything in one array of UpperLimit+1 words.  A word  *)
(* holds the pointer of a connected callback, or links a free slot to the  *)
(* next free one, or is null in the last free slot.  One slot is always    *)
(* free, which is why UpperLimit+1 words hold UpperLimit callbacks.        *)
(***************************************************************************)
EXTENDS Naturals, FiniteSets

CONSTANTS UpperLimit,  \* upper_limit of the constructor
          Callbacks,   \* the std::function objects a client may connect
          Null         \* nullptr

ASSUME UpperLimitAssumption == UpperLimit \in Nat

Slots == 0..UpperLimit

\* A pointer into the array is never a heap pointer and neither is null.
ASSUME PointersDistinct ==
    /\ Callbacks \cap Slots = {}
    /\ Null \notin Slots
    /\ Null \notin Callbacks

VARIABLES
    word,     \* word[s]: contents of the s-th word of the array
    freeBeg,  \* free_beg_, the head of the free list
    size,     \* size_
    pc,       \* "idle", or where emit is: "scan" (loop test) or "call"
    pos,      \* cb_ptr of emit
    left,     \* left of emit
    result,   \* outcome of the latest connect or disconnect
    owed,     \* history: slots connected ever since emit began, not yet invoked
    joined    \* history: connect was called since emit began

table_vars == <<word, freeBeg, size, result>>
emit_vars  == <<pc, pos, left>>
vars       == <<table_vars, emit_vars, owed, joined>>

-----------------------------------------------------------------------------

\* A word that is neither null nor a pointer into the array is a callback.
IsCallback(w)   == w # Null /\ w \notin Slots
ConnectedSlots  == {s \in Slots : IsCallback(word[s])}

\* Calls come from the owner of the signal, or from a callback it invokes.
MayCall == pc \in {"idle", "call"}

Init ==
    /\ word = [s \in Slots |-> IF s < UpperLimit THEN s + 1 ELSE Null]
    /\ freeBeg = 0
    /\ size = 0
    /\ pc = "idle"
    /\ pos = 0
    /\ left = 0
    /\ result = "none"
    /\ owed = {}
    /\ joined = FALSE

\* Slip: connect without its test for the end of the free list.
ConnectUnchecked(c) ==
    /\ MayCall
    /\ freeBeg' = word[freeBeg]
    /\ word' = [word EXCEPT ![freeBeg] = c]
    /\ size' = size + 1
    /\ joined' = (pc # "idle")
    /\ result' = "connected"
    /\ UNCHANGED <<emit_vars, owed>>

\* connect: pops the head of the free list.
Connect(c) ==
    /\ MayCall
    /\ word[freeBeg] # Null
    /\ freeBeg' = word[freeBeg]
    /\ word' = [word EXCEPT ![freeBeg] = c]
    /\ size' = size + 1
    /\ joined' = (pc # "idle")
    /\ result' = "connected"
    /\ UNCHANGED <<emit_vars, owed>>

\* connect throws: only the terminating slot of the free list is left.
ConnectThrows ==
    /\ MayCall
    /\ word[freeBeg] = Null
    /\ result' = "full"
    /\ UNCHANGED <<word, freeBeg, size, emit_vars, owed, joined>>

\* Slip: the freed slot becomes the head and the old head drops out.
DisconnectDropsHead(s) ==
    /\ MayCall
    /\ IsCallback(word[s])
    /\ word' = [word EXCEPT ![s] = word[freeBeg]]
    /\ freeBeg' = s
    /\ size' = size - 1
    /\ owed' = owed \ {s}
    /\ result' = "disconnected"
    /\ UNCHANGED <<emit_vars, joined>>

\* Slip: disconnect without its test that the slot holds a callback.
DisconnectUnchecked(s) ==
    /\ MayCall
    /\ word' = [word EXCEPT ![s] = word[freeBeg], ![freeBeg] = s]
    /\ size' = size - 1
    /\ owed' = owed \ {s}
    /\ result' = "disconnected"
    /\ UNCHANGED <<freeBeg, emit_vars, joined>>

\* Slip: disconnect that forgets to count down.
DisconnectUncounted(s) ==
    /\ MayCall
    /\ IsCallback(word[s])
    /\ word' = [word EXCEPT ![s] = word[freeBeg], ![freeBeg] = s]
    /\ owed' = owed \ {s}
    /\ result' = "disconnected"
    /\ UNCHANGED <<freeBeg, size, emit_vars, joined>>

\* disconnect: the freed slot becomes the second of the free list.
Disconnect(s) ==
    /\ MayCall
    /\ IsCallback(word[s])
    /\ word' = [word EXCEPT ![s] = word[freeBeg], ![freeBeg] = s]
    /\ size' = size - 1
    /\ owed' = owed \ {s}
    /\ result' = "disconnected"
    /\ UNCHANGED <<freeBeg, emit_vars, joined>>

\* disconnect throws: the slot has been freed already.
DisconnectThrows(s) ==
    /\ MayCall
    /\ ~IsCallback(word[s])
    /\ result' = "no such slot"
    /\ UNCHANGED <<word, freeBeg, size, emit_vars, owed, joined>>

\* emit takes its count of callbacks once, before the first of them runs.
EmitBegin ==
    /\ pc = "idle"
    /\ pc' = "scan"
    /\ pos' = 0
    /\ left' = size
    /\ owed' = ConnectedSlots
    /\ joined' = FALSE
    /\ UNCHANGED table_vars

Scanning == pc = "scan" /\ left > 0 /\ pos \in Slots

\* Slip: a word without a callback counts as one invoked.
EmitSkipCounts ==
    /\ Scanning
    /\ ~IsCallback(word[pos])
    /\ pos' = pos + 1
    /\ left' = left - 1
    /\ UNCHANGED <<table_vars, pc, owed, joined>>

\* Slip: the pointer moves on only after a call.
EmitSkipStays ==
    /\ Scanning
    /\ ~IsCallback(word[pos])
    /\ UNCHANGED vars

EmitSkip ==
    /\ Scanning
    /\ ~IsCallback(word[pos])
    /\ pos' = pos + 1
    /\ UNCHANGED <<table_vars, pc, left, owed, joined>>

EmitCall ==
    /\ Scanning
    /\ IsCallback(word[pos])
    /\ pc' = "call"
    /\ owed' = owed \ {pos}
    /\ UNCHANGED <<table_vars, pos, left, joined>>

EmitReturn ==
    /\ pc = "call"
    /\ pc' = "scan"
    /\ left' = left - 1
    /\ pos' = pos + 1
    /\ UNCHANGED <<table_vars, owed, joined>>

EmitEnd ==
    /\ pc = "scan"
    /\ ~Scanning
    /\ pc' = "idle"
    /\ pos' = 0
    /\ left' = 0
    /\ owed' = {}
    /\ joined' = FALSE
    /\ UNCHANGED table_vars

EmitStep == EmitSkip \/ EmitCall \/ EmitReturn \/ EmitEnd

Next == \/ \E c \in Callbacks : Connect(c)
        \/ ConnectThrows
        \/ \E s \in Slots : Disconnect(s) \/ DisconnectThrows(s)
        \/ EmitBegin
        \/ EmitStep

Spec == Init /\ [][Next]_vars

\* The thread inside emit keeps running, and callbacks return.
FairSpec == Spec /\ WF_vars(EmitStep)

-----------------------------------------------------------------------------

TypeOK ==
    /\ word \in [Slots -> Slots \cup Callbacks \cup {Null}]
    /\ freeBeg \in Slots
    /\ size \in 0..UpperLimit
    /\ pc \in {"idle", "scan", "call"}
    /\ pos \in 0..UpperLimit+1
    /\ left \in 0..UpperLimit
    /\ result \in {"none", "connected", "full", "disconnected", "no such slot"}
    /\ owed \subseteq Slots
    /\ joined \in BOOLEAN

\* Starting at f, the words of array w link the slots chain[1], ..., chain[n],
\* and these are all the slots of w without a callback.
IsFreeList(w, f, n, chain) ==
    /\ chain[1] = f
    /\ \A i \in 1..(n-1) : w[chain[i]] = chain[i+1]
    /\ w[chain[n]] = Null
    /\ \A i, j \in 1..n : chain[i] = chain[j] => i = j
    /\ \A s \in Slots : ~IsCallback(w[s]) <=> \E i \in 1..n : chain[i] = s

\* Array w has a free list from f on, long enough for z callbacks.
Whole(w, f, z) ==
    \E n \in 1..(UpperLimit+1) : \E chain \in [1..n -> Slots] :
        /\ z + n = UpperLimit + 1
        /\ IsFreeList(w, f, n, chain)

\* The list threaded through the array from free_beg_ reaches every slot that
\* holds no callback, each once, and no other slot; the terminating slot is
\* the one spare word.  Connect and disconnect in any order keep it: no slot
\* is lost, and none is both free and in use.
FreeListInv == Whole(word, freeBeg, size)

\* size_, which emit and the destructor trust as a count, is the number of
\* callbacks in the array.
SizeCounts == size = Cardinality(ConnectedSlots)

\* Seen through its calls the array is a bounded table of callbacks: connect
\* fails only at the limit and takes an unused slot, disconnect frees the
\* slot of its handle alone.
Table == INSTANCE SlotTable WITH
    Capacity <- UpperLimit,
    Empty    <- Null,
    table    <- [s \in Slots |-> IF IsCallback(word[s]) THEN word[s] ELSE Null]

ImplementsTable == Table!Spec

\* During an emission nobody connected to, the count emit took suffices:
\* exactly the connected slots ahead are owed an invocation, and emit is
\* prepared to make at least that many, the call it is in included.
Ahead == {s \in ConnectedSlots : IF pc = "scan" THEN s >= pos ELSE s > pos}

EmissionInv ==
    /\ pc = "call" => left > 0 /\ pos \in Slots
    /\ (pc # "idle" /\ ~joined) =>
           /\ owed = Ahead
           /\ Cardinality(owed) + (IF pc = "call" THEN 1 ELSE 0) <= left

\* Whatever callbacks and their thread connect and disconnect: the words have
\* their types, the free list is whole, size_ counts the callbacks, and the
\* count emit took is enough.
ArrayInv == TypeOK /\ FreeListInv /\ SizeCounts /\ EmissionInv

\* An emission that no connect joins invokes every callback that stays
\* connected from its beginning to its end, whatever the callbacks
\* disconnect meanwhile, themselves included (emit's scan against a changing
\* free list).
EmitInvokesUnlessJoined ==
    [][(pc # "idle" /\ pc' = "idle" /\ ~joined) => owed = {}]_vars

\* emit returns, although the callbacks it runs may connect others for ever:
\* the count taken at its beginning and the end of the array bound the scan.
EmissionEnds == (pc # "idle") ~> (pc = "idle")
==============================================================================
