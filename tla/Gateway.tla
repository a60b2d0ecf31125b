------------------------------- MODULE Gateway -------------------------------
(***************************************************************************)
(* The observation service: the HTTP thread that runs the handlers of      *)
(* start_http_server (src/http-server.cpp) one request at a time, and the  *)
(* timer thread of GlobalTimer that invokes one callback per observable.   *)
(*                                                                         *)
(* They share the sessions (ObservationModule), always under its mutex,    *)
(* and three things that only the HTTP thread guards with it: the array of *)
(* Simple::Signal, its count size_, and the map observable_callbacks.  The *)
(* timer thread disconnects a removed observable's callback without the    *)
(* mutex, so connect and disconnect are modelled load by load and store by *)
(* store.                                                                  *)
(*                                                                         *)
(* Time is counted in seconds.  A request body that fails validation is    *)
(* answered before the mutex is taken and changes nothing; such requests   *)
(* are left out here.                                                      *)
(***************************************************************************)
EXTENDS Integers, Sequences, FiniteSets

CONSTANTS
    Handles,      \* what gen_handle can draw: 0..max_sessions in the code
    MaxSessions,  \* max_sessions, 10000 in the code
    UpperLimit,   \* upper_limit of the signal, 1000 in the code
    ValuesCap,    \* capacity of the circular buffer, 50 in the code
    Params,       \* param-location values
    Devices,      \* subset of {"http", "coap", "silent"}: how devices behave
    Requests,     \* the requests clients send
    FreedReads,   \* subset of {"intact", "garbage"}: what freed memory holds
    Null,         \* nullptr
    None,         \* no request, no handle
    MaxAdds,      \* bound: observables created during a behaviour
    Cap,          \* bound: seconds counted since an observation
    MaxBack,      \* bound: seconds the system clock is set back
    MaxForward    \* bound: seconds the system clock is set forward

Slots == 0..UpperLimit

ASSUME HandlesAssumption ==
    IsFiniteSet(Handles) /\ MaxSessions \in Nat /\ Cardinality(Handles) = MaxSessions + 1

ASSUME NumbersAssumption ==
    /\ UpperLimit \in Nat
    /\ ValuesCap \in Nat \ {0}
    /\ MaxAdds \in Nat
    /\ Cap \in Nat
    /\ MaxBack \in Nat
    /\ MaxForward \in Nat

ASSUME PointersDistinct ==
    /\ Handles \cap Slots = {}
    /\ Null \notin Slots \cup Handles
    /\ None \notin Handles \cup Requests

AddRequests == [op : {"add"}, param : Params, interval : 0..(Cap - MaxBack), dev : Devices]

ASSUME RequestsAssumption ==
    Requests \subseteq AddRequests
                  \cup [op : {"update"}, handle : Handles, param : Params]
                  \cup [op : {"remove", "read"}, handle : Handles]
                  \cup [op : {"list"}]
                  \cup [op : {"once"}, dev : Devices]

VARIABLES
    fate,     \* "running", "terminated" (std::terminate), or "undefined"
    lock,     \* getObservables().lock: "free" or its holder
    sessions, \* function from live handles to observables
    word, freeBeg, size,  \* the timer's signal; a word may hold a closure,
                          \* identified by the handle it captured
    cbmap,    \* observable_callbacks; Null for no entry or a null SlotHandle
    hpc, hreq, hnew, hslot, hnext, hsize,  \* HTTP thread: place, request,
              \* handle created, and the locals of connect
    reply,    \* what became of the latest request
    tpc, pos, left, cur, value, tslot, thead, told, tsize,  \* timer thread:
              \* place, locals of emit, handle and value of the running
              \* closure, locals of disconnect
    since,    \* seconds since the timer's basis
    back,     \* seconds the clock has been set back so far
    forth,    \* seconds the clock has been set forward so far
    adds,     \* observables created so far
    mishaps,  \* history: which of three things nothing guards against happened
    refused,  \* history: handles created whose connect threw
    owed,     \* history: slots connected since emit began, not yet invoked
    joined    \* history: a connect overlapped the running emission

signal_vars == <<word, freeBeg, size>>
conn_vars   == <<hslot, hnext, hsize>>
http_vars   == <<hpc, hreq, hnew, conn_vars, reply>>
disc_vars   == <<tslot, thead, told, tsize>>
emit_vars   == <<pos, left, cur, value>>
timer_vars  == <<tpc, emit_vars, disc_vars>>
clock_vars  == <<since, back, forth>>
load_vars   == <<adds, mishaps, refused>>
hist_vars   == <<owed, joined>>
vars == <<fate, lock, sessions, signal_vars, cbmap, http_vars, timer_vars,
          clock_vars, load_vars, hist_vars>>

-----------------------------------------------------------------------------

Live == DOMAIN sessions
Connected == {s \in Slots : word[s] \in Handles}
Running == fate = "running"

\* The places where the HTTP thread is inside connect, and the timer thread
\* inside disconnect.
Connecting    == hpc \in {"connect", "advance", "store", "count"}
Disconnecting == tpc \in {"disconnect", "relink", "link", "uncount"}

\* The stretch from the lookup of a slot handle to its erasure, which the timer
\* thread goes through without the mutex.
Unregistering == Disconnecting \/ tpc \in {"lookup", "erase"}

AtMost(bound, n) == IF n <= bound THEN n ELSE bound

Push(values, v) ==
    IF Len(values) < ValuesCap THEN Append(values, v)
                               ELSE Append(Tail(values), v)

Init ==
    /\ fate = "running"
    /\ lock = "free"
    /\ sessions = [h \in {} |-> <<>>]
    /\ word = [s \in Slots |-> IF s < UpperLimit THEN s + 1 ELSE Null]
    /\ freeBeg = 0
    /\ size = 0
    /\ cbmap = [h \in Handles |-> Null]
    /\ hpc = "idle" /\ hreq = None /\ hnew = None
    /\ hslot = 0 /\ hnext = 0 /\ hsize = 0
    /\ reply = "none"
    /\ tpc = "absent" /\ pos = 0 /\ left = 0 /\ cur = None /\ value = None
    /\ tslot = Null /\ thead = 0 /\ told = Null /\ tsize = 0
    /\ since = 0 /\ back = 0 /\ forth = 0
    /\ adds = 0 /\ mishaps = {} /\ refused = {}
    /\ owed = {} /\ joined = FALSE

-----------------------------------------------------------------------------
(* The HTTP thread.  One request at a time: the server runs one thread.    *)

Receive(r) ==
    /\ Running
    /\ hpc = "idle"
    /\ r.op = "add" => adds < MaxAdds \/ Cardinality(Live) >= MaxSessions
    /\ hreq' = r
    /\ hpc' = IF r.op = "once" THEN "once" ELSE "lock"
    /\ reply' = "pending"
    /\ UNCHANGED <<fate, lock, sessions, signal_vars, cbmap, hnew, conn_vars,
                   timer_vars, clock_vars, load_vars, hist_vars>>

\* Slip: update-observable without its lock_guard.
HttpLockSkipsUpdate ==
    /\ Running
    /\ hpc = "lock"
    /\ lock = "free" \/ hreq.op = "update"
    /\ lock' = IF hreq.op = "update" THEN lock ELSE "http"
    /\ hpc' = hreq.op
    /\ UNCHANGED <<fate, sessions, signal_vars, cbmap, hreq, hnew, conn_vars, reply,
                   timer_vars, clock_vars, load_vars, hist_vars>>

HttpLock ==
    /\ Running
    /\ hpc = "lock"
    /\ lock = "free"
    /\ lock' = "http"
    /\ hpc' = hreq.op
    /\ UNCHANGED <<fate, sessions, signal_vars, cbmap, hreq, hnew, conn_vars, reply,
                   timer_vars, clock_vars, load_vars, hist_vars>>

\* The handler returns, or an exception leaves it: the lock_guard unlocks,
\* and its locals go out of scope.
Finish(outcome) ==
    /\ hpc' = "idle"
    /\ hreq' = None
    /\ hnew' = None
    /\ hslot' = 0 /\ hnext' = 0 /\ hsize' = 0
    /\ reply' = outcome
    /\ lock' = IF lock = "http" THEN "free" ELSE lock

\* add-new-observable: create throws, and with it the handler.
AddRefused ==
    /\ Running
    /\ hpc = "add"
    /\ Cardinality(Live) >= MaxSessions
    /\ Finish("dropped")
    /\ UNCHANGED <<fate, sessions, signal_vars, cbmap, timer_vars, clock_vars,
                   load_vars, hist_vars>>

\* Slip: one observable too many.
AddCreateOverfills(h) ==
    /\ Running
    /\ hpc = "add"
    /\ Cardinality(Live) <= MaxSessions
    /\ h \notin Live
    /\ sessions' = [k \in Live \cup {h} |->
                       IF k # h THEN sessions[k]
                       ELSE [param |-> hreq.param, interval |-> hreq.interval,
                             dev |-> hreq.dev, values |-> <<>>,
                             elapsed |-> 0, gap |-> 0, ahead |-> 0,
                             behind |-> FALSE]]
    /\ hnew' = h
    /\ adds' = adds + 1
    /\ mishaps' = mishaps \cup IF Unregistering THEN {"overlap"} ELSE {}
                            \cup IF \E s \in Slots : word[s] = h THEN {"reuse"} ELSE {}
    /\ refused' = refused \ {h}
    /\ hpc' = "connect"
    /\ tpc' = IF tpc = "absent" THEN "sleep" ELSE tpc
    /\ UNCHANGED <<fate, lock, signal_vars, cbmap, hreq, conn_vars, reply, emit_vars,
                   disc_vars, clock_vars, hist_vars>>

\* create and the assignments to the new observable's members.  getTimer
\* starts the timer thread the first time it is called.  From here to the end
\* of the handler nothing keeps the unlocked disconnect out, and a handle is
\* free although an earlier observable's callback still goes by it.
AddCreate(h) ==
    /\ Running
    /\ hpc = "add"
    /\ Cardinality(Live) < MaxSessions
    /\ h \notin Live
    /\ sessions' = [k \in Live \cup {h} |->
                       IF k # h THEN sessions[k]
                       ELSE [param |-> hreq.param, interval |-> hreq.interval,
                             dev |-> hreq.dev, values |-> <<>>,
                             elapsed |-> 0, gap |-> 0, ahead |-> 0,
                             behind |-> FALSE]]
    /\ hnew' = h
    /\ adds' = adds + 1
    /\ mishaps' = mishaps \cup IF Unregistering THEN {"overlap"} ELSE {}
                            \cup IF \E s \in Slots : word[s] = h THEN {"reuse"} ELSE {}
    /\ refused' = refused \ {h}
    /\ hpc' = "connect"
    /\ tpc' = IF tpc = "absent" THEN "sleep" ELSE tpc
    /\ UNCHANGED <<fate, lock, signal_vars, cbmap, hreq, conn_vars, reply, emit_vars,
                   disc_vars, clock_vars, hist_vars>>

\* connect throws: the handler ends, the observable stays.
ConnectRefused ==
    /\ Running
    /\ hpc = "connect"
    /\ word[freeBeg] = Null
    /\ refused' = refused \cup {hnew}
    /\ Finish("dropped")
    /\ UNCHANGED <<fate, sessions, signal_vars, cbmap, timer_vars, clock_vars,
                   adds, mishaps, hist_vars>>

\* connect reads the head of the free list and its successor, ...
ConnectLoad ==
    /\ Running
    /\ hpc = "connect"
    /\ word[freeBeg] \in Slots
    /\ hslot' = freeBeg
    /\ hnext' = word[freeBeg]
    /\ hpc' = "advance"
    /\ joined' = (tpc \notin {"absent", "sleep"})
    /\ UNCHANGED <<fate, lock, sessions, signal_vars, cbmap, hreq, hnew, hsize, reply,
                   timer_vars, clock_vars, load_vars, owed>>

\* A head in use: its word, the address of a closure, passes for the next
\* free slot, and the list leads into the heap.
ConnectCorrupt ==
    /\ Running
    /\ hpc = "connect"
    /\ freeBeg \in Connected
    /\ fate' = "undefined"
    /\ UNCHANGED <<lock, sessions, signal_vars, cbmap, http_vars, timer_vars,
                   clock_vars, load_vars, hist_vars>>

\* ... stores the new head, ...
ConnectAdvance ==
    /\ Running
    /\ hpc = "advance"
    /\ freeBeg' = hnext
    /\ hpc' = "store"
    /\ UNCHANGED <<fate, lock, sessions, word, size, cbmap, hreq, hnew, conn_vars, reply,
                   timer_vars, clock_vars, load_vars, hist_vars>>

\* ... stores the closure and reads size_, ...
ConnectStore ==
    /\ Running
    /\ hpc = "store"
    /\ word' = [word EXCEPT ![hslot] = hnew]
    /\ hsize' = size
    /\ hpc' = "count"
    /\ UNCHANGED <<fate, lock, sessions, freeBeg, size, cbmap, hreq, hnew, hslot, hnext,
                   reply, timer_vars, clock_vars, load_vars, hist_vars>>

\* Slip: connect does not count.
ConnectUncounted ==
    /\ Running
    /\ hpc = "count"
    /\ size' = hsize
    /\ hpc' = "map"
    /\ UNCHANGED <<fate, lock, sessions, word, freeBeg, cbmap, hreq, hnew, conn_vars,
                   reply, timer_vars, clock_vars, load_vars, hist_vars>>

\* ... and stores the count.
ConnectCount ==
    /\ Running
    /\ hpc = "count"
    /\ size' = hsize + 1
    /\ hpc' = "map"
    /\ UNCHANGED <<fate, lock, sessions, word, freeBeg, cbmap, hreq, hnew, conn_vars,
                   reply, timer_vars, clock_vars, load_vars, hist_vars>>

\* Slip: the slot handle is not kept.
AddMapForgets ==
    /\ Running
    /\ hpc = "map"
    /\ Finish("success")
    /\ UNCHANGED <<fate, sessions, signal_vars, cbmap, timer_vars, clock_vars, load_vars,
                   hist_vars>>

AddMap ==
    /\ Running
    /\ hpc = "map"
    /\ cbmap' = [cbmap EXCEPT ![hnew] = hslot]
    /\ Finish("success")
    /\ UNCHANGED <<fate, sessions, signal_vars, timer_vars, clock_vars, load_vars,
                   hist_vars>>

\* Both threads are inside the unordered_map, neither protected from the
\* other: it may be left in any state.
MapRace ==
    /\ Running
    /\ hpc = "map"
    /\ tpc \in {"lookup", "erase"}
    /\ fate' = "undefined"
    /\ UNCHANGED <<lock, sessions, signal_vars, cbmap, http_vars, timer_vars,
                   clock_vars, load_vars, hist_vars>>

\* update-observable, remove-observable and get-iotdata/<handle>: get or
\* remove throws for a handle without observable.
UnknownHandle ==
    /\ Running
    /\ hpc \in {"update", "remove", "read"}
    /\ hreq.handle \notin Live
    /\ Finish("not found")
    /\ UNCHANGED <<fate, sessions, signal_vars, cbmap, timer_vars, clock_vars,
                   load_vars, hist_vars>>

UpdateSame ==
    /\ Running
    /\ hpc = "update"
    /\ hreq.handle \in Live
    /\ sessions[hreq.handle].param = hreq.param
    /\ Finish("success")
    /\ UNCHANGED <<fate, sessions, signal_vars, cbmap, timer_vars, clock_vars,
                   load_vars, hist_vars>>

UpdateParam ==
    /\ Running
    /\ hpc = "update"
    /\ hreq.handle \in Live
    /\ sessions[hreq.handle].param # hreq.param
    /\ sessions' = [sessions EXCEPT ![hreq.handle].param = hreq.param]
    /\ hpc' = "clear"
    /\ UNCHANGED <<fate, lock, signal_vars, cbmap, hreq, hnew, conn_vars, reply,
                   timer_vars, clock_vars, load_vars, hist_vars>>

UpdateClear ==
    /\ Running
    /\ hpc = "clear"
    /\ sessions' = [sessions EXCEPT ![hreq.handle].values = <<>>]
    /\ Finish("success")
    /\ UNCHANGED <<fate, signal_vars, cbmap, timer_vars, clock_vars, load_vars,
                   hist_vars>>

\* remove-observable: the callback stays connected until the timer runs it.
Remove ==
    /\ Running
    /\ hpc = "remove"
    /\ hreq.handle \in Live
    /\ sessions' = [k \in Live \ {hreq.handle} |-> sessions[k]]
    /\ Finish("success")
    /\ UNCHANGED <<fate, signal_vars, cbmap, timer_vars, clock_vars, load_vars,
                   hist_vars>>

\* get-iotdata and get-iotdata/<handle> copy what they answer under the lock.
Read ==
    /\ Running
    /\ \/ hpc = "list"
       \/ hpc = "read" /\ hreq.handle \in Live
    /\ Finish("data")
    /\ UNCHANGED <<fate, sessions, signal_vars, cbmap, timer_vars, clock_vars,
                   load_vars, hist_vars>>

\* observe-once waits for the device, which may never answer.  Some answers of
\* a device make an exception leave the handler; a coap address passes
\* validation and then nothing is written.
Once ==
    /\ Running
    /\ hpc = "once"
    /\ hreq.dev # "silent"
    /\ \E outcome \in {"data", "dropped"} :
          (outcome = "data" => hreq.dev = "http") /\ Finish(outcome)
    /\ UNCHANGED <<fate, sessions, signal_vars, cbmap, timer_vars, clock_vars,
                   load_vars, hist_vars>>

HttpStep ==
    \/ AddRefused
    \/ \E h \in Handles : AddCreate(h)
    \/ ConnectRefused \/ ConnectCorrupt \/ ConnectLoad \/ ConnectAdvance \/ ConnectStore
    \/ ConnectCount
    \/ AddMap
    \/ UnknownHandle
    \/ UpdateSame \/ UpdateParam \/ UpdateClear
    \/ Remove
    \/ Read
    \/ Once

-----------------------------------------------------------------------------
(* The timer thread.                                                       *)

\* execute: a second has passed since basis.
EmitBegin ==
    /\ Running
    /\ tpc = "sleep"
    /\ since >= 1
    /\ tpc' = "scan"
    /\ pos' = 0
    /\ left' = size
    /\ owed' = {s \in Connected : ~(hpc = "count" /\ hslot = s)}
    /\ joined' = (hpc \in {"advance", "store", "count"})
    /\ UNCHANGED <<fate, lock, sessions, signal_vars, cbmap, http_vars, cur, value,
                   disc_vars, clock_vars, load_vars>>

Scanning == Running /\ tpc = "scan" /\ left # 0 /\ pos \in Slots

EmitSkip ==
    /\ Scanning
    /\ pos \notin Connected
    /\ pos' = pos + 1
    /\ UNCHANGED <<fate, lock, sessions, signal_vars, cbmap, http_vars, tpc, left, cur,
                   value, disc_vars, clock_vars, load_vars, hist_vars>>

EmitCall ==
    /\ Scanning
    /\ pos \in Connected
    /\ cur' = word[pos]
    /\ owed' = owed \ {pos}
    /\ tpc' = "lock"
    /\ UNCHANGED <<fate, lock, sessions, signal_vars, cbmap, http_vars, pos, left, value,
                   disc_vars, clock_vars, load_vars, joined>>

EmitEnd ==
    /\ Running
    /\ tpc = "scan"
    /\ ~Scanning
    /\ tpc' = "sleep"
    /\ since' = 0
    /\ pos' = 0
    /\ left' = 0
    /\ owed' = {}
    /\ joined' = FALSE
    /\ UNCHANGED <<fate, lock, sessions, signal_vars, cbmap, http_vars, cur, value,
                   disc_vars, back, forth, load_vars>>

\* The callback of add-new-observable takes the lock ...
TimerLock ==
    /\ Running
    /\ tpc = "lock"
    /\ lock = "free"
    /\ lock' = "timer"
    /\ tpc' = "body"
    /\ UNCHANGED <<fate, sessions, signal_vars, cbmap, http_vars, emit_vars, disc_vars,
                   clock_vars, load_vars, hist_vars>>

\* The callback is over; emit goes on to the next word.
Return ==
    /\ tpc' = "scan"
    /\ pos' = pos + 1
    /\ left' = left - 1
    /\ cur' = None
    /\ value' = None
    /\ tslot' = Null /\ thead' = 0 /\ told' = Null /\ tsize' = 0

\* secs is signed, interval a size_t: a negative secs compares as huge.
Due(o) == o.elapsed < 0 \/ o.elapsed >= o.interval

\* Slip: the early end of the callback leaves the mutex locked.
NotDueKeepsLock ==
    /\ Running
    /\ tpc = "body"
    /\ cur \in Live
    /\ ~Due(sessions[cur])
    /\ Return
    /\ UNCHANGED <<fate, lock, sessions, signal_vars, cbmap, http_vars, clock_vars, load_vars,
                   hist_vars>>

\* Slip: latest_observation is set whether or not anything was observed.
NotDueRestarts ==
    /\ Running
    /\ tpc = "body"
    /\ cur \in Live
    /\ ~Due(sessions[cur])
    /\ lock' = "free"
    /\ sessions' = [sessions EXCEPT ![cur].elapsed = 0]
    /\ Return
    /\ UNCHANGED <<fate, signal_vars, cbmap, http_vars, clock_vars, load_vars,
                   hist_vars>>

NotDue ==
    /\ Running
    /\ tpc = "body"
    /\ cur \in Live
    /\ ~Due(sessions[cur])
    /\ lock' = "free"
    /\ Return
    /\ UNCHANGED <<fate, sessions, signal_vars, cbmap, http_vars, clock_vars, load_vars,
                   hist_vars>>

\* ... and still holds it while it waits for the device.
Fetch ==
    /\ Running
    /\ tpc = "body"
    /\ cur \in Live
    /\ Due(sessions[cur])
    /\ tpc' = "fetch"
    /\ UNCHANGED <<fate, lock, sessions, signal_vars, cbmap, http_vars, emit_vars,
                   disc_vars, clock_vars, load_vars, hist_vars>>

\* The number is looked up in the answer where param_location says; anything
\* else there, and a coap device, leaves the value 0.
Extract(ok) ==
    /\ Running
    /\ tpc = "fetch"
    /\ sessions[cur].dev # "silent"
    /\ ok => sessions[cur].dev = "http"
    /\ value' = [param |-> sessions[cur].param, ok |-> ok]
    /\ tpc' = "add"
    /\ UNCHANGED <<fate, lock, sessions, signal_vars, cbmap, http_vars, pos, left, cur,
                   disc_vars, clock_vars, load_vars, hist_vars>>

\* Slip: latest_observation stays at the time of creation.
AddValueKeepsTime ==
    /\ Running
    /\ tpc = "add"
    /\ sessions' = [sessions EXCEPT ![cur] =
           [sessions[cur] EXCEPT !.values = Push(sessions[cur].values, value),
                                 !.gap = 0, !.ahead = 0, !.behind = FALSE]]
    /\ lock' = "free"
    /\ Return
    /\ UNCHANGED <<fate, signal_vars, cbmap, http_vars, clock_vars, load_vars, hist_vars>>

AddValue ==
    /\ Running
    /\ tpc = "add"
    /\ sessions' = [sessions EXCEPT ![cur] =
           [sessions[cur] EXCEPT !.values = Push(sessions[cur].values, value),
                                 !.elapsed = 0, !.gap = 0, !.ahead = 0,
                                 !.behind = FALSE]]
    /\ lock' = "free"
    /\ Return
    /\ UNCHANGED <<fate, signal_vars, cbmap, http_vars, clock_vars, load_vars, hist_vars>>

\* Slip: the exception is swallowed, the callback stays.
GoneIgnored ==
    /\ Running
    /\ tpc = "body"
    /\ cur \notin Live
    /\ lock' = "free"
    /\ Return
    /\ UNCHANGED <<fate, sessions, signal_vars, cbmap, http_vars,
                   clock_vars, load_vars, hist_vars>>

\* get throws: unwinding unlocks, and the handler of the exception goes on
\* without the lock.
Gone ==
    /\ Running
    /\ tpc = "body"
    /\ cur \notin Live
    /\ lock' = "free"
    /\ tpc' = "lookup"
    /\ UNCHANGED <<fate, sessions, signal_vars, cbmap, http_vars, emit_vars, disc_vars,
                   clock_vars, load_vars, hist_vars>>

Lookup ==
    /\ Running
    /\ tpc = "lookup"
    /\ tslot' = cbmap[cur]
    /\ tpc' = "disconnect"
    /\ UNCHANGED <<fate, lock, sessions, signal_vars, cbmap, http_vars, emit_vars,
                   thead, told, tsize, clock_vars, load_vars, hist_vars>>

\* disconnect throws inside the handler of an exception: nothing catches it.
DisconnectThrows ==
    /\ Running
    /\ tpc = "disconnect"
    /\ tslot \notin Connected
    /\ fate' = "terminated"
    /\ UNCHANGED <<lock, sessions, signal_vars, cbmap, http_vars, timer_vars,
                   clock_vars, load_vars, hist_vars>>

\* disconnect deletes the closure and reads the head and its word, ...
DisconnectLoad ==
    /\ Running
    /\ tpc = "disconnect"
    /\ tslot \in Connected
    /\ thead' = freeBeg
    /\ told' = word[freeBeg]
    /\ tpc' = "relink"
    /\ UNCHANGED <<fate, lock, sessions, signal_vars, cbmap, http_vars, emit_vars,
                   tslot, tsize, clock_vars, load_vars, hist_vars>>

\* ... links the head to the freed slot, ...
DisconnectRelink ==
    /\ Running
    /\ tpc = "relink"
    /\ word' = [word EXCEPT ![thead] = tslot]
    /\ tpc' = "link"
    /\ UNCHANGED <<fate, lock, sessions, freeBeg, size, cbmap, http_vars, emit_vars,
                   disc_vars, clock_vars, load_vars, hist_vars>>

\* ... links the freed slot to what followed and reads size_, ...
DisconnectLink ==
    /\ Running
    /\ tpc = "link"
    /\ word' = [word EXCEPT ![tslot] = told]
    /\ tsize' = size
    /\ owed' = owed \ {tslot}
    /\ tpc' = "uncount"
    /\ UNCHANGED <<fate, lock, sessions, freeBeg, size, cbmap, http_vars, emit_vars,
                   tslot, thead, told, clock_vars, load_vars, joined>>

\* ... and stores the count.
DisconnectCount ==
    /\ Running
    /\ tpc = "uncount"
    /\ size' = tsize - 1
    /\ tpc' = "erase"
    /\ UNCHANGED <<fate, lock, sessions, word, freeBeg, cbmap, http_vars, emit_vars,
                   disc_vars, clock_vars, load_vars, hist_vars>>

\* erase(handle) reads the captured handle out of the running closure.  When
\* that is the closure just deleted, the memory may hold anything by now.
ErasedKeys ==
    IF tslot = pos /\ "garbage" \in FreedReads THEN Handles \cup {None} ELSE {cur}

Erase(k) ==
    /\ Running
    /\ tpc = "erase"
    /\ k \in ErasedKeys
    /\ cbmap' = [h \in Handles |-> IF h = k THEN Null ELSE cbmap[h]]
    /\ mishaps' = mishaps \cup IF k # cur THEN {"stray"} ELSE {}
    /\ Return
    /\ UNCHANGED <<fate, lock, sessions, signal_vars, http_vars, clock_vars, adds,
                   refused, hist_vars>>

TimerStep ==
    \/ EmitBegin \/ EmitSkip \/ EmitCall \/ EmitEnd
    \/ NotDue \/ Fetch \/ AddValue
    \/ Gone \/ Lookup
    \/ DisconnectThrows \/ DisconnectLoad \/ DisconnectRelink \/ DisconnectLink
    \/ DisconnectCount
    \/ \E k \in Handles \cup {None} : Erase(k)

Answer == \E ok \in BOOLEAN : Extract(ok)

-----------------------------------------------------------------------------
(* Time passes, and the system clock, by which the code measures it, is     *)
(* set.  Of each observable, elapsed is how far the clock reads past its   *)
(* latest observation.  Beside it stand, for the properties only: gap, the *)
(* time really passed since then; ahead, how far the clock was set forward *)
(* since then; behind, whether the clock has read earlier than it since.   *)

\* A second passes, for the clock and in truth; both are counted up to Cap.
Tick ==
    /\ Running
    /\ since' = IF tpc = "absent" THEN 0 ELSE AtMost(1 + MaxBack, since + 1)
    /\ sessions' = [h \in Live |->
           [sessions[h] EXCEPT !.elapsed = AtMost(Cap, @ + 1),
                               !.gap = AtMost(Cap, @ + 1)]]
    /\ UNCHANGED <<fate, lock, signal_vars, cbmap, http_vars, timer_vars, back, forth,
                   load_vars, hist_vars>>

\* The clock is set forward by a second, ...
ClockForward ==
    /\ Running
    /\ forth < MaxForward
    /\ forth' = forth + 1
    /\ since' = IF tpc = "absent" THEN 0 ELSE AtMost(1 + MaxBack, since + 1)
    /\ sessions' = [h \in Live |->
           [sessions[h] EXCEPT !.elapsed = AtMost(Cap, @ + 1), !.ahead = @ + 1]]
    /\ UNCHANGED <<fate, lock, signal_vars, cbmap, http_vars, timer_vars, back,
                   load_vars, hist_vars>>

\* ... or back by a second.
ClockBack ==
    /\ Running
    /\ back < MaxBack
    /\ back' = back + 1
    /\ since' = IF tpc = "absent" THEN 0 ELSE since - 1
    /\ sessions' = [h \in Live |->
           [sessions[h] EXCEPT !.elapsed = @ - 1,
                               !.behind = @ \/ sessions[h].elapsed <= 0]]
    /\ UNCHANGED <<fate, lock, signal_vars, cbmap, http_vars, timer_vars, forth,
                   load_vars, hist_vars>>

Next ==
    \/ \E r \in Requests : Receive(r)
    \/ HttpLock \/ HttpStep
    \/ MapRace
    \/ TimerLock \/ TimerStep \/ Answer
    \/ Tick \/ ClockForward \/ ClockBack

Spec == Init /\ [][Next]_vars

\* Both threads run; neither is passed over for ever at the mutex; devices
\* other than silent ones answer; time passes.
Fairness ==
    /\ WF_vars(HttpStep)
    /\ SF_vars(HttpLock)
    /\ WF_vars(TimerStep)
    /\ SF_vars(TimerLock)
    /\ WF_vars(Answer)
    /\ WF_vars(Tick)

FairSpec == Spec /\ Fairness

-----------------------------------------------------------------------------

Value == [param : Params, ok : BOOLEAN]

Observable ==
    [param : Params, interval : 0..Cap, dev : Devices, values : Seq(Value),
     elapsed : -MaxBack..Cap, gap : 0..Cap, ahead : 0..MaxForward, behind : BOOLEAN]

TypeOK ==
    /\ fate \in {"running", "terminated", "undefined"}
    /\ lock \in {"free", "http", "timer"}
    /\ Live \subseteq Handles
    /\ Cardinality(Live) <= MaxSessions
    /\ \A h \in Live : sessions[h] \in Observable /\ Len(sessions[h].values) <= ValuesCap
    /\ word \in [Slots -> Slots \cup Handles \cup {Null}]
    /\ freeBeg \in Slots
    /\ size \in -MaxAdds..MaxAdds
    /\ cbmap \in [Handles -> Slots \cup {Null}]
    /\ hpc \in {"idle", "lock", "add", "connect", "advance", "store", "count", "map",
                "update", "clear", "remove", "read", "list", "once"}
    /\ hreq \in Requests \cup {None}
    /\ hnew \in Handles \cup {None}
    /\ hslot \in Slots /\ hnext \in Slots /\ hsize \in -MaxAdds..MaxAdds
    /\ reply \in {"none", "pending", "success", "data", "not found", "dropped"}
    /\ tpc \in {"absent", "sleep", "scan", "lock", "body", "fetch", "add", "lookup",
                "disconnect", "relink", "link", "uncount", "erase"}
    /\ pos \in 0..UpperLimit+1
    /\ left \in -MaxAdds..MaxAdds
    /\ cur \in Handles \cup {None}
    /\ value \in Value \cup {None}
    /\ tslot \in Slots \cup {Null} /\ thead \in Slots /\ told \in Slots \cup Handles \cup {Null}
    /\ tsize \in -MaxAdds..MaxAdds
    /\ since \in -MaxBack..(1 + MaxBack)
    /\ back \in 0..MaxBack
    /\ forth \in 0..MaxForward
    /\ adds \in 0..MaxAdds
    /\ mishaps \subseteq {"overlap", "reuse", "stray"}
    /\ refused \subseteq Handles
    /\ joined \in BOOLEAN
    /\ owed \subseteq Slots

\* What is kept under an observable was collected for the parameter it shows,
\* although update-observable may change the parameter while a device is
\* being read: update and observation exclude each other from the reading of
\* the parameter to the storing of the value.
CollectedUnderParam ==
    \A h \in Live : \A i \in 1..Len(sessions[h].values) :
        \/ sessions[h].values[i].param = sessions[h].param
        \/ hpc = "clear" /\ hreq.handle = h

\* Clients and timer see the sessions as one atomic store: add, update,
\* remove and observe take effect at one point each.  This holds whatever
\* happens to the signal and its callbacks.
Store == INSTANCE ObservableStore WITH
    store <- [h \in Live |->
        [param  |-> sessions[h].param,
         values |-> IF hpc = "clear" /\ hreq.handle = h THEN <<>>
                    ELSE sessions[h].values]]

ImplementsStore == Store!Spec

\* Two values of an observable are at least its interval apart in real time,
\* less what the clock was set forward in between, and the first comes no
\* earlier than that after its creation: however often the timer runs the
\* callback, and with however many callbacks.  The exception is a clock set
\* back behind the latest observation: the signed difference then compares as
\* a huge unsigned one, and the device is read at once.
Spaced ==
    [][\A h \in Live \cap DOMAIN sessions' :
          sessions'[h].values \notin {sessions[h].values, <<>>} =>
              \/ sessions[h].gap + sessions[h].ahead >= sessions[h].interval
              \/ sessions[h].behind]_vars

\* Every observable has exactly one callback, and the map leads to it, except
\* while the handler that creates it is still at work, and but for those
\* whose connect threw.
EveryObservableScheduled ==
    \A h \in Live \ ({hnew} \cup refused) :
        \E s \in Slots : cbmap[h] = s /\ \A t \in Slots : word[t] = h <=> t = s

\* The signal as a data structure of its own: between operations it has the
\* shape SimpleSignal relies on.
Signal == INSTANCE SimpleSignal WITH
    Callbacks <- Handles, pc <- "idle", result <- "none"

SignalIntact ==
    ~Connecting /\ ~Disconnecting => Signal!FreeListInv /\ Signal!SizeCounts

\* What observables and signal owe each other, until one of three mishaps:
\*  - a handle was given to a new observable while the callback of an earlier
\*    one of that handle was still connected ("reuse");
\*  - the timer thread was looking up, disconnecting or erasing a callback
\*    when a handler went on to connect one ("overlap");
\*  - erase read a handle out of the closure that disconnect had deleted, and
\*    it was no longer the closure's ("stray").
\* The code prevents none of them; nothing else disturbs the callbacks: not
\* handlers and timer interleaved, not a full signal, not a full manager.
CallbacksInv == mishaps = {} => TypeOK /\ EveryObservableScheduled /\ SignalIntact

\* Requests end the process, or corrupt its memory, only after one of the same
\* three mishaps.  Until then no disconnect throws inside the handler of an
\* exception, connect finds no closure on the free list, and the threads do
\* not meet in the map.
Survives == mishaps = {} => Running

\* Removing observables does not end the process.
NeverTerminates == fate # "terminated"

\* Every request comes to an end, although its handler waits for the mutex
\* behind a timer that holds it during a device's answer: unless the process
\* ends first.
RequestsFinish == (hpc # "idle") ~> (hpc = "idle" \/ ~Running)

\* An observable whose values were cleared, or which is new, is observed
\* sooner or later: if its connect did not throw, and up to the first mishap.
ObservedEventually ==
    \A h \in Handles :
        (h \in Live) ~> \/ h \in Live => sessions[h].values # <<>>
                        \/ h \in refused
                        \/ mishaps # {}

\* The callback of a removed observable is disconnected sooner or later, up to
\* the first mishap.
Pruned ==
    \A s \in Slots :
        (word[s] \in Handles \ Live) ~> (word[s] \notin Handles \ Live \/ mishaps # {})
==============================================================================
