--------------------------- MODULE Gateway_proofs ----------------------------
(***************************************************************************)
(* The sessions are safe for every number of handles, parameters, devices  *)
(* and requests, whatever the unguarded signal and map do meanwhile: the   *)
(* values kept were collected under the parameter shown, the readings are  *)
(* as far apart as the clock allows, and the handlers and the timer        *)
(* together implement ObservableStore.  That argument needs to know who    *)
(* holds the mutex where (Exclusion), that a handler in its critical       *)
(* section still has the request it was called for (Handling), and what a  *)
(* critical section has established and nobody else can undo before it     *)
(* ends (Critical).  It assumes nothing of the signal, its free list, the  *)
(* callback map or the fate of the process.                                *)
(*                                                                         *)
(* The second part proves of the signal and the map that three mishaps are *)
(* all that can spoil them: until a handle is reused too early, an add     *)
(* begins while a disconnect is under way, or erase reads a stray handle,  *)
(* the process survives and every observable keeps its callback (CInv).    *)
(***************************************************************************)
EXTENDS Gateway, SequenceTheorems, FiniteSetTheorems, TLAPS

HttpHolds  == {"add", "connect", "advance", "store", "count", "map", "update",
               "clear", "remove", "read", "list"}
TimerHolds == {"body", "fetch", "add"}

\* The mutex is held by the thread that is between its lock and its unlock.
Exclusion ==
    /\ lock \in {"free", "http", "timer"}
    /\ lock = "http" <=> hpc \in HttpHolds
    /\ lock = "timer" <=> tpc \in TimerHolds

\* Sessions are records of the right shape.
Session == [param : Params, interval : Int, dev : Devices, values : Seq(Value),
            elapsed : Int, gap : Int, ahead : Int, behind : BOOLEAN]

SessionsOK ==
    /\ Live \subseteq Handles
    /\ sessions = [h \in Live |-> sessions[h]]
    /\ \A h \in Live : sessions[h] \in Session

\* The request a handler works on.
Handling ==
    /\ hpc \notin {"idle"} => hreq \in Requests
    /\ hpc = "lock" => hreq.op # "once"
    /\ hpc = "add" => hreq.op = "add"
    /\ hpc \in {"update", "clear"} => hreq.op = "update"
    /\ hpc \in {"remove", "read"} => hreq.op = hpc

\* What holds inside the critical sections: the observable worked on exists,
\* and the value about to be stored was read under its parameter.
Critical ==
    /\ hpc = "clear" => hreq.handle \in Live
    /\ tpc \in {"fetch", "add"} => cur \in Live
    /\ tpc = "add" => value \in Value /\ value.param = sessions[cur].param

IInv == Exclusion /\ SessionsOK /\ Handling /\ Critical /\ CollectedUnderParam

-----------------------------------------------------------------------------

\* What a request of each kind carries.
LEMMA RequestFields ==
  ASSUME NEW r \in Requests
  PROVE  /\ r.op = "add" => r.param \in Params /\ r.interval \in Int /\ r.dev \in Devices
         /\ r.op = "update" => r.handle \in Handles /\ r.param \in Params
         /\ r.op \in {"remove", "read"} => r.handle \in Handles
         /\ r.op \in {"add", "update", "remove", "read", "list", "once"}
BY RequestsAssumption, NumbersAssumption DEF AddRequests

\* Append keeps every element where it was and puts the new one last.
LEMMA AppendElements ==
  ASSUME NEW S, NEW t \in Seq(S), NEW v \in S
  PROVE  /\ \A i \in 1..Len(t) : Append(t, v)[i] = t[i]
         /\ Append(t, v)[Len(t) + 1] = v
OBVIOUS

\* Push adds one value at the end and forgets at most the oldest.
LEMMA PushType ==
  ASSUME NEW S, NEW q \in Seq(S), NEW v \in S
  PROVE  /\ Push(q, v) \in Seq(S)
         /\ \A P \in SUBSET S :
               (v \in P /\ \A i \in 1..Len(q) : q[i] \in P) =>
                   \A i \in 1..Len(Push(q, v)) : Push(q, v)[i] \in P
<1>1. CASE Len(q) < ValuesCap
  <2>1. Push(q, v) = Append(q, v)
    BY <1>1 DEF Push
  <2>2. Append(q, v) \in Seq(S) /\ Len(Append(q, v)) = Len(q) + 1 /\ Len(q) \in Nat
    OBVIOUS
  <2>3. \A i \in 1..Len(q) : Append(q, v)[i] = q[i]
    BY AppendElements, Zenon
  <2>4. Append(q, v)[Len(q) + 1] = v
    BY AppendElements, Zenon
  <2>5. ASSUME NEW i \in 1..(Len(q) + 1)
        PROVE  i \in 1..Len(q) \/ i = Len(q) + 1
    BY <2>2
  <2>6. ASSUME NEW P \in SUBSET S, v \in P, \A i \in 1..Len(q) : q[i] \in P,
               NEW i \in 1..(Len(q) + 1)
        PROVE  Append(q, v)[i] \in P
    BY <2>3, <2>4, <2>5, <2>6, Zenon
  <2> QED BY <2>1, <2>2, <2>6, Zenon
<1>2. CASE ~(Len(q) < ValuesCap)
  <2>1. q # <<>> /\ Len(q) \in Nat /\ Len(q) >= 1
    BY <1>2, NumbersAssumption
  <2>2. Tail(q) \in Seq(S) /\ Len(Tail(q)) = Len(q) - 1
    BY <2>1
  <2>3. Push(q, v) = Append(Tail(q), v) /\ Push(q, v) \in Seq(S)
    BY <1>2, <2>2 DEF Push
  <2>4. ASSUME NEW i \in 1..Len(q)
        PROVE  Append(Tail(q), v)[i] = IF i = Len(q) THEN v ELSE q[i+1]
    <3>1. CASE i = Len(q)
      BY <2>2, <3>1
    <3>2. CASE i # Len(q)
      <4>1. Len(q) \in Nat /\ i \in 1..(Len(q)-1)
        BY <2>1, <3>2
      <4>2. Tail(q)[i] = q[i+1] /\ i \in 1..Len(Tail(q))
        BY <2>1, <2>2, <4>1
      <4>3. Append(Tail(q), v)[i] = Tail(q)[i]
        BY <2>2, <4>2, AppendElements, Zenon
      <4> QED BY <3>2, <4>2, <4>3, Zenon
    <3> QED BY <3>1, <3>2
  <2>5. Len(Append(Tail(q), v)) = Len(q)
    BY <2>1, <2>2
  <2>6. \A i \in 1..Len(q) : i # Len(q) => i+1 \in 1..Len(q)
    BY <2>1
  <2>7. ASSUME NEW P \in SUBSET S, v \in P, \A i \in 1..Len(q) : q[i] \in P,
               NEW i \in 1..Len(q)
        PROVE  Append(Tail(q), v)[i] \in P
    <3>1. CASE i = Len(q)
      BY <2>4, <2>7, <3>1, Zenon
    <3>2. CASE i # Len(q)
      BY <2>4, <2>6, <2>7, <3>2, Zenon
    <3> QED BY <3>1, <3>2
  <2> QED BY <2>3, <2>5, <2>7, Zenon
<1> QED BY <1>1, <1>2, Zenon

\* Two states of an observable between which nothing touched its times.
SameTimes(n, o) ==
    /\ n.interval = o.interval /\ n.elapsed = o.elapsed /\ n.gap = o.gap
    /\ n.ahead = o.ahead /\ n.behind = o.behind

\* An observable by its members, and the assignment to one of them.
Rec(p, i, d, v, e, g, a, b) ==
    [param |-> p, interval |-> i, dev |-> d, values |-> v,
     elapsed |-> e, gap |-> g, ahead |-> a, behind |-> b]

SetValues(o, x)  == [o EXCEPT !.values = x]
SetElapsed(o, x) == [o EXCEPT !.elapsed = x]
SetGap(o, x)     == [o EXCEPT !.gap = x]
SetAhead(o, x)   == [o EXCEPT !.ahead = x]
SetBehind(o, x)  == [o EXCEPT !.behind = x]

\* An assignment changes the member it names.
LEMMA RecSet ==
  ASSUME NEW p, NEW i, NEW d, NEW v, NEW e, NEW g, NEW a, NEW b, NEW x
  PROVE  /\ SetValues(Rec(p, i, d, v, e, g, a, b), x) = Rec(p, i, d, x, e, g, a, b)
         /\ SetElapsed(Rec(p, i, d, v, e, g, a, b), x) = Rec(p, i, d, v, x, g, a, b)
         /\ SetGap(Rec(p, i, d, v, e, g, a, b), x) = Rec(p, i, d, v, e, x, a, b)
         /\ SetAhead(Rec(p, i, d, v, e, g, a, b), x) = Rec(p, i, d, v, e, g, x, b)
         /\ SetBehind(Rec(p, i, d, v, e, g, a, b), x) = Rec(p, i, d, v, e, g, a, x)
BY DEF Rec, SetValues, SetElapsed, SetGap, SetAhead, SetBehind

\* The members one after the other: those assigned, and the others.
LEMMA SessionFields ==
  ASSUME NEW o \in Session, NEW q, NEW e, NEW g, NEW a, NEW b
  PROVE  /\ SetBehind(SetAhead(SetGap(SetElapsed(SetValues(o, q), e), g), a), b)
              = Rec(o.param, o.interval, o.dev, q, e, g, a, b)
         /\ SetGap(SetElapsed(o, e), g)
              = Rec(o.param, o.interval, o.dev, o.values, e, g, o.ahead, o.behind)
         /\ SetAhead(SetElapsed(o, e), a)
              = Rec(o.param, o.interval, o.dev, o.values, e, o.gap, a, o.behind)
         /\ SetBehind(SetElapsed(o, e), b)
              = Rec(o.param, o.interval, o.dev, o.values, e, o.gap, o.ahead, b)
<1>1. o = Rec(o.param, o.interval, o.dev, o.values, o.elapsed, o.gap, o.ahead, o.behind)
  BY DEF Session, Rec
<1>2. SetBehind(SetAhead(SetGap(SetElapsed(SetValues(o, q), e), g), a), b)
        = Rec(o.param, o.interval, o.dev, q, e, g, a, b)
  BY <1>1, RecSet
<1>3. /\ SetGap(SetElapsed(o, e), g)
           = Rec(o.param, o.interval, o.dev, o.values, e, g, o.ahead, o.behind)
      /\ SetAhead(SetElapsed(o, e), a)
           = Rec(o.param, o.interval, o.dev, o.values, e, o.gap, a, o.behind)
      /\ SetBehind(SetElapsed(o, e), b)
           = Rec(o.param, o.interval, o.dev, o.values, e, o.gap, o.ahead, b)
  BY <1>1, RecSet
<1> QED BY <1>2, <1>3

\* What AddValue assigns.
Stored(o, q) == [o EXCEPT !.values = q, !.elapsed = 0, !.gap = 0, !.ahead = 0,
                          !.behind = FALSE]

\* Assigning one member of an observable leaves the others alone.
LEMMA SessionExcept ==
  ASSUME NEW o \in Session
  PROVE  /\ \A q \in Seq(Value) :
               LET n == Stored(o, q)
               IN  /\ n \in Session /\ n.param = o.param /\ n.values = q
                   /\ n.interval = o.interval /\ n.elapsed = 0 /\ n.gap = 0
                   /\ n.ahead = 0 /\ n.behind = FALSE
         /\ LET n == [o EXCEPT !.values = <<>>]
            IN  /\ n \in Session /\ n.param = o.param /\ n.values = <<>>
                /\ SameTimes(n, o)
         /\ \A p \in Params : LET n == [o EXCEPT !.param = p]
                              IN  /\ n \in Session /\ n.param = p /\ n.values = o.values
                                  /\ SameTimes(n, o)
<1>1. /\ o = [param |-> o.param, interval |-> o.interval, dev |-> o.dev,
              values |-> o.values, elapsed |-> o.elapsed, gap |-> o.gap,
              ahead |-> o.ahead, behind |-> o.behind]
      /\ o.param \in Params /\ o.interval \in Int /\ o.dev \in Devices
      /\ o.values \in Seq(Value) /\ o.elapsed \in Int /\ o.gap \in Int
      /\ o.ahead \in Int /\ o.behind \in BOOLEAN
  BY DEF Session
<1>2. <<>> \in Seq(Value) /\ 0 \in Int /\ FALSE \in BOOLEAN
  OBVIOUS
<1>3. ASSUME NEW q \in Seq(Value)
      PROVE  LET n == Stored(o, q)
             IN  /\ n \in Session /\ n.param = o.param /\ n.values = q
                 /\ n.interval = o.interval /\ n.elapsed = 0 /\ n.gap = 0
                 /\ n.ahead = 0 /\ n.behind = FALSE
  <2>1. PICK no : no = FALSE
    OBVIOUS
  <2>2. SetBehind(SetAhead(SetGap(SetElapsed(SetValues(o, q), 0), 0), 0), no)
          = Rec(o.param, o.interval, o.dev, q, 0, 0, 0, no)
    BY SessionFields
  <2>3. Stored(o, q) = SetBehind(SetAhead(SetGap(SetElapsed(SetValues(o, q), 0), 0), 0), no)
    BY <2>1 DEF Stored, SetValues, SetElapsed, SetGap, SetAhead, SetBehind
  <2>4. Stored(o, q) = [param |-> o.param, interval |-> o.interval, dev |-> o.dev,
                        values |-> q, elapsed |-> 0, gap |-> 0, ahead |-> 0,
                        behind |-> no]
    BY <2>2, <2>3 DEF Rec
  <2>5. no \in BOOLEAN
    BY <2>1
  <2>6. LET n == Stored(o, q)
        IN  /\ n \in Session /\ n.param = o.param /\ n.values = q
            /\ n.interval = o.interval /\ n.elapsed = 0 /\ n.gap = 0
            /\ n.ahead = 0 /\ n.behind = no
    BY <1>1, <1>2, <2>4, <2>5 DEF Session
  <2> QED BY <2>1, <2>6, Zenon
<1>4. LET n == [o EXCEPT !.values = <<>>]
      IN  n \in Session /\ n.param = o.param /\ n.values = <<>> /\ SameTimes(n, o)
  <2>1. [o EXCEPT !.values = <<>>]
          = [param |-> o.param, interval |-> o.interval, dev |-> o.dev,
             values |-> <<>>, elapsed |-> o.elapsed, gap |-> o.gap,
             ahead |-> o.ahead, behind |-> o.behind]
    BY <1>1
  <2> QED BY <1>1, <1>2, <2>1 DEF Session, SameTimes
<1>5. ASSUME NEW p \in Params
      PROVE  LET n == [o EXCEPT !.param = p]
             IN  n \in Session /\ n.param = p /\ n.values = o.values /\ SameTimes(n, o)
  <2>1. [o EXCEPT !.param = p]
          = [param |-> p, interval |-> o.interval, dev |-> o.dev,
             values |-> o.values, elapsed |-> o.elapsed, gap |-> o.gap,
             ahead |-> o.ahead, behind |-> o.behind]
    BY <1>1
  <2> QED BY <1>1, <2>1 DEF Session, SameTimes
<1> QED BY <1>3, <1>4, <1>5

-----------------------------------------------------------------------------
\* Steps that change neither the sessions nor the mutex.

\* Both threads are outside, and there are no sessions.
LEMMA InitIInv == Init => IInv
BY DEF Init, IInv, Exclusion, SessionsOK, Handling, Critical, CollectedUnderParam,
       HttpHolds, TimerHolds, Live

\* Steps of the HTTP thread outside the sessions, the mutex kept or not
\* involved.
HttpQuiet ==
    \/ \E r \in Requests : Receive(r)
    \/ ConnectLoad \/ ConnectAdvance \/ ConnectStore \/ ConnectCount
    \/ ConnectCorrupt \/ MapRace

\* Steps with which a handler ends and leaves the sessions alone.
HttpEnds ==
    \/ AddRefused \/ ConnectRefused \/ AddMap \/ UnknownHandle \/ UpdateSame
    \/ Read \/ Once

\* Steps of the timer thread outside the critical section of the callback.
TimerQuiet ==
    \/ EmitBegin \/ EmitSkip \/ EmitCall \/ EmitEnd \/ Lookup
    \/ DisconnectThrows \/ DisconnectLoad \/ DisconnectRelink \/ DisconnectLink
    \/ DisconnectCount \/ \E k \in Handles \cup {None} : Erase(k)

\* Steps of the handler that leave sessions and mutex alone.
LEMMA HttpQuietStep ==
  ASSUME IInv, HttpQuiet
  PROVE  IInv' /\ sessions' = sessions /\ ~(hpc = "clear") /\ ~(hpc' = "clear")
<1>1. CASE \E r \in Requests : Receive(r)
  BY <1>1, RequestFields
     DEF IInv, Exclusion, SessionsOK, Handling, Critical, CollectedUnderParam, HttpHolds,
         TimerHolds, Live, Receive, timer_vars, emit_vars
<1>2. CASE ConnectLoad \/ ConnectAdvance \/ ConnectStore \/ ConnectCount
  BY <1>2
     DEF IInv, Exclusion, SessionsOK, Handling, Critical, CollectedUnderParam, HttpHolds,
         TimerHolds, Live, ConnectLoad, ConnectAdvance, ConnectStore, ConnectCount,
         timer_vars, emit_vars
<1>3. CASE ConnectCorrupt \/ MapRace
  BY <1>3
     DEF IInv, Exclusion, SessionsOK, Handling, Critical, CollectedUnderParam,
         Live, ConnectCorrupt, MapRace, http_vars, timer_vars, emit_vars
<1> QED BY <1>1, <1>2, <1>3 DEF HttpQuiet

\* Answers, and errors that leave the critical section.
LEMMA HttpEndsStep ==
  ASSUME IInv, HttpEnds
  PROVE  IInv' /\ sessions' = sessions /\ ~(hpc = "clear") /\ ~(hpc' = "clear")
<1>1. /\ \E o \in {"dropped", "success", "not found", "data"} : Finish(o)
      /\ hpc \in {"add", "connect", "map", "update", "remove", "read", "list", "once"}
      /\ UNCHANGED <<sessions, timer_vars>>
  BY DEF HttpEnds, AddRefused, ConnectRefused, AddMap, UnknownHandle, UpdateSame,
         Read, Once
<1> QED BY <1>1
     DEF IInv, Exclusion, SessionsOK, Handling, Critical, CollectedUnderParam, HttpHolds,
         TimerHolds, Live, Finish, timer_vars, emit_vars

\* Steps of the timer that leave sessions and mutex alone.
LEMMA TimerQuietStep ==
  ASSUME IInv, TimerQuiet
  PROVE  IInv' /\ sessions' = sessions /\ UNCHANGED <<hpc, hreq>>
<1>1. /\ UNCHANGED <<sessions, lock, http_vars>>
      /\ tpc \notin TimerHolds /\ tpc' \notin TimerHolds
  BY DEF TimerQuiet, EmitBegin, EmitSkip, EmitCall, EmitEnd, Lookup, DisconnectThrows,
         DisconnectLoad, DisconnectRelink, DisconnectLink, DisconnectCount, Erase, Return,
         Scanning, TimerHolds, timer_vars
<1> QED BY <1>1
     DEF IInv, Exclusion, SessionsOK, Handling, Critical, CollectedUnderParam, TimerHolds,
         Live, http_vars

-----------------------------------------------------------------------------
\* Steps inside the critical sections.

\* The handler gets the mutex only while the callback is outside.
LEMMA HttpLockStep ==
  ASSUME IInv, HttpLock
  PROVE  IInv' /\ sessions' = sessions /\ ~(hpc = "clear") /\ ~(hpc' = "clear")
<1>1. hreq \in Requests /\ hreq.op \in {"add", "update", "remove", "read", "list", "once"}
  BY RequestFields DEF HttpLock, IInv, Handling
<1>2. hreq.op # "once"
  BY DEF HttpLock, IInv, Handling
<1> QED BY <1>1, <1>2
     DEF IInv, Exclusion, SessionsOK, Handling, Critical, CollectedUnderParam, HttpHolds,
         TimerHolds, Live, HttpLock, timer_vars, emit_vars

\* The callback enters, looks, and leaves without touching sessions.
LEMMA TimerLockStep ==
  ASSUME IInv, TimerLock \/ Fetch \/ NotDue \/ Gone
  PROVE  IInv' /\ sessions' = sessions /\ UNCHANGED <<hpc, hreq>>
<1>1. CASE TimerLock
  BY <1>1 DEF IInv, Exclusion, SessionsOK, Handling, Critical, CollectedUnderParam,
              HttpHolds, TimerHolds, Live, TimerLock, http_vars, emit_vars
<1>2. CASE Fetch
  BY <1>2 DEF IInv, Exclusion, SessionsOK, Handling, Critical, CollectedUnderParam,
              HttpHolds, TimerHolds, Live, Fetch, http_vars, emit_vars
<1>3. CASE NotDue \/ Gone
  BY <1>3 DEF IInv, Exclusion, SessionsOK, Handling, Critical, CollectedUnderParam,
              HttpHolds, TimerHolds, Live, NotDue, Gone, Return, http_vars
<1> QED BY <1>1, <1>2, <1>3

\* What was read is a value for the parameter the observable still has.
LEMMA ExtractStep ==
  ASSUME IInv, NEW ok \in BOOLEAN, Extract(ok)
  PROVE  IInv' /\ sessions' = sessions /\ UNCHANGED <<hpc, hreq>>
<1>1. cur \in Live /\ sessions[cur].param \in Params
  BY DEF IInv, Critical, SessionsOK, Session, Extract
<1>2. value' = [param |-> sessions[cur].param, ok |-> ok] /\ value' \in Value
  BY <1>1 DEF Extract, Value
<1> QED BY <1>1, <1>2
     DEF IInv, Exclusion, SessionsOK, Handling, Critical, CollectedUnderParam,
         HttpHolds, TimerHolds, Live, Extract, http_vars

\* What AddValue makes of the sessions.
LEMMA AddValueEffect ==
  ASSUME IInv, AddValue
  PROVE  /\ cur \in Live /\ Live' = Live
         /\ sessions' = [sessions EXCEPT ![cur] = sessions'[cur]]
         /\ sessions'[cur] \in Session
         /\ sessions'[cur].param = sessions[cur].param
         /\ sessions'[cur].values = Push(sessions[cur].values, value)
         /\ sessions'[cur].interval = sessions[cur].interval
         /\ sessions'[cur].elapsed = 0 /\ sessions'[cur].gap = 0
         /\ sessions'[cur].ahead = 0 /\ sessions'[cur].behind = FALSE
<1>1. cur \in Live /\ sessions[cur] \in Session /\ value \in Value
  BY DEF IInv, Critical, SessionsOK, AddValue
<1>2. sessions[cur].values \in Seq(Value)
  BY <1>1 DEF Session
<1>3. Push(sessions[cur].values, value) \in Seq(Value)
  BY <1>1, <1>2, PushType
<1> DEFINE o == Stored(sessions[cur], Push(sessions[cur].values, value))
<1>4. /\ o \in Session /\ o.param = sessions[cur].param
      /\ o.values = Push(sessions[cur].values, value)
      /\ o.interval = sessions[cur].interval /\ o.elapsed = 0 /\ o.gap = 0
      /\ o.ahead = 0 /\ o.behind = FALSE
  BY <1>1, <1>3, SessionExcept, Zenon
<1>5. sessions' = [sessions EXCEPT ![cur] = o]
  BY DEF AddValue, Stored
<1> HIDE DEF o
<1> QED BY <1>1, <1>4, <1>5 DEF Live, IInv, SessionsOK

\* So is what is stored.
LEMMA AddValueStep ==
  ASSUME IInv, AddValue
  PROVE  IInv'
<1>1. /\ cur \in Live /\ Live' = Live
      /\ sessions' = [sessions EXCEPT ![cur] = sessions'[cur]]
      /\ sessions'[cur] \in Session
      /\ sessions'[cur].param = sessions[cur].param
      /\ sessions'[cur].values = Push(sessions[cur].values, value)
  BY AddValueEffect
<1>2. /\ lock = "timer" /\ hpc \notin HttpHolds /\ tpc' = "scan" /\ lock' = "free"
      /\ UNCHANGED <<hpc, hreq>>
  BY DEF IInv, Exclusion, AddValue, Return, TimerHolds, HttpHolds, http_vars
<1>3. Exclusion' /\ Handling' /\ Critical'
  BY <1>2 DEF IInv, Exclusion, Handling, Critical, HttpHolds, TimerHolds
<1>4. \A h \in Live : h # cur => sessions'[h] = sessions[h]
  BY <1>1 DEF IInv, SessionsOK
<1>5. SessionsOK'
  BY <1>1, <1>4 DEF IInv, SessionsOK, Live
<1>6. CollectedUnderParam'
  <2>1. hpc # "clear"
    BY <1>2 DEF HttpHolds
  <2>2. \A h \in Live : \A i \in 1..Len(sessions[h].values) :
           sessions[h].values[i].param = sessions[h].param
    BY <2>1 DEF IInv, CollectedUnderParam
  <2>3. \A i \in 1..Len(sessions'[cur].values) :
           sessions'[cur].values[i].param = sessions'[cur].param
    <3> DEFINE P == {v \in Value : v.param = sessions[cur].param}
               q == sessions[cur].values
    <3>1. value \in P /\ q \in Seq(Value)
      BY <1>1 DEF IInv, Critical, SessionsOK, Session, AddValue
    <3>2. \A i \in 1..Len(q) : q[i] \in P
      BY <1>1, <2>2, <3>1
    <3>3. \A i \in 1..Len(Push(q, value)) : Push(q, value)[i] \in P
      <4>1. P \in SUBSET Value /\ value \in Value
        BY <3>1
      <4> HIDE DEF P, q
      <4> QED BY <3>1, <3>2, <4>1, PushType
    <3> QED BY <1>1, <3>3
  <2> QED BY <1>1, <1>4, <2>2, <2>3 DEF CollectedUnderParam
<1> QED BY <1>3, <1>5, <1>6 DEF IInv

\* What AddCreate makes of the sessions.
LEMMA AddCreateEffect ==
  ASSUME IInv, NEW h \in Handles, AddCreate(h)
  PROVE  /\ Live' = Live \cup {h} /\ h \notin Live
         /\ sessions' = [k \in Live' |-> sessions'[k]]
         /\ \A k \in Live : sessions'[k] = sessions[k]
         /\ sessions'[h] \in Session
         /\ sessions'[h].param = hreq.param /\ sessions'[h].values = <<>>
         /\ sessions'[h].interval = hreq.interval
         /\ sessions'[h].elapsed = 0 /\ sessions'[h].gap = 0
         /\ sessions'[h].ahead = 0 /\ sessions'[h].behind = FALSE
<1>1. hreq \in Requests /\ hreq.op = "add"
  BY DEF IInv, Handling, AddCreate
<1>2. hreq.param \in Params /\ hreq.interval \in Int /\ hreq.dev \in Devices
  BY <1>1, RequestFields
<1> DEFINE o == [param |-> hreq.param, interval |-> hreq.interval, dev |-> hreq.dev,
                 values |-> <<>>, elapsed |-> 0, gap |-> 0, ahead |-> 0, behind |-> FALSE]
<1>3. /\ o \in Session /\ o.param = hreq.param /\ o.values = <<>>
      /\ o.interval = hreq.interval /\ o.elapsed = 0 /\ o.gap = 0
      /\ o.ahead = 0 /\ o.behind = FALSE
  BY <1>2 DEF Session
<1>4. sessions' = [k \in Live \cup {h} |-> IF k # h THEN sessions[k] ELSE o] /\ h \notin Live
  BY DEF AddCreate
<1> HIDE DEF o
<1> QED BY <1>3, <1>4 DEF Live

\* A new session has no values yet.
LEMMA AddCreateStep ==
  ASSUME IInv, NEW h \in Handles, AddCreate(h)
  PROVE  IInv'
<1>1. /\ Live' = Live \cup {h} /\ h \notin Live
      /\ sessions' = [k \in Live' |-> sessions'[k]]
      /\ \A k \in Live : sessions'[k] = sessions[k]
      /\ sessions'[h] \in Session /\ sessions'[h].values = <<>>
  BY AddCreateEffect
<1>2. /\ hpc = "add" /\ hpc' = "connect"
      /\ tpc \in TimerHolds <=> tpc' \in TimerHolds
      /\ tpc' \in TimerHolds => tpc' = tpc
      /\ UNCHANGED <<lock, hreq, cur, value>>
  BY DEF AddCreate, TimerHolds, emit_vars
<1>3. Exclusion' /\ Handling'
  BY <1>2 DEF IInv, Exclusion, Handling, HttpHolds, TimerHolds
<1>4. Critical'
  BY <1>1, <1>2 DEF IInv, Critical, TimerHolds
<1>5. SessionsOK'
  BY <1>1 DEF IInv, SessionsOK, Live
<1>6. CollectedUnderParam'
  BY <1>1, <1>2 DEF IInv, CollectedUnderParam
<1> QED BY <1>3, <1>4, <1>5, <1>6 DEF IInv

\* What the two halves of update-observable and remove-observable make of the
\* sessions.
LEMMA UpdateParamEffect ==
  ASSUME IInv, UpdateParam
  PROVE  /\ hreq.handle \in Live /\ Live' = Live /\ hreq.param \in Params
         /\ sessions' = [k \in Live |-> sessions'[k]]
         /\ \A k \in Live : k # hreq.handle => sessions'[k] = sessions[k]
         /\ sessions'[hreq.handle] \in Session
         /\ sessions'[hreq.handle].param = hreq.param
         /\ sessions'[hreq.handle].values = sessions[hreq.handle].values
         /\ SameTimes(sessions'[hreq.handle], sessions[hreq.handle])
<1>1. hreq.handle \in Live /\ hreq.param \in Params
      /\ sessions[hreq.handle] \in Session
  BY RequestFields DEF IInv, Handling, SessionsOK, UpdateParam
<1> DEFINE o == [sessions[hreq.handle] EXCEPT !.param = hreq.param]
<1>2. /\ o \in Session /\ o.param = hreq.param /\ o.values = sessions[hreq.handle].values
      /\ SameTimes(o, sessions[hreq.handle])
  BY <1>1, SessionExcept
<1>3. sessions' = [sessions EXCEPT ![hreq.handle] = o]
  BY DEF UpdateParam
<1> HIDE DEF o
<1> QED BY <1>1, <1>2, <1>3 DEF Live, IInv, SessionsOK

\* The second half of update empties the values of one session.
LEMMA UpdateClearEffect ==
  ASSUME IInv, UpdateClear
  PROVE  /\ hreq.handle \in Live /\ Live' = Live
         /\ sessions' = [k \in Live |-> sessions'[k]]
         /\ \A k \in Live : k # hreq.handle => sessions'[k] = sessions[k]
         /\ sessions'[hreq.handle] \in Session
         /\ sessions'[hreq.handle].param = sessions[hreq.handle].param
         /\ sessions'[hreq.handle].values = <<>>
         /\ SameTimes(sessions'[hreq.handle], sessions[hreq.handle])
<1>1. hreq.handle \in Live /\ sessions[hreq.handle] \in Session
  BY DEF IInv, Critical, SessionsOK, UpdateClear
<1> DEFINE o == [sessions[hreq.handle] EXCEPT !.values = <<>>]
<1>2. /\ o \in Session /\ o.param = sessions[hreq.handle].param /\ o.values = <<>>
      /\ SameTimes(o, sessions[hreq.handle])
  BY <1>1, SessionExcept
<1>3. sessions' = [sessions EXCEPT ![hreq.handle] = o]
  BY DEF UpdateClear
<1> HIDE DEF o
<1> QED BY <1>1, <1>2, <1>3 DEF Live, IInv, SessionsOK

\* Between the halves only values of the old parameter may remain.
LEMMA UpdateStep ==
  ASSUME IInv, UpdateParam \/ UpdateClear
  PROVE  IInv'
<1>1. CASE UpdateParam
  <2>1. /\ hreq.handle \in Live /\ Live' = Live
        /\ sessions' = [k \in Live |-> sessions'[k]]
        /\ \A k \in Live : k # hreq.handle => sessions'[k] = sessions[k]
        /\ sessions'[hreq.handle] \in Session
    BY <1>1, UpdateParamEffect
  <2>2. /\ hpc = "update" /\ hpc' = "clear" /\ lock = "http"
        /\ tpc \notin TimerHolds /\ UNCHANGED <<lock, hreq, tpc>>
    BY <1>1 DEF UpdateParam, IInv, Exclusion, HttpHolds, timer_vars
  <2> QED BY <2>1, <2>2
       DEF IInv, Exclusion, Handling, Critical, SessionsOK, CollectedUnderParam, Live,
           HttpHolds, TimerHolds
<1>2. CASE UpdateClear
  <2>1. /\ hreq.handle \in Live /\ Live' = Live
        /\ sessions' = [k \in Live |-> sessions'[k]]
        /\ \A k \in Live : k # hreq.handle => sessions'[k] = sessions[k]
        /\ sessions'[hreq.handle] \in Session
        /\ sessions'[hreq.handle].values = <<>>
    BY <1>2, UpdateClearEffect
  <2>2. /\ hpc = "clear" /\ hpc' = "idle" /\ lock = "http" /\ lock' = "free"
        /\ tpc \notin TimerHolds /\ UNCHANGED tpc
    BY <1>2 DEF UpdateClear, Finish, IInv, Exclusion, HttpHolds, timer_vars
  <2> QED BY <2>1, <2>2
       DEF IInv, Exclusion, Handling, Critical, SessionsOK, CollectedUnderParam, Live,
           HttpHolds, TimerHolds
<1> QED BY <1>1, <1>2

\* A session that goes takes its values along.
LEMMA RemoveStep ==
  ASSUME IInv, Remove
  PROVE  /\ IInv'
         /\ Live' = Live \ {hreq.handle} /\ hreq.handle \in Live
         /\ \A k \in Live' : sessions'[k] = sessions[k]
<1>1. /\ sessions' = [k \in Live \ {hreq.handle} |-> sessions[k]]
      /\ Live' = Live \ {hreq.handle} /\ hreq.handle \in Live
  BY DEF Remove, Live
<1>2. /\ hpc = "remove" /\ hpc' = "idle" /\ lock = "http" /\ lock' = "free"
      /\ tpc \notin TimerHolds /\ UNCHANGED tpc
  BY DEF Remove, Finish, IInv, Exclusion, HttpHolds, timer_vars
<1> QED BY <1>1, <1>2
     DEF IInv, Exclusion, Handling, Critical, SessionsOK, CollectedUnderParam, Live,
         HttpHolds, TimerHolds

\* What each step of the clock does to the times of an observable.
ClockMoves(n, o) ==
    \/ /\ Tick
       /\ n.elapsed = AtMost(Cap, o.elapsed + 1) /\ n.gap = AtMost(Cap, o.gap + 1)
       /\ n.ahead = o.ahead /\ n.behind = o.behind
    \/ /\ ClockForward
       /\ n.elapsed = AtMost(Cap, o.elapsed + 1) /\ n.gap = o.gap
       /\ n.ahead = o.ahead + 1 /\ n.behind = o.behind
    \/ /\ ClockBack
       /\ n.elapsed = o.elapsed - 1 /\ n.gap = o.gap
       /\ n.ahead = o.ahead /\ (n.behind <=> o.behind \/ o.elapsed <= 0)

\* The clock changes the times of the observables only.
LEMMA ClockStep ==
  ASSUME IInv, Tick \/ ClockForward \/ ClockBack
  PROVE  /\ IInv'
         /\ Live' = Live /\ UNCHANGED <<hpc, hreq>>
         /\ \A h \in Live :
               /\ sessions'[h].param = sessions[h].param
               /\ sessions'[h].values = sessions[h].values
               /\ sessions'[h].interval = sessions[h].interval
               /\ ClockMoves(sessions'[h], sessions[h])
<1> DEFINE Kept(n, o) == n.param = o.param /\ n.values = o.values /\ n.interval = o.interval
<1>1. ASSUME NEW o \in Session
      PROVE  /\ o = [param |-> o.param, interval |-> o.interval, dev |-> o.dev,
                     values |-> o.values, elapsed |-> o.elapsed, gap |-> o.gap,
                     ahead |-> o.ahead, behind |-> o.behind]
             /\ o.param \in Params /\ o.interval \in Int /\ o.dev \in Devices
             /\ o.values \in Seq(Value) /\ o.elapsed \in Int /\ o.gap \in Int
             /\ o.ahead \in Int /\ o.behind \in BOOLEAN
             /\ AtMost(Cap, o.elapsed + 1) \in Int /\ AtMost(Cap, o.gap + 1) \in Int
             /\ o.elapsed - 1 \in Int /\ o.ahead + 1 \in Int
  BY NumbersAssumption DEF Session, AtMost
<1>2. ASSUME NEW o \in Session
      PROVE  LET n == [o EXCEPT !.elapsed = AtMost(Cap, @ + 1), !.gap = AtMost(Cap, @ + 1)]
             IN  /\ n \in Session /\ Kept(n, o)
                 /\ n.elapsed = AtMost(Cap, o.elapsed + 1) /\ n.gap = AtMost(Cap, o.gap + 1)
                 /\ n.ahead = o.ahead /\ n.behind = o.behind
  <2> DEFINE e == AtMost(Cap, o.elapsed + 1)
             g == AtMost(Cap, o.gap + 1)
  <2>1. SetGap(SetElapsed(o, e), g)
          = Rec(o.param, o.interval, o.dev, o.values, e, g, o.ahead, o.behind)
    BY SessionFields, Zenon
  <2>2. [o EXCEPT !.elapsed = e, !.gap = g] = SetGap(SetElapsed(o, e), g)
    BY DEF SetElapsed, SetGap
  <2>3. e \in Int /\ g \in Int
    BY <1>1
  <2> HIDE DEF e, g
  <2> QED BY <1>1, <2>1, <2>2, <2>3 DEF Session, e, g, Rec
<1>3. ASSUME NEW o \in Session
      PROVE  LET n == [o EXCEPT !.elapsed = AtMost(Cap, @ + 1), !.ahead = @ + 1]
             IN  /\ n \in Session /\ Kept(n, o)
                 /\ n.elapsed = AtMost(Cap, o.elapsed + 1) /\ n.gap = o.gap
                 /\ n.ahead = o.ahead + 1 /\ n.behind = o.behind
  <2> DEFINE e == AtMost(Cap, o.elapsed + 1)
             a == o.ahead + 1
  <2>1. SetAhead(SetElapsed(o, e), a)
          = Rec(o.param, o.interval, o.dev, o.values, e, o.gap, a, o.behind)
    BY SessionFields, Zenon
  <2>2. [o EXCEPT !.elapsed = e, !.ahead = a] = SetAhead(SetElapsed(o, e), a)
    BY DEF SetElapsed, SetAhead
  <2>3. e \in Int /\ a \in Int
    BY <1>1
  <2> HIDE DEF e, a
  <2> QED BY <1>1, <2>1, <2>2, <2>3 DEF Session, e, a, Rec
<1>4. ASSUME NEW o \in Session
      PROVE  LET n == [o EXCEPT !.elapsed = @ - 1, !.behind = @ \/ o.elapsed <= 0]
             IN  /\ n \in Session /\ Kept(n, o)
                 /\ n.elapsed = o.elapsed - 1 /\ n.gap = o.gap /\ n.ahead = o.ahead
                 /\ n.behind <=> o.behind \/ o.elapsed <= 0
  <2> DEFINE e == o.elapsed - 1
  <2>1. PICK b : b = (o.behind \/ o.elapsed <= 0)
    OBVIOUS
  <2>2. e \in Int /\ b \in BOOLEAN /\ e = o.elapsed - 1
    BY <1>1, <2>1
  <2> HIDE DEF e
  <2>3. SetBehind(SetElapsed(o, e), b)
          = Rec(o.param, o.interval, o.dev, o.values, e, o.gap, o.ahead, b)
    BY SessionFields
  <2>4. [o EXCEPT !.elapsed = e, !.behind = b] = SetBehind(SetElapsed(o, e), b)
    BY DEF SetElapsed, SetBehind
  <2>5. [o EXCEPT !.elapsed = e, !.behind = b] \in Session
    BY <1>1, <2>2, <2>3, <2>4 DEF Session, Rec
  <2>6. [o EXCEPT !.elapsed = @ - 1, !.behind = @ \/ o.elapsed <= 0]
          = [o EXCEPT !.elapsed = e, !.behind = b]
    BY <2>1, <2>2
  <2> QED BY <1>1, <2>1, <2>2, <2>3, <2>4, <2>5, <2>6 DEF Rec
<1>5. /\ Live' = Live /\ sessions' = [h \in Live |-> sessions'[h]]
      /\ \A h \in Live : sessions[h] \in Session
  BY DEF Tick, ClockForward, ClockBack, Live, IInv, SessionsOK
<1>7. ASSUME NEW h \in Live
      PROVE  /\ sessions'[h] \in Session
             /\ sessions'[h].param = sessions[h].param
             /\ sessions'[h].values = sessions[h].values
             /\ sessions'[h].interval = sessions[h].interval
             /\ ClockMoves(sessions'[h], sessions[h])
  <2>1. CASE Tick
    <3>1. sessions'[h] = [sessions[h] EXCEPT !.elapsed = AtMost(Cap, @ + 1),
                                             !.gap = AtMost(Cap, @ + 1)]
      BY <2>1 DEF Tick
    <3> QED BY <1>2, <1>5, <2>1, <3>1, Zenon DEF ClockMoves
  <2>2. CASE ClockForward
    <3>1. sessions'[h] = [sessions[h] EXCEPT !.elapsed = AtMost(Cap, @ + 1), !.ahead = @ + 1]
      BY <2>2 DEF ClockForward
    <3> QED BY <1>3, <1>5, <2>2, <3>1, Zenon DEF ClockMoves
  <2>3. CASE ClockBack
    <3>1. sessions'[h] = [sessions[h] EXCEPT !.elapsed = @ - 1,
                                             !.behind = @ \/ sessions[h].elapsed <= 0]
      BY <2>3, Zenon DEF ClockBack
    <3> QED BY <1>4, <1>5, <2>3, <3>1, Zenon DEF ClockMoves
  <2> QED BY <2>1, <2>2, <2>3
<1>8. UNCHANGED <<lock, hpc, hreq, tpc, cur, value>>
  BY DEF Tick, ClockForward, ClockBack, http_vars, timer_vars, emit_vars
<1>9. Exclusion' /\ Handling'
  BY <1>8 DEF IInv, Exclusion, Handling
<1>10. /\ \A h \in Live : /\ sessions'[h] \in Session
                          /\ sessions'[h].param = sessions[h].param
                          /\ sessions'[h].values = sessions[h].values
  BY <1>7, Zenon
<1>11. Critical' /\ SessionsOK' /\ CollectedUnderParam'
  BY <1>5, <1>8, <1>10 DEF IInv, Critical, SessionsOK, CollectedUnderParam, Live
<1> QED BY <1>5, <1>7, <1>8, <1>9, <1>11, Zenon DEF IInv

-----------------------------------------------------------------------------
\* The inductive invariant.

\* Every step keeps the invariant.
LEMMA NextIInv == IInv /\ [Next]_vars => IInv'
<1> SUFFICES ASSUME IInv, [Next]_vars PROVE IInv'
  OBVIOUS
<1>1. CASE HttpQuiet \/ HttpEnds \/ HttpLock
  BY <1>1, HttpQuietStep, HttpEndsStep, HttpLockStep
<1>2. CASE TimerQuiet \/ TimerLock \/ Fetch \/ NotDue \/ Gone
  BY <1>2, TimerQuietStep, TimerLockStep
<1>3. CASE \E ok \in BOOLEAN : Extract(ok)
  BY <1>3, ExtractStep
<1>4. CASE AddValue
  BY <1>4, AddValueStep
<1>5. CASE \E h \in Handles : AddCreate(h)
  BY <1>5, AddCreateStep
<1>6. CASE UpdateParam \/ UpdateClear
  BY <1>6, UpdateStep
<1>7. CASE Remove
  BY <1>7, RemoveStep
<1>8. CASE Tick \/ ClockForward \/ ClockBack
  BY <1>8, ClockStep
<1>9. CASE UNCHANGED vars
  BY <1>9 DEF vars, http_vars, timer_vars, emit_vars, IInv, Exclusion, SessionsOK, Handling,
              Critical, CollectedUnderParam, Live
<1> QED BY <1>1, <1>2, <1>3, <1>4, <1>5, <1>6, <1>7, <1>8, <1>9
     DEF Next, HttpStep, TimerStep, Answer, HttpQuiet, HttpEnds, TimerQuiet

\* So it holds throughout.
LEMMA InductiveInvariant == Spec => []IInv
BY InitIInv, NextIInv, PTL DEF Spec

-----------------------------------------------------------------------------
\* The results.

\* Whatever requests arrive and however the threads interleave, the values
\* kept under an observable were collected for the parameter it shows: the
\* mutex, held from before the device is asked until the value is stored,
\* keeps update-observable out.
THEOREM ValuesMatchParam == Spec => []CollectedUnderParam
BY InductiveInvariant, PTL DEF IInv

\* The mutex excludes: the HTTP thread is never inside a handler's critical
\* section while the timer thread is inside the callback's.
THEOREM MutualExclusion == Spec => []~(hpc \in HttpHolds /\ tpc \in TimerHolds)
<1>1. IInv => ~(hpc \in HttpHolds /\ tpc \in TimerHolds)
  BY DEF IInv, Exclusion
<1> QED BY <1>1, InductiveInvariant, PTL

-----------------------------------------------------------------------------
\* Refinement of the atomic store.

\* The counts of the two modules are the same operator.
LEMMA StoreCardinality == \A S : Store!Cardinality(S) = Cardinality(S)
BY DEF Store!Cardinality, Cardinality, Store!IsFiniteSet, IsFiniteSet

\* The abstract value a state stands for.
View == [h \in Live |->
           [param  |-> sessions[h].param,
            values |-> IF hpc = "clear" /\ hreq.handle = h THEN <<>>
                       ELSE sessions[h].values]]

\* Creating a session is an addition to the store.
LEMMA AddRefines ==
  ASSUME IInv, NEW h \in Handles, AddCreate(h)
  PROVE  Store!Next
<1>1. /\ Live' = Live \cup {h} /\ h \notin Live
      /\ \A k \in Live : sessions'[k] = sessions[k]
      /\ sessions'[h].param = hreq.param /\ sessions'[h].values = <<>>
  BY AddCreateEffect
<1>2. /\ hpc = "add" /\ hpc' = "connect" /\ hreq' = hreq
      /\ Cardinality(Live) < MaxSessions
  BY DEF AddCreate
<1>3. PICK p \in Params : p = hreq.param
  BY <1>2, RequestFields DEF IInv, Handling
<1>4. DOMAIN View = Live
  BY DEF View
<1>5. View' = [k \in Live \cup {h} |-> IF k = h THEN [param |-> hreq.param, values |-> <<>>]
                                                ELSE View[k]]
  BY <1>1, <1>2 DEF View
<1>6. Store!Add(h, p)
  BY <1>1, <1>2, <1>3, <1>4, <1>5, StoreCardinality DEF Store!Add, Store!Live, View
<1> QED BY <1>3, <1>6, Zenon DEF Store!Next

\* Writing the parameter is the update of the store.
LEMMA UpdateRefines ==
  ASSUME IInv, UpdateParam
  PROVE  Store!Next
<1>1. /\ hreq.handle \in Live /\ Live' = Live /\ hreq.param \in Params
      /\ \A k \in Live : k # hreq.handle => sessions'[k] = sessions[k]
      /\ sessions'[hreq.handle].param = hreq.param
  BY UpdateParamEffect
<1>2. /\ hpc = "update" /\ hpc' = "clear" /\ hreq' = hreq
      /\ sessions[hreq.handle].param # hreq.param
  BY DEF UpdateParam
<1>3. PICK h \in Handles, p \in Params : h = hreq.handle /\ p = hreq.param
  BY <1>1 DEF IInv, SessionsOK
<1>4. DOMAIN View = Live /\ View[hreq.handle].param # hreq.param
  BY <1>1, <1>2 DEF View
<1>5. View' = [View EXCEPT ![hreq.handle] = [param |-> hreq.param, values |-> <<>>]]
  BY <1>1, <1>2 DEF View
<1>6. Store!Update(h, p)
  BY <1>1, <1>3, <1>4, <1>5 DEF Store!Update, Store!Live, View
<1> QED BY <1>3, <1>6, Zenon DEF Store!Next

\* Erasing a session is a removal from the store.
LEMMA RemoveRefines ==
  ASSUME IInv, Remove
  PROVE  Store!Next
<1>1. /\ Live' = Live \ {hreq.handle} /\ hreq.handle \in Live
      /\ \A k \in Live' : sessions'[k] = sessions[k]
  BY RemoveStep
<1>2. hpc = "remove" /\ hpc' = "idle"
  BY DEF Remove, Finish
<1>3. PICK h \in Handles : h = hreq.handle
  BY <1>1 DEF IInv, SessionsOK
<1>4. DOMAIN View = Live
  BY DEF View
<1>5. View' = [k \in Live \ {hreq.handle} |-> View[k]]
  BY <1>1, <1>2 DEF View
<1>6. Store!Remove(h)
  BY <1>1, <1>3, <1>4, <1>5 DEF Store!Remove, Store!Live, View
<1> QED BY <1>3, <1>6, Zenon DEF Store!Next

\* Storing a value is an observation.
LEMMA ObserveRefines ==
  ASSUME IInv, AddValue
  PROVE  Store!Next
<1>1. /\ cur \in Live /\ Live' = Live
      /\ sessions' = [sessions EXCEPT ![cur] = sessions'[cur]]
      /\ sessions'[cur].param = sessions[cur].param
      /\ sessions'[cur].values = Push(sessions[cur].values, value)
  BY AddValueEffect
<1>2. /\ hpc # "clear" /\ hpc' # "clear"
      /\ value \in Value /\ value.param = sessions[cur].param
  BY DEF AddValue, IInv, Exclusion, Critical, HttpHolds, TimerHolds, http_vars
<1>3. /\ value = [param |-> sessions[cur].param, ok |-> value.ok] /\ value.ok \in BOOLEAN
  BY <1>2 DEF Value
<1>4. /\ DOMAIN View = Live /\ cur \in Handles
      /\ View[cur] = [param |-> sessions[cur].param, values |-> sessions[cur].values]
  BY <1>1, <1>2 DEF View, IInv, SessionsOK
<1>5. \A k \in Live : k # cur => sessions'[k] = sessions[k]
  BY <1>1 DEF IInv, SessionsOK
<1>6. View' = [View EXCEPT ![cur] = [param |-> sessions[cur].param,
                                     values |-> Push(sessions[cur].values, value)]]
  BY <1>1, <1>2, <1>5 DEF View
<1>7. View' = [View EXCEPT ![cur].values =
                  Store!Push(@, [param |-> View[cur].param, ok |-> value.ok])]
  <2>1. View[cur].param = sessions[cur].param /\ View[cur].values = sessions[cur].values
    BY <1>4
  <2>2. Store!Push(View[cur].values, [param |-> View[cur].param, ok |-> value.ok])
          = Push(sessions[cur].values, value)
    BY <1>3, <2>1 DEF Push, Store!Push
  <2>3. [View[cur] EXCEPT !.values = Push(sessions[cur].values, value)]
          = [param |-> sessions[cur].param, values |-> Push(sessions[cur].values, value)]
    BY <1>4
  <2> QED BY <1>6, <2>1, <2>2, <2>3
<1>8. PICK h \in Handles, ok \in BOOLEAN : h = cur /\ ok = value.ok
  BY <1>3, <1>4
<1>9. Store!Observe(h, ok)
  BY <1>1, <1>4, <1>7, <1>8 DEF Store!Observe, Store!Live, View
<1> QED BY <1>8, <1>9, Zenon DEF Store!Next

\* All other steps leave the store as it is: taking and releasing the mutex,
\* connect and disconnect, the second half of an update, the clock.
LEMMA StoreUntouched ==
  ASSUME IInv,
         \/ UNCHANGED sessions /\ ~(hpc = "clear") /\ ~(hpc' = "clear")
         \/ UNCHANGED <<sessions, hpc, hreq>>
         \/ UpdateClear
         \/ Tick \/ ClockForward \/ ClockBack
  PROVE  View' = View
<1>1. CASE UNCHANGED sessions /\ ~(hpc = "clear") /\ ~(hpc' = "clear")
  BY <1>1 DEF View, Live
<1>2. CASE UNCHANGED <<sessions, hpc, hreq>>
  BY <1>2 DEF View, Live
<1>3. CASE UpdateClear
  <2>1. /\ hreq.handle \in Live /\ Live' = Live
        /\ \A k \in Live : k # hreq.handle => sessions'[k] = sessions[k]
        /\ sessions'[hreq.handle].param = sessions[hreq.handle].param
        /\ sessions'[hreq.handle].values = <<>>
    BY <1>3, UpdateClearEffect
  <2>2. hpc = "clear" /\ hpc' = "idle"
    BY <1>3 DEF UpdateClear, Finish
  <2> QED BY <2>1, <2>2 DEF View
<1>4. CASE Tick \/ ClockForward \/ ClockBack
  <2>1. /\ Live' = Live /\ UNCHANGED <<hpc, hreq>>
        /\ \A h \in Live : /\ sessions'[h].param = sessions[h].param
                           /\ sessions'[h].values = sessions[h].values
    BY <1>4, ClockStep
  <2> QED BY <2>1 DEF View
<1> QED BY <1>1, <1>2, <1>3, <1>4

\* Handlers and timer implement the atomic store: each operation takes effect
\* at one step, and nothing the unguarded signal goes through shows in it.
THEOREM GatewayImplementsStore == Spec => ImplementsStore
<1>1. Init => Store!Init
  BY DEF Init, Store!Init, Live
<1>2. IInv /\ [Next]_vars => [Store!Next]_View
  <2> SUFFICES ASSUME IInv, [Next]_vars PROVE [Store!Next]_View
    OBVIOUS
  <2>1. CASE HttpQuiet \/ HttpEnds \/ HttpLock
    BY <2>1, HttpQuietStep, HttpEndsStep, HttpLockStep, StoreUntouched
  <2>2. CASE TimerQuiet \/ TimerLock \/ Fetch \/ NotDue \/ Gone
    BY <2>2, TimerQuietStep, TimerLockStep, StoreUntouched
  <2>3. CASE \E ok \in BOOLEAN : Extract(ok)
    BY <2>3, ExtractStep, StoreUntouched
  <2>4. CASE AddValue
    BY <2>4, ObserveRefines
  <2>5. CASE \E h \in Handles : AddCreate(h)
    BY <2>5, AddRefines
  <2>6. CASE UpdateParam
    BY <2>6, UpdateRefines
  <2>7. CASE Remove
    BY <2>7, RemoveRefines
  <2>8. CASE UpdateClear \/ Tick \/ ClockForward \/ ClockBack
    BY <2>8, StoreUntouched
  <2>9. CASE UNCHANGED vars
    BY <2>9, StoreUntouched DEF vars, http_vars
  <2> QED BY <2>1, <2>2, <2>3, <2>4, <2>5, <2>6, <2>7, <2>8, <2>9
       DEF Next, HttpStep, TimerStep, Answer, HttpQuiet, HttpEnds, TimerQuiet
<1> QED BY <1>1, <1>2, InductiveInvariant, PTL DEF Spec, ImplementsStore, Store!Spec, View
-----------------------------------------------------------------------------
\* The spacing of values, on a clock that may be set.

\* As far after its latest observation as its interval asks, less what the
\* clock was set forward since; or the clock was set back behind it.
FarEnough(o) == o.gap + o.ahead >= o.interval \/ o.behind

\* elapsed, which the callback compares with the interval, exceeds the time
\* really passed by no more than the clock was set forward, and is negative
\* only if it was set back behind the observation; and an observable once
\* found due stays due until its value is stored.
Measured ==
    \A h \in Live :
        /\ sessions[h].interval \in 0..Cap
        /\ sessions[h].gap \in 0..Cap
        /\ sessions[h].ahead \in Nat
        /\ sessions[h].elapsed <= sessions[h].gap + sessions[h].ahead
        /\ sessions[h].elapsed < 0 => sessions[h].behind

StaysDue == tpc \in {"fetch", "add"} => FarEnough(sessions[cur])

Times == Measured /\ StaysDue

\* A step that leaves the times of the observables alone, and does not find
\* one due.
LEMMA TimesUntouched ==
  ASSUME IInv, Times, Live' \subseteq Live,
         \A h \in Live' : SameTimes(sessions'[h], sessions[h]),
         tpc' \in {"fetch", "add"} =>
             tpc \in {"fetch", "add"} /\ cur' = cur /\ cur \in Live'
  PROVE  Times'
BY DEF Times, Measured, StaysDue, FarEnough, SameTimes

\* Only AddValue stores a value; what it overwrites was due.
LEMMA StoredWhenDue ==
  ASSUME IInv, Times, [Next]_vars,
         NEW h \in Live, h \in Live',
         sessions'[h].values \notin {sessions[h].values, <<>>}
  PROVE  FarEnough(sessions[h])
<1>1. CASE AddValue
  <2>1. sessions' = [sessions EXCEPT ![cur] = sessions'[cur]] /\ tpc = "add"
    BY <1>1, AddValueEffect DEF AddValue
  <2>2. h = cur
    BY <2>1 DEF IInv, SessionsOK
  <2> QED BY <2>1, <2>2 DEF Times, StaysDue
<1>2. CASE HttpQuiet \/ HttpEnds \/ HttpLock
  BY <1>2, HttpQuietStep, HttpEndsStep, HttpLockStep
<1>3. CASE TimerQuiet \/ TimerLock \/ Fetch \/ NotDue \/ Gone
  BY <1>3, TimerQuietStep, TimerLockStep
<1>4. CASE \E ok \in BOOLEAN : Extract(ok)
  BY <1>4, ExtractStep
<1>5. CASE \E k \in Handles : AddCreate(k)
  BY <1>5, AddCreateEffect
<1>6. CASE UpdateParam
  BY <1>6, UpdateParamEffect
<1>7. CASE UpdateClear
  BY <1>7, UpdateClearEffect
<1>8. CASE Remove
  BY <1>8, RemoveStep
<1>9. CASE Tick \/ ClockForward \/ ClockBack
  BY <1>9, ClockStep
<1>10. CASE UNCHANGED vars
  BY <1>10 DEF vars
<1> QED BY <1>1, <1>2, <1>3, <1>4, <1>5, <1>6, <1>7, <1>8, <1>9, <1>10
     DEF Next, HttpStep, TimerStep, Answer, HttpQuiet, HttpEnds, TimerQuiet

\* A second more, or the clock set by a second: the measure stays good.
LEMMA MeasureMoves ==
  ASSUME NEW e \in Int, NEW g \in 0..Cap, NEW a \in Nat, NEW n \in 0..Cap,
         e <= g + a
  PROVE  /\ AtMost(Cap, g + 1) \in 0..Cap
         /\ AtMost(Cap, e + 1) <= AtMost(Cap, g + 1) + a
         /\ AtMost(Cap, e + 1) <= g + (a + 1)
         /\ a + 1 \in Nat /\ e - 1 <= g + a
         /\ AtMost(Cap, e + 1) < 0 => e < 0
         /\ e - 1 < 0 => e <= 0
         /\ g + a >= n => AtMost(Cap, g + 1) + a >= n /\ g + (a + 1) >= n
BY NumbersAssumption DEF AtMost

\* Every step keeps the times right.
LEMMA NextTimes ==
  ASSUME IInv, Times, [Next]_vars
  PROVE  Times'
<1>1. CASE \/ HttpQuiet \/ HttpEnds \/ HttpLock \/ UpdateParam \/ UpdateClear \/ Remove
  <2>1. UNCHANGED timer_vars
    BY <1>1 DEF HttpQuiet, HttpEnds, HttpLock, UpdateParam, UpdateClear, Remove, Receive,
         ConnectLoad, ConnectAdvance, ConnectStore, ConnectCount, ConnectCorrupt, MapRace,
         AddRefused, ConnectRefused, AddMap, UnknownHandle, UpdateSame, Read, Once
  <2>2. Live' \subseteq Live /\ Critical'
    BY <1>1, HttpQuietStep, HttpEndsStep, HttpLockStep, UpdateStep, UpdateParamEffect,
       UpdateClearEffect, RemoveStep DEF Live, IInv
  <2>3. \A h \in Live' : SameTimes(sessions'[h], sessions[h])
    <3>1. CASE HttpQuiet \/ HttpEnds \/ HttpLock \/ Remove
      BY <3>1, HttpQuietStep, HttpEndsStep, HttpLockStep, RemoveStep DEF SameTimes
    <3>2. CASE UpdateParam \/ UpdateClear
      <4>1. /\ SameTimes(sessions'[hreq.handle], sessions[hreq.handle]) /\ Live' = Live
            /\ \A k \in Live : k # hreq.handle => sessions'[k] = sessions[k]
        BY <3>2, UpdateParamEffect, UpdateClearEffect
      <4> QED BY <4>1 DEF SameTimes
    <3> QED BY <1>1, <3>1, <3>2
  <2> QED BY <2>1, <2>2, <2>3, TimesUntouched DEF timer_vars, emit_vars, Critical
<1>2. CASE TimerQuiet \/ TimerLock \/ NotDue \/ Gone
  <2>1. sessions' = sessions
    BY <1>2, TimerQuietStep, TimerLockStep
  <2>2. tpc' \notin {"fetch", "add"}
    BY <1>2 DEF TimerQuiet, EmitBegin, EmitSkip, EmitCall, EmitEnd, Lookup, DisconnectThrows,
         DisconnectLoad, DisconnectRelink, DisconnectLink, DisconnectCount, Erase, Return,
         Scanning, TimerLock, NotDue, Gone, timer_vars
  <2> QED BY <2>1, <2>2, TimesUntouched DEF Live, SameTimes
<1>3. CASE Fetch
  <2>1. UNCHANGED <<sessions, cur>> /\ cur \in Live /\ Due(sessions[cur])
    BY <1>3 DEF Fetch, emit_vars
  <2>2. sessions[cur] \in Session
    BY <2>1 DEF IInv, SessionsOK
  <2>3. FarEnough(sessions[cur])
    <3>1. CASE sessions[cur].elapsed < 0
      BY <2>1, <3>1 DEF FarEnough, Times, Measured
    <3>2. CASE sessions[cur].elapsed >= sessions[cur].interval
      <4>1. /\ sessions[cur].elapsed <= sessions[cur].gap + sessions[cur].ahead
            /\ sessions[cur].elapsed \in Int /\ sessions[cur].gap \in Int
            /\ sessions[cur].ahead \in Int /\ sessions[cur].interval \in Int
        BY <2>1, <2>2 DEF Times, Measured, Session
      <4>2. sessions[cur].gap + sessions[cur].ahead >= sessions[cur].interval
        BY <3>2, <4>1
      <4> QED BY <4>2 DEF FarEnough
    <3> QED BY <2>1, <3>1, <3>2 DEF Due
  <2> QED BY <2>1, <2>3 DEF Times, Measured, StaysDue, FarEnough, Live
<1>4. CASE \E ok \in BOOLEAN : Extract(ok)
  <2>1. UNCHANGED <<sessions, cur>> /\ tpc = "fetch" /\ cur \in Live
    BY <1>4 DEF Extract, IInv, Critical
  <2> QED BY <2>1, TimesUntouched DEF Live, SameTimes
<1>5. CASE AddValue
  <2>1. /\ cur \in Live /\ Live' = Live /\ tpc' = "scan"
        /\ sessions' = [sessions EXCEPT ![cur] = sessions'[cur]]
        /\ sessions'[cur].interval = sessions[cur].interval
        /\ sessions'[cur].elapsed = 0 /\ sessions'[cur].gap = 0 /\ sessions'[cur].ahead = 0
    BY <1>5, AddValueEffect DEF AddValue, Return
  <2>2. \A h \in Live : h # cur => sessions'[h] = sessions[h]
    BY <2>1 DEF IInv, SessionsOK
  <2>3. 0 \in 0..Cap /\ 0 \in Nat /\ 0 <= 0 + 0 /\ ~(0 < 0)
    BY NumbersAssumption
  <2>4. StaysDue'
    BY <2>1 DEF StaysDue
  <2>5. Measured'
    BY <2>1, <2>2, <2>3 DEF Times, Measured
  <2> QED BY <2>4, <2>5 DEF Times
<1>6. CASE \E h \in Handles : AddCreate(h)
  <2>1. PICK h \in Handles : AddCreate(h)
    BY <1>6
  <2>2. hreq \in Requests /\ hreq.op = "add"
    BY <2>1 DEF IInv, Handling, AddCreate
  <2>3. hreq.interval \in 0..Cap
    BY <2>2, RequestsAssumption, NumbersAssumption DEF AddRequests
  <2>4. /\ Live' = Live \cup {h} /\ h \notin Live
        /\ \A k \in Live : sessions'[k] = sessions[k]
        /\ sessions'[h].interval = hreq.interval /\ sessions'[h].ahead = 0
        /\ sessions'[h].elapsed = 0 /\ sessions'[h].gap = 0
    BY <2>1, AddCreateEffect
  <2>5. tpc' \in {"fetch", "add"} => tpc' = tpc /\ cur' = cur /\ cur \in Live
    BY <2>1 DEF AddCreate, emit_vars, IInv, Critical
  <2>6. 0 \in 0..Cap /\ 0 \in Nat /\ 0 <= 0 + 0 /\ ~(0 < 0)
    BY NumbersAssumption
  <2>7. Measured'
    BY <2>3, <2>4, <2>6 DEF Times, Measured
  <2>8. StaysDue'
    BY <2>4, <2>5 DEF Times, StaysDue, FarEnough
  <2> QED BY <2>7, <2>8 DEF Times
<1>7. CASE Tick \/ ClockForward \/ ClockBack
  <2>1. /\ Live' = Live /\ UNCHANGED <<tpc, cur>>
        /\ \A h \in Live : sessions[h] \in Session
    BY <1>7, ClockStep
       DEF Tick, ClockForward, ClockBack, IInv, SessionsOK, timer_vars, emit_vars
  <2>2. ASSUME NEW h \in Live
        PROVE  /\ sessions'[h].interval \in 0..Cap /\ sessions'[h].gap \in 0..Cap
               /\ sessions'[h].ahead \in Nat
               /\ sessions'[h].elapsed <= sessions'[h].gap + sessions'[h].ahead
               /\ sessions'[h].elapsed < 0 => sessions'[h].behind
               /\ FarEnough(sessions[h]) => FarEnough(sessions'[h])
    <3> DEFINE e == sessions[h].elapsed
               g == sessions[h].gap
               a == sessions[h].ahead
               n == sessions[h].interval
               b == sessions[h].behind
               nb == sessions'[h].behind
    <3>1. e \in Int /\ g \in 0..Cap /\ a \in Nat /\ n \in 0..Cap /\ e <= g + a
      BY <2>1 DEF Times, Measured, Session
    <3>2. e < 0 => b
      BY DEF Times, Measured
    <3>3. sessions'[h].interval = n /\ ClockMoves(sessions'[h], sessions[h])
      BY <1>7, ClockStep, Zenon
    <3> HIDE DEF e, g, a, n, b, nb
    <3>4. /\ AtMost(Cap, g + 1) \in 0..Cap
          /\ AtMost(Cap, e + 1) <= AtMost(Cap, g + 1) + a
          /\ AtMost(Cap, e + 1) <= g + (a + 1)
          /\ a + 1 \in Nat /\ e - 1 <= g + a
          /\ AtMost(Cap, e + 1) < 0 => e < 0
          /\ e - 1 < 0 => e <= 0
          /\ g + a >= n => AtMost(Cap, g + 1) + a >= n /\ g + (a + 1) >= n
      BY <3>1, MeasureMoves
    <3>6. /\ FarEnough(sessions[h]) <=> g + a >= n \/ b
          /\ FarEnough(sessions'[h]) <=> \/ sessions'[h].gap + sessions'[h].ahead >= n
                                         \/ nb
      BY <3>3 DEF FarEnough, g, a, n, b, nb
    <3>7. \/ /\ sessions'[h].elapsed = AtMost(Cap, e + 1)
             /\ sessions'[h].gap = AtMost(Cap, g + 1) /\ sessions'[h].ahead = a
             /\ nb = b
          \/ /\ sessions'[h].elapsed = AtMost(Cap, e + 1)
             /\ sessions'[h].gap = g /\ sessions'[h].ahead = a + 1
             /\ nb = b
          \/ /\ sessions'[h].elapsed = e - 1
             /\ sessions'[h].gap = g /\ sessions'[h].ahead = a
             /\ nb <=> b \/ e <= 0
      BY <3>3, Zenon DEF ClockMoves, e, g, a, b, nb
    <3> QED BY <3>1, <3>2, <3>3, <3>4, <3>6, <3>7, Zenon DEF nb
  <2>3. tpc \in {"fetch", "add"} => cur \in Live
    BY DEF IInv, Critical
  <2>4. Measured'
    BY <2>1, <2>2, Zenon DEF Measured
  <2>5. StaysDue'
    BY <2>1, <2>2, <2>3, Zenon DEF Times, StaysDue
  <2> QED BY <2>4, <2>5 DEF Times
<1>8. CASE UNCHANGED vars
  <2>1. UNCHANGED <<sessions, tpc, cur>>
    BY <1>8 DEF vars, timer_vars, emit_vars
  <2> QED BY <2>1, TimesUntouched DEF Live, SameTimes, IInv, Critical
<1> QED BY <1>1, <1>2, <1>3, <1>4, <1>5, <1>6, <1>7, <1>8
     DEF Next, HttpStep, TimerStep, Answer, HttpQuiet, HttpEnds, TimerQuiet

\* Two values of an observable are at least its interval apart, less what the
\* system clock was set forward in between and but for a clock set back behind
\* the first of them: whatever requests arrive, however often the timer runs
\* its callback, and whatever becomes of the signal that holds it.
THEOREM ReadingsSpaced == Spec => Spaced
<1>1. Init => Times
  BY DEF Init, Times, Measured, StaysDue, Live
<1>2. IInv /\ Times /\ [Next]_vars => Times'
  BY NextTimes
<1>3. IInv /\ Times /\ [Next]_vars =>
        [\A h \in Live \cap DOMAIN sessions' :
            sessions'[h].values \notin {sessions[h].values, <<>>} =>
              \/ sessions[h].gap + sessions[h].ahead >= sessions[h].interval
              \/ sessions[h].behind]_vars
  BY StoredWhenDue DEF Live, FarEnough
<1> QED BY <1>1, <1>2, <1>3, InductiveInvariant, PTL DEF Spec, Spaced

-----------------------------------------------------------------------------
\* Counters, clocks and places, whatever clients do.

\* Where the HTTP thread has a new observable at hand.
HasNew == {"connect", "advance", "store", "count", "map"}

\* The places of the timer thread inside a callback, and those after the
\* callback has found its observable gone.
Pruning == {"lookup", "disconnect", "relink", "link", "uncount", "erase"}
Calls   == {"lock", "body", "fetch", "add"} \cup Pruning

\* An add that is on its way either counts or will be refused.
MayAdd == adds < MaxAdds \/ Cardinality(Live) >= MaxSessions

Counters ==
    /\ adds \in 0..MaxAdds
    /\ hpc = "add" => MayAdd
    /\ hpc = "lock" /\ hreq.op = "add" => MayAdd
    /\ back \in Nat /\ back <= MaxBack
    /\ forth \in Nat /\ forth <= MaxForward
    /\ since \in Int /\ since + back >= 0 /\ since <= 1 + MaxBack

Observed ==
    /\ Cardinality(Live) <= MaxSessions
    /\ \A h \in Live :
          /\ sessions[h].interval \in 0..Cap
          /\ sessions[h].elapsed + back >= 0 /\ sessions[h].elapsed <= Cap
          /\ sessions[h].gap \in 0..Cap
          /\ sessions[h].ahead \in Nat /\ sessions[h].ahead <= forth
          /\ Len(sessions[h].values) <= ValuesCap

Places ==
    /\ fate \in {"running", "terminated", "undefined"}
    /\ hpc \in {"idle", "lock", "once"} \cup HttpHolds
    /\ hreq \in Requests \cup {None}
    /\ hnew \in Handles \cup {None}
    /\ hpc \in HasNew => hnew \in Handles
    /\ reply \in {"none", "pending", "success", "data", "not found", "dropped"}
    /\ tpc \in {"absent", "sleep", "scan"} \cup Calls
    /\ pos \in 0..UpperLimit+1
    /\ tpc \in Calls => pos \in Slots /\ cur \in Handles
    /\ cur \in Handles \cup {None}
    /\ value \in Value \cup {None}
    /\ owed \subseteq Slots

Flags == /\ mishaps \subseteq {"overlap", "reuse", "stray"}
         /\ refused \subseteq Handles /\ joined \in BOOLEAN

Ranges == Counters /\ Observed /\ Places /\ Flags

\* A value more fits: at the capacity Push forgets the oldest.
LEMMA PushLength ==
  ASSUME NEW S, NEW q \in Seq(S), NEW v \in S, Len(q) <= ValuesCap
  PROVE  Len(Push(q, v)) <= ValuesCap
<1>1. CASE Len(q) < ValuesCap
  BY <1>1, NumbersAssumption DEF Push
<1>2. CASE ~(Len(q) < ValuesCap)
  <2>1. q # <<>> /\ Len(q) \in Nat /\ Len(q) >= 1
    BY <1>2, NumbersAssumption
  <2>2. Tail(q) \in Seq(S) /\ Len(Tail(q)) = Len(q) - 1
    BY <2>1
  <2>3. Len(Append(Tail(q), v)) = Len(q)
    BY <2>1, <2>2
  <2> QED BY <1>2, <2>3 DEF Push
<1> QED BY <1>1, <1>2

\* The bounds that hold of the counters and clocks.
LEMMA CountersStep ==
  ASSUME IInv, Counters, Places, [Next]_vars
  PROVE  Counters'
<1> USE NumbersAssumption
<1>1. CASE \E r \in Requests : Receive(r)
  <2>1. PICK r \in Requests : Receive(r)
    BY <1>1
  <2>2. /\ hreq' = r /\ hpc' # "add" /\ UNCHANGED <<adds, sessions, since, back, forth>>
        /\ r.op = "add" => MayAdd
    BY <2>1 DEF Receive, clock_vars, load_vars, MayAdd
  <2> QED BY <2>2 DEF Counters, MayAdd, Live
<1>2. CASE HttpLock
  <2>1. /\ hpc = "lock" /\ hpc' = hreq.op /\ hpc' # "lock"
        /\ UNCHANGED <<hreq, adds, sessions, since, back, forth>>
    BY <1>2, RequestFields DEF HttpLock, clock_vars, load_vars, IInv, Handling
  <2> QED BY <2>1 DEF Counters, MayAdd, Live
<1>3. CASE \E h \in Handles : AddCreate(h)
  <2>1. /\ hpc = "add" /\ hpc' = "connect" /\ adds' = adds + 1
        /\ Cardinality(Live) < MaxSessions /\ UNCHANGED <<since, back, forth>>
    BY <1>3 DEF AddCreate, clock_vars
  <2>2. Cardinality(Live) \in Nat /\ MaxSessions \in Nat
    BY HandlesAssumption, FS_Subset, FS_CardinalityType DEF IInv, SessionsOK
  <2>3. adds < MaxAdds
    BY <2>1, <2>2 DEF Counters, MayAdd
  <2> QED BY <2>1, <2>3 DEF Counters
<1>4. CASE \/ HttpEnds \/ UpdateClear \/ Remove
  <2>1. hpc' = "idle" /\ UNCHANGED <<adds, clock_vars>>
    BY <1>4 DEF HttpEnds, AddRefused, ConnectRefused, AddMap, UnknownHandle, UpdateSame,
         Read, Once, UpdateClear, Remove, Finish, load_vars
  <2> QED BY <2>1 DEF Counters, clock_vars
<1>5. CASE \/ ConnectLoad \/ ConnectAdvance \/ ConnectStore \/ ConnectCount \/ UpdateParam
  <2>1. hpc' \notin {"add", "lock"} /\ UNCHANGED <<adds, clock_vars>>
    BY <1>5 DEF ConnectLoad, ConnectAdvance, ConnectStore, ConnectCount, UpdateParam, load_vars
  <2> QED BY <2>1 DEF Counters, clock_vars
<1>6. CASE \/ ConnectCorrupt \/ MapRace \/ TimerQuiet \/ TimerLock \/ Fetch \/ NotDue \/ Gone
           \/ AddValue \/ (\E ok \in BOOLEAN : Extract(ok))
  <2>1. UNCHANGED <<adds, hpc, hreq, back, forth>> /\ (since' = since \/ since' = 0)
    BY <1>6 DEF ConnectCorrupt, MapRace, TimerQuiet, EmitBegin, EmitSkip, EmitCall, EmitEnd,
         Lookup, DisconnectThrows, DisconnectLoad, DisconnectRelink, DisconnectLink,
         DisconnectCount, Erase, TimerLock, Fetch, NotDue, Gone, AddValue, Extract,
         http_vars, clock_vars, load_vars
  <2>2. since' \in Int /\ since' + back >= 0 /\ since' <= 1 + MaxBack
    BY <2>1 DEF Counters
  <2>3. Live' = Live
    <3>1. CASE AddValue
      BY <3>1, AddValueEffect
    <3>2. CASE ~AddValue
      BY <1>6, <3>2, HttpQuietStep, TimerQuietStep, TimerLockStep, ExtractStep
         DEF Live, HttpQuiet
    <3> QED BY <3>1, <3>2
  <2> QED BY <2>1, <2>2, <2>3 DEF Counters, MayAdd
<1>7. CASE Tick \/ ClockForward \/ ClockBack
  <2>1. UNCHANGED <<adds, hpc, hreq>> /\ Live' = Live
    BY <1>7, ClockStep DEF Tick, ClockForward, ClockBack, http_vars, load_vars
  <2>2. /\ back' \in Nat /\ back' <= MaxBack /\ since' \in Int
        /\ since' + back' >= 0 /\ since' <= 1 + MaxBack
        /\ forth' \in Nat /\ forth' <= MaxForward
    <3>1. CASE Tick \/ ClockForward
      <4>1. back' = back /\ (since' = 0 \/ since' = AtMost(1 + MaxBack, since + 1))
        BY <3>1 DEF Tick, ClockForward
      <4>2. forth' = forth \/ (forth < MaxForward /\ forth' = forth + 1)
        BY <3>1 DEF Tick, ClockForward
      <4> QED BY <4>1, <4>2 DEF Counters, AtMost
    <3>2. CASE ClockBack
      <4>1. /\ back < MaxBack /\ back' = back + 1 /\ (since' = 0 \/ since' = since - 1)
            /\ forth' = forth
        BY <3>2 DEF ClockBack
      <4> QED BY <4>1 DEF Counters
    <3> QED BY <1>7, <3>1, <3>2
  <2> QED BY <2>1, <2>2 DEF Counters, MayAdd
<1>8. CASE UNCHANGED vars
  BY <1>8 DEF vars, http_vars, load_vars, clock_vars, Counters, MayAdd, Live
<1> QED BY <1>1, <1>2, <1>3, <1>4, <1>5, <1>6, <1>7, <1>8
     DEF Next, HttpStep, TimerStep, Answer, HttpQuiet, HttpEnds, TimerQuiet

\* The ranges of what is kept about an observable.
LEMMA ObservedStep ==
  ASSUME IInv, Observed, Counters, [Next]_vars
  PROVE  Observed'
<1> USE NumbersAssumption
<1>1. CASE sessions' = sessions /\ back' = back /\ forth' = forth
  BY <1>1 DEF Observed, Live
<1>2. CASE \E h \in Handles : AddCreate(h)
  <2>1. PICK h \in Handles : AddCreate(h)
    BY <1>2
  <2>2. hreq \in Requests /\ hreq.op = "add"
    BY <2>1 DEF IInv, Handling, AddCreate
  <2>3. hreq.interval \in 0..Cap
    BY <2>2, RequestsAssumption DEF AddRequests
  <2>4. /\ Live' = Live \cup {h} /\ h \notin Live
        /\ \A k \in Live : sessions'[k] = sessions[k]
        /\ sessions'[h].interval = hreq.interval /\ sessions'[h].values = <<>>
        /\ sessions'[h].elapsed = 0 /\ sessions'[h].gap = 0 /\ sessions'[h].ahead = 0
    BY <2>1, AddCreateEffect
  <2>5. Cardinality(Live') <= MaxSessions
    <3>1. IsFiniteSet(Live)
      BY HandlesAssumption, FS_Subset DEF IInv, SessionsOK
    <3>2. Cardinality(Live \cup {h}) = Cardinality(Live) + 1 /\ Cardinality(Live) \in Nat
      BY <2>4, <3>1, FS_AddElement, FS_CardinalityType
    <3> QED BY <2>1, <2>4, <3>2, HandlesAssumption DEF AddCreate
  <2>6. back' = back /\ forth' = forth
    BY <2>1 DEF AddCreate, clock_vars
  <2>7. Len(sessions'[h].values) <= ValuesCap
    BY <2>4
  <2>8. 0 + back >= 0 /\ 0 <= Cap /\ 0 \in 0..Cap /\ 0 \in Nat /\ 0 <= forth
    BY DEF Counters
  <2>9. ASSUME NEW k \in Live'
        PROVE  /\ sessions'[k].interval \in 0..Cap
               /\ sessions'[k].elapsed + back >= 0 /\ sessions'[k].elapsed <= Cap
               /\ sessions'[k].gap \in 0..Cap
               /\ sessions'[k].ahead \in Nat /\ sessions'[k].ahead <= forth
               /\ Len(sessions'[k].values) <= ValuesCap
    <3>1. CASE k = h
      BY <2>3, <2>4, <2>7, <2>8, <3>1
    <3>2. CASE k \in Live
      BY <2>4, <3>2 DEF Observed
    <3> QED BY <2>4, <3>1, <3>2
  <2> QED BY <2>5, <2>6, <2>9 DEF Observed
<1>3. CASE Remove
  <2>1. /\ Live' = Live \ {hreq.handle} /\ \A k \in Live' : sessions'[k] = sessions[k]
        /\ back' = back /\ forth' = forth
    BY <1>3, RemoveStep DEF Remove, clock_vars
  <2>2. Cardinality(Live') <= MaxSessions
    <3>1. IsFiniteSet(Live) /\ Cardinality(Live) \in Nat
      BY HandlesAssumption, FS_Subset, FS_CardinalityType DEF IInv, SessionsOK
    <3>2. IsFiniteSet(Live') /\ Cardinality(Live') <= Cardinality(Live)
      BY <2>1, <3>1, FS_Subset
    <3>3. Cardinality(Live') \in Nat
      BY <3>2, FS_CardinalityType
    <3> QED BY <3>1, <3>2, <3>3, HandlesAssumption DEF Observed
  <2> QED BY <2>1, <2>2 DEF Observed
<1>4. CASE UpdateParam \/ UpdateClear
  <2>1. /\ hreq.handle \in Live /\ Live' = Live
        /\ \A k \in Live : k # hreq.handle => sessions'[k] = sessions[k]
        /\ SameTimes(sessions'[hreq.handle], sessions[hreq.handle])
        /\ \/ sessions'[hreq.handle].values = sessions[hreq.handle].values
           \/ sessions'[hreq.handle].values = <<>>
    BY <1>4, UpdateParamEffect, UpdateClearEffect
  <2>2. back' = back /\ forth' = forth
    BY <1>4 DEF UpdateParam, UpdateClear, clock_vars
  <2>3. Len(<<>>) <= ValuesCap
    OBVIOUS
  <2> QED BY <2>1, <2>2, <2>3 DEF Observed, SameTimes
<1>5. CASE AddValue
  <2>1. /\ cur \in Live /\ sessions[cur] \in Session /\ value \in Value
        /\ back' = back /\ forth' = forth
    BY <1>5 DEF IInv, Critical, SessionsOK, AddValue, clock_vars
  <2>2. Len(Push(sessions[cur].values, value)) <= ValuesCap
    BY <2>1, PushLength DEF Observed, Session
  <2>3. /\ Live' = Live /\ sessions' = [sessions EXCEPT ![cur] = sessions'[cur]]
        /\ sessions'[cur].interval = sessions[cur].interval
        /\ sessions'[cur].values = Push(sessions[cur].values, value)
        /\ sessions'[cur].elapsed = 0 /\ sessions'[cur].gap = 0 /\ sessions'[cur].ahead = 0
    BY <1>5, AddValueEffect
  <2>4. \A h \in Live : h # cur => sessions'[h] = sessions[h]
    BY <2>3 DEF IInv, SessionsOK
  <2>5. 0 + back >= 0 /\ 0 <= Cap /\ 0 \in 0..Cap /\ 0 \in Nat /\ 0 <= forth
    BY DEF Counters
  <2> QED BY <2>1, <2>2, <2>3, <2>4, <2>5 DEF Observed
<1>6. CASE Tick \/ ClockForward \/ ClockBack
  <2>1. /\ Live' = Live /\ \A h \in Live : sessions[h] \in Session
        /\ Tick => back' = back /\ forth' = forth
        /\ ClockForward => back' = back /\ forth' = forth + 1
        /\ ClockBack => back' = back + 1 /\ forth' = forth
    BY <1>6, ClockStep DEF Tick, ClockForward, ClockBack, IInv, SessionsOK
  <2>2. ASSUME NEW e \in Int, NEW g \in 0..Cap, NEW a \in Nat, e + back >= 0, e <= Cap,
               a <= forth
        PROVE  /\ AtMost(Cap, e + 1) + back >= 0 /\ AtMost(Cap, e + 1) <= Cap
               /\ e - 1 + (back + 1) >= 0 /\ e - 1 <= Cap
               /\ AtMost(Cap, g + 1) \in 0..Cap
               /\ a + 1 \in Nat /\ a + 1 <= forth + 1
    BY <2>2 DEF AtMost, Counters
  <2>3. ASSUME NEW h \in Live
        PROVE  /\ sessions'[h].interval \in 0..Cap
               /\ sessions'[h].elapsed + back' >= 0 /\ sessions'[h].elapsed <= Cap
               /\ sessions'[h].gap \in 0..Cap
               /\ sessions'[h].ahead \in Nat /\ sessions'[h].ahead <= forth'
               /\ Len(sessions'[h].values) <= ValuesCap
    <3> DEFINE e == sessions[h].elapsed
               g == sessions[h].gap
               a == sessions[h].ahead
    <3>1. /\ e \in Int /\ g \in 0..Cap /\ a \in Nat /\ e + back >= 0 /\ e <= Cap /\ a <= forth
          /\ sessions[h].interval \in 0..Cap /\ Len(sessions[h].values) <= ValuesCap
      BY <2>1 DEF Observed, Session
    <3>2. /\ sessions'[h].values = sessions[h].values
          /\ sessions'[h].interval = sessions[h].interval
          /\ \/ /\ sessions'[h].elapsed = AtMost(Cap, e + 1) /\ sessions'[h].ahead = a
                /\ sessions'[h].gap = AtMost(Cap, g + 1)
                /\ back' = back /\ forth' = forth
             \/ /\ sessions'[h].elapsed = AtMost(Cap, e + 1) /\ sessions'[h].ahead = a + 1
                /\ sessions'[h].gap = g
                /\ back' = back /\ forth' = forth + 1
             \/ /\ sessions'[h].elapsed = e - 1 /\ sessions'[h].ahead = a
                /\ sessions'[h].gap = g
                /\ back' = back + 1 /\ forth' = forth
      BY <1>6, <2>1, ClockStep, Zenon DEF ClockMoves
    <3> HIDE DEF e, g, a
    <3>3. /\ AtMost(Cap, e + 1) + back >= 0 /\ AtMost(Cap, e + 1) <= Cap
          /\ e - 1 + (back + 1) >= 0 /\ e - 1 <= Cap
          /\ AtMost(Cap, g + 1) \in 0..Cap
          /\ a + 1 \in Nat /\ a + 1 <= forth + 1
      BY <2>2, <3>1
    <3> QED BY <2>1, <3>1, <3>2, <3>3, Zenon
  <2> QED BY <2>1, <2>3 DEF Observed
<1>7. CASE HttpQuiet \/ HttpEnds \/ HttpLock
  <2>1. sessions' = sessions
    BY <1>7, HttpQuietStep, HttpEndsStep, HttpLockStep
  <2>2. back' = back /\ forth' = forth
    BY <1>7 DEF HttpQuiet, HttpEnds, HttpLock, Receive,
         ConnectLoad, ConnectAdvance, ConnectStore, ConnectCount, ConnectCorrupt, MapRace,
         AddRefused, ConnectRefused, AddMap, UnknownHandle, UpdateSame, Read, Once,
         clock_vars
  <2> QED BY <1>1, <2>1, <2>2
<1>8. CASE \/ TimerQuiet \/ TimerLock \/ Fetch \/ NotDue \/ Gone
           \/ (\E ok \in BOOLEAN : Extract(ok))
  <2>1. sessions' = sessions
    BY <1>8, TimerQuietStep, TimerLockStep, ExtractStep
  <2>2. back' = back /\ forth' = forth
    BY <1>8 DEF TimerQuiet, EmitBegin, EmitSkip, EmitCall, EmitEnd,
         Lookup, DisconnectThrows, DisconnectLoad, DisconnectRelink, DisconnectLink,
         DisconnectCount, Erase, TimerLock, Fetch, NotDue, Gone, Extract, clock_vars
  <2> QED BY <1>1, <2>1, <2>2
<1>9. CASE UNCHANGED vars
  BY <1>1, <1>9 DEF vars, clock_vars
<1> QED BY <1>2, <1>3, <1>4, <1>5, <1>6, <1>7, <1>8, <1>9
     DEF Next, HttpStep, TimerStep, Answer, HttpQuiet, HttpEnds, TimerQuiet

\* Both threads stay at places they have, with the data they need there.
LEMMA PlacesStep ==
  ASSUME IInv, Places, [Next]_vars
  PROVE  Places'
<1>1. CASE \E r \in Requests : Receive(r)
  BY <1>1 DEF Places, Receive, timer_vars, emit_vars, load_vars, hist_vars, HasNew
<1>2. CASE HttpLock
  <2>1. hpc' \in HttpHolds /\ hpc' \notin HasNew
    BY <1>2, RequestFields DEF IInv, Handling, HttpLock, HttpHolds, HasNew
  <2> QED BY <1>2, <2>1 DEF Places, HttpLock, timer_vars, emit_vars, load_vars, hist_vars
<1>3. CASE \E h \in Handles : AddCreate(h)
  BY <1>3 DEF Places, AddCreate, emit_vars, hist_vars, HttpHolds, Calls, Pruning
<1>4. CASE HttpEnds \/ UpdateClear \/ Remove
  <2>1. /\ \E o \in {"dropped", "success", "not found", "data"} : Finish(o)
        /\ UNCHANGED <<fate, timer_vars, owed>>
    BY <1>4 DEF HttpEnds, AddRefused, ConnectRefused, AddMap, UnknownHandle, UpdateSame,
         Read, Once, UpdateClear, Remove, load_vars, hist_vars
  <2> QED BY <2>1 DEF Places, Finish, timer_vars, emit_vars, hist_vars, HasNew
<1>5. CASE \/ ConnectLoad \/ ConnectAdvance \/ ConnectStore \/ ConnectCount \/ UpdateParam
  <2>1. /\ hpc' \in HttpHolds /\ UNCHANGED <<fate, hreq, hnew, reply, timer_vars, owed>>
        /\ hpc' \in HasNew => hpc \in HasNew
    BY <1>5 DEF ConnectLoad, ConnectAdvance, ConnectStore, ConnectCount, UpdateParam,
         load_vars, hist_vars, HttpHolds, HasNew
  <2> QED BY <2>1 DEF Places, timer_vars, emit_vars
<1>6. CASE \/ ConnectCorrupt \/ MapRace \/ DisconnectThrows
           \/ Tick \/ ClockForward \/ ClockBack \/ UNCHANGED vars
  <2>1. /\ UNCHANGED <<http_vars, timer_vars, owed>>
        /\ fate' \in {fate, "undefined", "terminated"}
    BY <1>6 DEF ConnectCorrupt, MapRace, DisconnectThrows, Tick, ClockForward, ClockBack,
         vars, load_vars, hist_vars
  <2>2. fate' \in {"running", "terminated", "undefined"}
    BY <2>1 DEF Places
  <2> QED BY ZenonT(60), <2>1, <2>2 DEF Places, http_vars, timer_vars, emit_vars
<1>7. CASE EmitBegin \/ EmitEnd
  <2>1. /\ UNCHANGED <<fate, http_vars, cur, value>>
        /\ tpc' \in {"scan", "sleep"} /\ pos' = 0 /\ owed' \subseteq Slots
    BY <1>7 DEF EmitBegin, EmitEnd, load_vars, Connected
  <2>2. pos' \in 0..UpperLimit+1
    BY <2>1, NumbersAssumption
  <2> QED BY ZenonT(60), <2>1, <2>2 DEF Places, http_vars, Calls, Pruning
<1>8. CASE EmitSkip \/ EmitCall
  <2>1. /\ UNCHANGED <<fate, http_vars, value>>
        /\ pos \in Slots
        /\ \/ tpc' = "scan" /\ pos' = pos + 1 /\ UNCHANGED cur
           \/ tpc' = "lock" /\ pos' = pos /\ cur' \in Handles
        /\ owed' \subseteq owed
    BY <1>8 DEF EmitSkip, EmitCall, Scanning, load_vars, hist_vars, Connected
  <2>2. pos' \in 0..UpperLimit+1
    <3>1. pos \in Slots /\ pos' \in {pos, pos + 1}
      BY <2>1
    <3> QED BY <3>1, NumbersAssumption DEF Slots
  <2> QED BY ZenonT(60), <2>1, <2>2 DEF Places, http_vars, Calls, Pruning
<1>9. CASE NotDue \/ AddValue \/ \E k \in Handles \cup {None} : Erase(k)
  <2>1. /\ UNCHANGED <<fate, http_vars, owed>> /\ Return /\ tpc \in Calls
    BY <1>9 DEF NotDue, AddValue, Erase, load_vars, hist_vars, Calls, Pruning
  <2>2. pos' \in 0..UpperLimit+1
    <3>1. pos \in Slots /\ pos' = pos + 1
      BY <2>1 DEF Places, Return
    <3> QED BY <3>1, NumbersAssumption DEF Slots
  <2> QED BY <2>1, <2>2 DEF Places, http_vars, Return, Calls, Pruning
<1>10. CASE \/ TimerLock \/ Fetch \/ Gone \/ Lookup \/ DisconnectLoad
            \/ DisconnectRelink \/ DisconnectLink \/ DisconnectCount
  <2>1. /\ UNCHANGED <<fate, http_vars, emit_vars>> /\ owed' \subseteq owed
        /\ tpc \in Calls /\ tpc' \in Calls
    BY <1>10 DEF TimerLock, Fetch, Gone, Lookup, DisconnectLoad, DisconnectRelink,
         DisconnectLink, DisconnectCount, load_vars, hist_vars, Calls, Pruning
  <2> QED BY <2>1 DEF Places, http_vars, emit_vars
<1>11. CASE \E ok \in BOOLEAN : Extract(ok)
  <2>1. /\ UNCHANGED <<fate, http_vars, owed, pos, cur>>
        /\ tpc \in Calls /\ tpc' \in Calls /\ tpc' = "add"
    BY <1>11 DEF Extract, hist_vars, Calls
  <2>2. value' \in Value
    BY <1>11, <2>1, ExtractStep DEF IInv, Critical
  <2> QED BY <2>1, <2>2 DEF Places, http_vars, hist_vars
<1> QED BY <1>1, <1>2, <1>3, <1>4, <1>5, <1>6, <1>7, <1>8, <1>9, <1>10, <1>11
     DEF Next, HttpStep, TimerStep, Answer, HttpEnds

\* The history flags are flags.
LEMMA FlagsStep == Places /\ Flags /\ [Next]_vars => Flags'
<1> SUFFICES ASSUME Places, Flags, [Next]_vars PROVE Flags'
  OBVIOUS
<1>1. /\ mishaps' \subseteq {"overlap", "reuse", "stray"} /\ refused' \subseteq Handles
  <2>1. CASE \E h \in Handles : AddCreate(h)
    BY <2>1 DEF AddCreate, Flags
  <2>2. CASE ConnectRefused
    <3>1. hnew \in Handles
      BY <2>2 DEF ConnectRefused, Places, HasNew
    <3> QED BY <2>2, <3>1 DEF ConnectRefused, Flags
  <2>3. CASE \E k \in Handles \cup {None} : Erase(k)
    BY <2>3 DEF Erase, Flags
  <2>4. CASE ~((\E h \in Handles : AddCreate(h)) \/ ConnectRefused
               \/ (\E k \in Handles \cup {None} : Erase(k)))
    <3>1. mishaps' = mishaps /\ refused' = refused
      BY <2>4, ZenonT(60) DEF Next, HttpStep, TimerStep, Answer, Receive, HttpLock, AddRefused,
         ConnectLoad, ConnectCorrupt, ConnectAdvance, ConnectStore, ConnectCount,
         AddMap, MapRace, UnknownHandle, UpdateSame, UpdateParam, UpdateClear, Remove, Read,
         Once, EmitBegin, EmitSkip, EmitCall, EmitEnd, TimerLock, NotDue, Fetch, Extract,
         AddValue, Gone, Lookup, DisconnectThrows, DisconnectLoad, DisconnectRelink,
         DisconnectLink, DisconnectCount, Tick, ClockForward, ClockBack, load_vars, vars
    <3> QED BY <3>1 DEF Flags
  <2> QED BY <2>1, <2>2, <2>3, <2>4
<1>2. CASE EmitBegin \/ ConnectLoad \/ EmitEnd
  <2>1. \/ joined' = (hpc \in {"advance", "store", "count"})
        \/ joined' = (tpc \notin {"absent", "sleep"})
        \/ joined' = FALSE
    BY <1>2, Zenon DEF EmitBegin, ConnectLoad, EmitEnd
  <2>2. /\ (hpc \in {"advance", "store", "count"}) \in BOOLEAN
        /\ (tpc \notin {"absent", "sleep"}) \in BOOLEAN
    OBVIOUS
  <2>3. joined' \in BOOLEAN
    BY <2>1, <2>2, Zenon
  <2> QED BY <1>1, <2>3, Zenon DEF Flags
<1>3. CASE ~(EmitBegin \/ ConnectLoad \/ EmitEnd)
  <2>1. joined' = joined
    BY <1>3, ZenonT(60) DEF Next, HttpStep, TimerStep, Answer, Receive, HttpLock, AddRefused,
       AddCreate, ConnectRefused, ConnectCorrupt, ConnectAdvance, ConnectStore, ConnectCount,
       AddMap, MapRace, UnknownHandle, UpdateSame, UpdateParam, UpdateClear, Remove, Read, Once,
       EmitSkip, EmitCall, TimerLock, NotDue, Fetch, Extract, AddValue, Gone,
       Lookup, DisconnectThrows, DisconnectLoad, DisconnectRelink, DisconnectLink,
       DisconnectCount, Erase, Tick, ClockForward, ClockBack, hist_vars, vars
  <2> QED BY <1>1, <2>1 DEF Flags
<1> QED BY <1>2, <1>3

-----------------------------------------------------------------------------
\* The signal and the map, until one of the three mishaps: a handle given out
\* again while its old callback is connected, a connect that overlaps a
\* disconnect, or an erase that reads another handle out of freed memory.

Lists == INSTANCE SimpleSignal_proofs WITH
    Callbacks <- Handles, pc <- "idle", result <- "none"

Words == Slots \cup Handles \cup {Null}


\* The unguarded disconnect has not met a connect, and nobody has been given the
\* handle of the callback it disconnects.
Apart ==
    /\ ~(hpc \in HasNew /\ tpc \in Pruning)
    /\ tpc \in Pruning => cur \notin Live

\* The slot that holds the callback of handle h, if any does: the one the map
\* leads to, except between a store into the array and that into the map.
SlotOf(h) ==
    IF hpc \in {"count", "map"} /\ h = hnew THEN hslot
    ELSE IF tpc \in {"uncount", "erase"} /\ h = cur THEN Null
    ELSE cbmap[h]

MapLeads ==
    /\ cbmap \in [Handles -> Slots \cup {Null}]
    /\ hpc \in HasNew => hnew \in Live /\ cbmap[hnew] = Null
    /\ hpc \notin HasNew => hnew = None
    /\ \A h \in Handles : \A t \in Slots : word[t] = h <=> t = SlotOf(h)

\* Only a connect that throws leaves an observable without a callback.
NoneRefused == \A h \in Live \ ({hnew} \cup refused) : cbmap[h] # Null

\* The running callback sits in the slot emit is at.
CallRuns ==
    /\ left \in Nat /\ left <= MaxAdds
    /\ tpc \in Calls => pos \in Slots /\ cur \in Handles /\ left >= 1
    /\ tpc \in Calls \ {"uncount", "erase"} => word[pos] = cur
    /\ tpc \in Pruning \ {"lookup"} => tslot = pos /\ cbmap[cur] = pos

\* The array and its count as they are once the operation in progress is over:
\* connect has taken effect when it has stored the new head, disconnect when
\* the head links to the freed slot.
WordAfter == IF hpc = "store" THEN [word EXCEPT ![hslot] = hnew]
             ELSE IF tpc = "link" THEN [word EXCEPT ![tslot] = told]
             ELSE word

SizeAfter == IF hpc \in {"store", "count"} THEN size + 1
             ELSE IF tpc \in {"link", "uncount"} THEN size - 1
             ELSE size

ListWhole == SizeAfter \in Nat /\ Lists!Whole(WordAfter, freeBeg, SizeAfter)

\* What the locals of connect and disconnect have read still holds.
Registers ==
    /\ word \in [Slots -> Words] /\ freeBeg \in Slots
    /\ size \in Nat /\ size <= adds /\ (Connecting => size < adds)
    /\ hslot \in Slots /\ hnext \in Slots /\ hsize \in Nat /\ hsize <= adds
    /\ tslot \in Slots \cup {Null} /\ thead \in Slots /\ told \in Words
    /\ tsize \in Nat /\ tsize <= adds
    /\ hpc = "advance" => hslot = freeBeg /\ hnext = word[freeBeg]
    /\ hpc = "store" => word[hslot] \notin Handles
    /\ hpc = "count" => hsize = size
    /\ tpc = "relink" => thead = freeBeg /\ told = word[freeBeg]
    /\ tpc = "link" => told \in Slots \cup {Null}
    /\ tpc = "uncount" => tsize = size

CInv == /\ Running
        /\ Apart /\ MapLeads /\ NoneRefused /\ CallRuns /\ ListWhole /\ Registers

\* What the lemmas about free lists assume of the constants holds here.
LEMMA ListConstants ==
  /\ Lists!Slots = Slots /\ Lists!Words = Words
  /\ UpperLimit \in Nat
  /\ Handles \cap Slots = {} /\ Null \notin Slots /\ Null \notin Handles
  /\ \A w \in [Slots -> Words] : \A s \in Slots : Lists!IsCallback(w[s]) <=> w[s] \in Handles
BY NumbersAssumption, PointersDistinct
   DEF Lists!Slots, Slots, Lists!Words, Words, Lists!IsCallback

\* The handler that adds and the callback that disconnects exclude each other.
LEMMA NeverBoth ==
  ASSUME Apart
  PROVE  ~(hpc \in HasNew /\ tpc \in Pruning)
BY DEF Apart

\* A step that leaves signal, map and the callback alone, and does not enter
\* or leave connect and disconnect.
LEMMA SignalUntouched ==
  ASSUME CInv, Live' = Live,
         UNCHANGED <<fate, word, freeBeg, size, cbmap, hnew, pos, left, cur, disc_vars,
                     refused, adds>>,
         \/ UNCHANGED <<hpc, hreq, hslot, hnext, hsize>>
         \/ /\ hpc \notin HasNew /\ hpc' \notin HasNew
            /\ hslot' \in Slots /\ hnext' \in Slots /\ hsize' \in Nat /\ hsize' <= adds,
         \/ tpc' = tpc
         \/ /\ tpc \in {"lock", "body", "fetch", "add"}
            /\ tpc' \in {"lock", "body", "fetch", "add"}
  PROVE  CInv'
<1>1. Apart'
  BY DEF CInv, Apart, HasNew, HasNew, Pruning
<1>2. \A h \in Handles : SlotOf(h)' = SlotOf(h)
  BY DEF SlotOf, HasNew
<1>3. MapLeads'
  BY <1>2 DEF CInv, MapLeads, HasNew
<1>4. NoneRefused'
  BY DEF CInv, NoneRefused
<1>5. CallRuns'
  BY DEF CInv, CallRuns, Calls, Pruning, disc_vars
<1>6. WordAfter' = WordAfter /\ SizeAfter' = SizeAfter
  BY DEF WordAfter, SizeAfter, HasNew, disc_vars
<1>7. ListWhole'
  BY <1>6 DEF CInv, ListWhole
<1>8. Registers'
  BY DEF CInv, Registers, Connecting, HasNew, disc_vars
<1>9. Running'
  BY DEF CInv, Running
<1> QED BY <1>1, <1>3, <1>4, <1>5, <1>7, <1>8, <1>9 DEF CInv

\* Requests, answers, updates, observations and the clock.
LEMMA QuietStep ==
  ASSUME IInv, Ranges, CInv,
         \/ \E r \in Requests : Receive(r)
         \/ HttpLock \/ AddRefused \/ UnknownHandle \/ UpdateSame \/ UpdateParam
         \/ UpdateClear \/ Read \/ Once
         \/ TimerLock \/ Fetch \/ (\E ok \in BOOLEAN : Extract(ok))
         \/ Tick \/ ClockForward \/ ClockBack \/ UNCHANGED vars
  PROVE  CInv'
<1> DEFINE Kept == UNCHANGED <<fate, word, freeBeg, size, cbmap, hnew, pos, left, cur,
                               disc_vars, refused, adds>>
           HttpMoves == /\ hpc \notin HasNew /\ hpc' \notin HasNew
                        /\ hslot' \in Slots /\ hnext' \in Slots
                        /\ hsize' \in Nat /\ hsize' <= adds
<1>1. /\ hpc \notin HasNew => hnew = None
      /\ hslot \in Slots /\ hnext \in Slots /\ hsize \in Nat /\ hsize <= adds
      /\ 0 \in Slots /\ 0 <= adds
  <2>1. adds \in Nat /\ 0 <= adds
    BY NumbersAssumption DEF Ranges, Counters
  <2> QED BY <2>1, NumbersAssumption DEF CInv, MapLeads, Registers, Slots
<1>2. CASE \E r \in Requests : Receive(r)
  <2>1. Kept /\ Live' = Live /\ tpc' = tpc /\ UNCHANGED conn_vars
    BY <1>2 DEF Receive, signal_vars, timer_vars, emit_vars, load_vars, Live
  <2>2. HttpMoves
    BY <1>1, <1>2 DEF Receive, HasNew, conn_vars
  <2> HIDE DEF Kept, HttpMoves
  <2> QED BY <2>1, <2>2, SignalUntouched DEF Kept, HttpMoves
<1>3. CASE HttpLock
  <2>1. Kept /\ Live' = Live /\ tpc' = tpc /\ UNCHANGED conn_vars
    BY <1>3 DEF HttpLock, signal_vars, timer_vars, emit_vars, load_vars, Live
  <2>2. HttpMoves
    <3>1. hreq.op \in {"add", "update", "remove", "read", "list", "once"}
      BY <1>3, RequestFields DEF HttpLock, IInv, Handling
    <3> QED BY <1>1, <1>3, <3>1 DEF HttpLock, HasNew, conn_vars
  <2> HIDE DEF Kept, HttpMoves
  <2> QED BY <2>1, <2>2, SignalUntouched DEF Kept, HttpMoves
<1>4. CASE AddRefused \/ UnknownHandle \/ UpdateSame \/ UpdateClear \/ Read \/ Once
  <2>1. /\ \E o \in {"dropped", "success", "not found", "data"} : Finish(o)
        /\ hpc \notin HasNew
        /\ UNCHANGED <<fate, signal_vars, cbmap, timer_vars, load_vars>>
    BY <1>4 DEF AddRefused, UnknownHandle, UpdateSame, UpdateClear, Read, Once, HasNew
  <2>2. Live' = Live
    BY <1>4, UpdateClearEffect DEF AddRefused, UnknownHandle, UpdateSame, Read, Once, Live
  <2>3. Kept /\ tpc' = tpc
    BY <1>1, <2>1 DEF signal_vars, timer_vars, emit_vars, load_vars, Finish
  <2>4. HttpMoves
    <3>1. hpc' = "idle" /\ hslot' = 0 /\ hnext' = 0 /\ hsize' = 0
      BY <2>1 DEF Finish
    <3> QED BY <1>1, <2>1, <3>1 DEF HasNew
  <2> HIDE DEF Kept, HttpMoves
  <2> QED BY <2>2, <2>3, <2>4, SignalUntouched DEF Kept, HttpMoves
<1>5. CASE UpdateParam
  <2>1. Kept /\ tpc' = tpc /\ UNCHANGED conn_vars
    BY <1>5 DEF UpdateParam, signal_vars, timer_vars, emit_vars, load_vars
  <2>2. Live' = Live
    BY <1>5, UpdateParamEffect
  <2>3. HttpMoves
    BY <1>1, <1>5 DEF UpdateParam, HasNew, conn_vars
  <2> HIDE DEF Kept, HttpMoves
  <2> QED BY <2>1, <2>2, <2>3, SignalUntouched DEF Kept, HttpMoves
<1>6. CASE TimerLock \/ Fetch \/ \E ok \in BOOLEAN : Extract(ok)
  <2>1. /\ Kept /\ Live' = Live /\ UNCHANGED <<hpc, hreq, hslot, hnext, hsize>>
        /\ tpc \in {"lock", "body", "fetch", "add"}
        /\ tpc' \in {"lock", "body", "fetch", "add"}
    BY <1>6 DEF TimerLock, Fetch, Extract, signal_vars, http_vars, conn_vars, emit_vars,
                load_vars, Live
  <2> HIDE DEF Kept, HttpMoves
  <2> QED BY <2>1, SignalUntouched DEF Kept
<1>7. CASE Tick \/ ClockForward \/ ClockBack \/ UNCHANGED vars
  <2>1. Live' = Live
    BY <1>7, ClockStep DEF vars, Live
  <2>2. Kept /\ UNCHANGED <<hpc, hreq, hslot, hnext, hsize>> /\ tpc' = tpc
    BY <1>7 DEF Tick, ClockForward, ClockBack, vars, signal_vars, http_vars, conn_vars, timer_vars,
                emit_vars, load_vars
  <2> HIDE DEF Kept, HttpMoves
  <2> QED BY <2>1, <2>2, SignalUntouched DEF Kept
<1> HIDE DEF Kept, HttpMoves
<1> QED BY <1>2, <1>3, <1>4, <1>5, <1>6, <1>7

\* emit walks over the array, and calls what it finds.
LEMMA EmitMoves ==
  ASSUME Ranges, CInv, EmitBegin \/ EmitSkip \/ EmitCall \/ EmitEnd
  PROVE  CInv'
<1>1. /\ UNCHANGED <<fate, word, freeBeg, size, cbmap, hpc, hreq, hnew, conn_vars, disc_vars,
                     refused, adds>>
      /\ Live' = Live /\ tpc \notin Calls /\ tpc' \notin Pruning
  BY DEF EmitBegin, EmitSkip, EmitCall, EmitEnd, Scanning, signal_vars, http_vars, load_vars,
         Live, Calls, Pruning
<1>2. tpc' \in Calls => tpc' = "lock"
  BY DEF EmitBegin, EmitSkip, EmitCall, EmitEnd, Scanning, Calls, Pruning
<1>3. Apart' /\ Running'
  BY <1>1 DEF CInv, Apart, Running
<1>4. \A h \in Handles : SlotOf(h)' = SlotOf(h)
  BY <1>1 DEF SlotOf, conn_vars, Calls, Pruning
<1>5. MapLeads' /\ NoneRefused'
  BY <1>1, <1>4 DEF CInv, MapLeads, NoneRefused
<1>6. CallRuns'
  <2>1. CASE EmitBegin \/ EmitEnd
    <3>1. left' = size \/ left' = 0
      BY <2>1 DEF EmitBegin, EmitEnd
    <3>2. tpc' \notin Calls
      BY <2>1 DEF EmitBegin, EmitEnd, Calls, Pruning
    <3>3. left' \in Nat /\ left' <= MaxAdds
      BY <3>1, NumbersAssumption DEF CInv, Registers, Ranges, Counters
    <3> QED BY <3>2, <3>3 DEF CallRuns, Calls, Pruning
  <2>2. CASE EmitSkip
    <3>1. tpc' \notin Calls /\ left' = left
      BY <2>2 DEF EmitSkip, Scanning, Calls, Pruning
    <3> QED BY <3>1 DEF CallRuns, CInv, Calls, Pruning
  <2>3. CASE EmitCall
    <3>1. /\ pos' = pos /\ left' = left /\ left # 0 /\ pos \in Slots /\ tpc' = "lock"
          /\ cur' = word[pos] /\ word[pos] \in Handles
      BY <2>3 DEF EmitCall, Scanning, Connected
    <3>2. left' \in Nat /\ left' <= MaxAdds /\ left' >= 1
      BY <3>1 DEF CallRuns, CInv
    <3> QED BY <1>1, <3>1, <3>2 DEF CallRuns, Calls, Pruning
  <2> QED BY <2>1, <2>2, <2>3
<1>7. WordAfter' = WordAfter /\ SizeAfter' = SizeAfter
  BY <1>1 DEF WordAfter, SizeAfter, conn_vars, disc_vars, Calls, Pruning
<1>8. ListWhole'
  BY <1>1, <1>7 DEF CInv, ListWhole
<1>9. Registers'
  BY <1>1 DEF CInv, Registers, Connecting, conn_vars, disc_vars, Pruning, Calls
<1> QED BY <1>3, <1>5, <1>6, <1>8, <1>9 DEF CInv

\* A callback that returns leaves signal and map alone.
LEMMA ReturnStep ==
  ASSUME IInv, Ranges, CInv, NotDue \/ AddValue
  PROVE  CInv'
<1>1. /\ UNCHANGED <<fate, word, freeBeg, size, cbmap, hpc, hreq, hnew, conn_vars,
                     refused, adds>>
      /\ tpc \in {"body", "add"} /\ Return
  BY DEF NotDue, AddValue, signal_vars, http_vars, load_vars
<1>2. Live' = Live
  BY AddValueEffect DEF NotDue, Live
<1>3. tpc' = "scan" /\ tpc' \notin Calls
  BY <1>1 DEF Return, Calls, Pruning
<1>4. Apart' /\ Running'
  BY <1>1, <1>2, <1>3 DEF CInv, Apart, Running, Pruning
<1>5. \A h \in Handles : SlotOf(h)' = SlotOf(h)
  BY <1>1, <1>3 DEF SlotOf, conn_vars
<1>6. MapLeads' /\ NoneRefused'
  BY <1>1, <1>2, <1>5 DEF CInv, MapLeads, NoneRefused
<1>7. CallRuns'
  <2>1. left \in Nat /\ left <= MaxAdds /\ left >= 1 /\ left' = left - 1
    BY <1>1 DEF CInv, CallRuns, Return, Calls
  <2>2. left' \in Nat /\ left' <= MaxAdds
    BY <2>1, NumbersAssumption
  <2> QED BY <1>3, <2>2 DEF CallRuns, Calls, Pruning
<1>8. WordAfter' = WordAfter /\ SizeAfter' = SizeAfter
  BY <1>1, <1>3 DEF WordAfter, SizeAfter, conn_vars
<1>9. ListWhole'
  BY <1>1, <1>8 DEF CInv, ListWhole
<1>10. Registers'
  <2>1. 0 \in Slots /\ 0 \in Nat /\ 0 <= adds /\ Null \in Words
    BY NumbersAssumption DEF Slots, Words, Ranges, Counters
  <2>2. tslot' = Null /\ thead' = 0 /\ told' = Null /\ tsize' = 0
    BY <1>1 DEF Return
  <2> QED BY <1>1, <1>3, <2>1, <2>2 DEF CInv, Registers, Connecting, conn_vars
<1> QED BY <1>4, <1>6, <1>7, <1>9, <1>10 DEF CInv

\* The list as it is while neither connect nor disconnect has taken effect.
LEMMA ListNow ==
  ASSUME CInv, hpc \notin {"store", "count"}, tpc \notin {"link", "uncount"}
  PROVE  /\ word \in [Slots -> Words] /\ freeBeg \in Slots /\ size \in Nat
         /\ Lists!Whole(word, freeBeg, size)
         /\ word[freeBeg] \notin Handles /\ word[freeBeg] \in Slots \cup {Null}
         /\ word[freeBeg] = Null => size = UpperLimit
<1>1. /\ word \in [Slots -> Words] /\ freeBeg \in Slots /\ size \in Nat
      /\ Lists!Whole(word, freeBeg, size)
  BY DEF CInv, Registers, ListWhole, WordAfter, SizeAfter
<1>2. /\ word[freeBeg] \in Slots \cup {Null}
      /\ word[freeBeg] = Null => size = UpperLimit
  BY <1>1, ListConstants, Lists!HeadOfWhole
<1> QED BY <1>1, <1>2, ListConstants

\* The undefined and the fatal steps need an overlap that cannot come about,
\* or a callback that is no longer in its slot.
LEMMA NoFatalStep ==
  ASSUME CInv
  PROVE  ~ConnectCorrupt /\ ~MapRace /\ ~DisconnectThrows
<1>1. ASSUME ConnectCorrupt PROVE FALSE
  <2>1. hpc = "connect" /\ word[freeBeg] \in Handles
    BY <1>1 DEF ConnectCorrupt, Connected
  <2>2. tpc \notin Pruning
    BY <2>1, NeverBoth DEF CInv, HasNew
  <2> QED BY <2>1, <2>2, ListNow DEF Pruning
<1>2. ASSUME MapRace PROVE FALSE
  BY <1>2, NeverBoth DEF CInv, MapRace, HasNew, Pruning
<1>3. ASSUME DisconnectThrows PROVE FALSE
  <2>1. tpc = "disconnect" /\ tslot \notin Connected
    BY <1>3 DEF DisconnectThrows
  <2>2. tslot = pos /\ pos \in Slots /\ word[pos] = cur /\ cur \in Handles
    BY <2>1 DEF CInv, CallRuns, Calls, Pruning
  <2> QED BY <2>1, <2>2 DEF Connected
<1> QED BY <1>1, <1>2, <1>3

\* A new observable has no callback yet, and its handle no entry in the map.
LEMMA AddCreateCalm ==
  ASSUME IInv, Ranges, CInv, NEW h \in Handles, AddCreate(h), mishaps' = {}
  PROVE  CInv'
<1>1. /\ hpc = "add" /\ hpc' = "connect" /\ hnew' = h /\ adds' = adds + 1
      /\ UNCHANGED <<fate, word, freeBeg, size, cbmap, conn_vars, emit_vars, disc_vars>>
      /\ refused' = refused \ {h}
      /\ tpc' = tpc \/ (tpc = "absent" /\ tpc' = "sleep")
      /\ adds \in Nat
  BY NumbersAssumption DEF AddCreate, signal_vars, Ranges, Counters
<1>2. Live' = Live \cup {h} /\ h \notin Live
  BY AddCreateEffect
<1>3. /\ tpc \notin Pruning /\ tpc' \notin Pruning /\ hnew = None
      /\ cbmap[h] = Null
  <2>1. ~Unregistering
    BY DEF AddCreate
  <2>2. ~\E s \in Slots : word[s] = h
    BY DEF AddCreate
  <2>3. tpc \notin Pruning
    BY <2>1 DEF Unregistering, Disconnecting, Pruning
  <2>4. hnew = None /\ cbmap[h] \in Slots \cup {Null} /\ SlotOf(h) = cbmap[h]
    BY <1>1, <2>3 DEF CInv, MapLeads, HasNew, SlotOf, Pruning
  <2>5. cbmap[h] \notin Slots
    BY <2>2, <2>4 DEF CInv, MapLeads
  <2> QED BY <1>1, <2>3, <2>4, <2>5 DEF Pruning
<1>4. Apart' /\ Running'
  BY <1>1, <1>2, <1>3 DEF CInv, Apart, Running
<1>5. \A k \in Handles : SlotOf(k)' = SlotOf(k)
  BY <1>1, <1>3 DEF SlotOf, Pruning
<1>6. MapLeads'
  <2>1. hpc' \in HasNew /\ hnew' \in Live' /\ cbmap'[hnew'] = Null
    BY <1>1, <1>2, <1>3 DEF HasNew
  <2>2. \A k \in Handles : \A t \in Slots : word'[t] = k <=> t = SlotOf(k)'
    BY <1>1, <1>5 DEF CInv, MapLeads
  <2> QED BY <1>1, <2>1, <2>2 DEF CInv, MapLeads
<1>7. NoneRefused'
  <2>1. \A k \in Live : k # None
    BY PointersDistinct DEF IInv, SessionsOK
  <2> QED BY <1>1, <1>2, <1>3, <2>1 DEF CInv, NoneRefused
<1>8. CallRuns'
  BY <1>1, <1>3 DEF CInv, CallRuns, emit_vars, disc_vars, Calls, Pruning
<1>9. WordAfter' = WordAfter /\ SizeAfter' = SizeAfter
  BY <1>1, <1>3 DEF WordAfter, SizeAfter, Pruning
<1>10. ListWhole'
  BY <1>1, <1>9 DEF CInv, ListWhole
<1>11. Registers'
  <2>1. /\ size < adds' /\ size <= adds' /\ hsize <= adds' /\ tsize <= adds'
    BY <1>1 DEF CInv, Registers
  <2> QED BY <1>1, <1>3, <2>1 DEF CInv, Registers, Pruning, conn_vars, disc_vars
<1> QED BY <1>4, <1>6, <1>7, <1>8, <1>10, <1>11 DEF CInv

\* A connect that is refused leaves signal and map as they were.
LEMMA ConnectRefusedCalm ==
  ASSUME IInv, Ranges, CInv, ConnectRefused
  PROVE  CInv'
<1>1. /\ hpc = "connect" /\ word[freeBeg] = Null /\ hpc' = "idle" /\ hnew' = None
      /\ hslot' = 0 /\ hnext' = 0 /\ hsize' = 0
      /\ UNCHANGED <<fate, sessions, word, freeBeg, size, cbmap, timer_vars, adds>>
      /\ refused' = refused \cup {hnew}
  BY DEF ConnectRefused, Finish, signal_vars
<1>2. tpc \notin Pruning /\ Live' = Live /\ tpc' = tpc
  BY <1>1, NeverBoth DEF CInv, HasNew, Live, timer_vars
<1>3. Apart' /\ Running'
  BY <1>1, <1>2 DEF CInv, Apart, Running, HasNew
<1>4. MapLeads'
  BY <1>1, <1>2 DEF CInv, MapLeads, SlotOf, HasNew, Pruning
<1>5. NoneRefused'
  BY <1>1, <1>2 DEF CInv, NoneRefused
<1>6. CallRuns'
  BY <1>1, <1>2 DEF CInv, CallRuns, timer_vars, emit_vars, disc_vars
<1>7. WordAfter' = WordAfter /\ SizeAfter' = SizeAfter
  BY <1>1, <1>2 DEF WordAfter, SizeAfter, Pruning
<1>8. ListWhole'
  BY <1>1, <1>7 DEF CInv, ListWhole
<1>9. Registers'
  <2>1. 0 \in Slots /\ 0 \in Nat /\ 0 <= adds
    BY NumbersAssumption DEF Slots, Ranges, Counters
  <2> QED BY <1>1, <1>2, <2>1 DEF CInv, Registers, Connecting, timer_vars, disc_vars, Pruning
<1> QED BY <1>3, <1>4, <1>5, <1>6, <1>8, <1>9 DEF CInv

\* connect reads the head; nobody changes it before the new head is stored,
\* which is when the callback counts as connected.
LEMMA ConnectHeadCalm ==
  ASSUME IInv, CInv, ConnectLoad \/ ConnectAdvance
  PROVE  CInv'
<1>1. /\ hpc \in {"connect", "advance"} /\ hpc' \in {"advance", "store"}
      /\ UNCHANGED <<fate, sessions, word, size, cbmap, hnew, hsize, timer_vars, adds, refused>>
  BY DEF ConnectLoad, ConnectAdvance, signal_vars, load_vars, conn_vars
<1>2. tpc \notin Pruning /\ Live' = Live /\ tpc' = tpc
  BY <1>1, NeverBoth DEF CInv, HasNew, Live, timer_vars
<1>3. Apart' /\ Running'
  BY <1>1, <1>2 DEF CInv, Apart, Running, HasNew
<1>4. MapLeads' /\ NoneRefused'
  BY <1>1, <1>2 DEF CInv, MapLeads, NoneRefused, SlotOf, HasNew, Pruning
<1>5. CallRuns'
  BY <1>1, <1>2 DEF CInv, CallRuns, timer_vars, emit_vars, disc_vars
<1>6. /\ word \in [Slots -> Words] /\ freeBeg \in Slots /\ size \in Nat
      /\ Lists!Whole(word, freeBeg, size) /\ word[freeBeg] \notin Handles
  BY <1>1, <1>2, ListNow DEF Pruning
<1>7. CASE ConnectLoad
  <2>1. /\ hpc' = "advance" /\ hslot' = freeBeg /\ hnext' = word[freeBeg] /\ freeBeg' = freeBeg
        /\ word[freeBeg] \in Slots /\ hpc = "connect"
    BY <1>7 DEF ConnectLoad, signal_vars
  <2>2. WordAfter' = word /\ SizeAfter' = size
    BY <1>1, <1>2, <2>1 DEF WordAfter, SizeAfter, Pruning
  <2>3. ListWhole'
    BY <1>6, <2>1, <2>2 DEF ListWhole
  <2>4. Registers'
    BY <1>1, <1>2, <2>1 DEF CInv, Registers, Connecting, timer_vars, disc_vars, Pruning
  <2> QED BY <1>3, <1>4, <1>5, <2>3, <2>4 DEF CInv
<1>8. CASE ConnectAdvance
  <2>1. /\ hpc = "advance" /\ hpc' = "store" /\ freeBeg' = hnext
        /\ hslot' = hslot /\ hnext' = hnext
    BY <1>8 DEF ConnectAdvance, conn_vars
  <2>2. hslot = freeBeg /\ hnext = word[freeBeg] /\ hnext \in Slots
    BY <2>1 DEF CInv, Registers
  <2>3. hnew \in Handles /\ hnew \notin Slots /\ hnew # Null
    <3>1. hnew \in Live
      BY <2>1 DEF CInv, MapLeads, HasNew
    <3> QED BY <3>1, PointersDistinct DEF IInv, SessionsOK
  <2>4. WordAfter' = [word EXCEPT ![freeBeg] = hnew] /\ SizeAfter' = size + 1
    BY <1>1, <2>1, <2>2 DEF WordAfter, SizeAfter
  <2>5. word[freeBeg] # Null
    BY <2>2, ListConstants
  <2>6. Lists!Whole([word EXCEPT ![freeBeg] = hnew], word[freeBeg], size + 1)
    BY <1>6, <2>3, <2>5, ListConstants, Lists!WholeConnect
  <2>7. ListWhole'
    BY <1>6, <2>1, <2>2, <2>4, <2>6 DEF ListWhole
  <2>8. Registers'
    BY <1>1, <1>2, <1>6, <2>1, <2>2 DEF CInv, Registers, Connecting, timer_vars, disc_vars,
                                        Pruning
  <2> QED BY <1>3, <1>4, <1>5, <2>7, <2>8 DEF CInv
<1> QED BY <1>7, <1>8

\* The closure goes into a slot that holds none.
LEMMA ConnectStoreCalm ==
  ASSUME IInv, CInv, ConnectStore
  PROVE  CInv'
<1>1. /\ hpc = "store" /\ hpc' = "count" /\ word' = [word EXCEPT ![hslot] = hnew]
      /\ hsize' = size /\ hslot' = hslot /\ hnext' = hnext
      /\ UNCHANGED <<fate, sessions, freeBeg, size, cbmap, hnew, timer_vars, adds, refused>>
  BY DEF ConnectStore, load_vars
<1>2. tpc \notin Pruning /\ Live' = Live /\ tpc' = tpc
  BY <1>1, NeverBoth DEF CInv, HasNew, Live, timer_vars
<1>3. /\ hnew \in Handles /\ hnew \in Live /\ cbmap[hnew] = Null
      /\ hslot \in Slots /\ word[hslot] \notin Handles /\ word \in [Slots -> Words]
  <2>1. hnew \in Live /\ cbmap[hnew] = Null
    BY <1>1 DEF CInv, MapLeads, HasNew
  <2> QED BY <1>1, <2>1 DEF IInv, SessionsOK, CInv, Registers
<1>4. \A t \in Slots : word'[t] = IF t = hslot THEN hnew ELSE word[t]
  BY <1>1, <1>3
<1>5. Apart' /\ Running' /\ NoneRefused'
  BY <1>1, <1>2 DEF CInv, Apart, Running, HasNew, NoneRefused
<1>6. MapLeads'
  <2>1. /\ \A h \in Handles : SlotOf(h) = cbmap[h]
        /\ \A h \in Handles : SlotOf(h)' = IF h = hnew THEN hslot ELSE cbmap[h]
    BY <1>1, <1>2 DEF SlotOf, Pruning
  <2>2. \A h \in Handles : \A t \in Slots : word[t] = h <=> t = cbmap[h]
    BY <2>1 DEF CInv, MapLeads
  <2>3. \A h \in Handles : \A t \in Slots : word'[t] = h <=> t = SlotOf(h)'
    BY <1>3, <1>4, <2>1, <2>2, PointersDistinct
  <2>4. hpc \in HasNew /\ hpc' \in HasNew
    BY <1>1 DEF HasNew
  <2> QED BY <1>1, <1>2, <2>3, <2>4 DEF CInv, MapLeads
<1>7. CallRuns'
  <2>1. tpc \in Calls => pos # hslot
    BY <1>2, <1>3 DEF CInv, CallRuns, Pruning
  <2> QED BY <1>1, <1>2, <1>4, <2>1 DEF CInv, CallRuns, timer_vars, emit_vars, disc_vars
<1>8. WordAfter' = WordAfter /\ SizeAfter' = SizeAfter
  BY <1>1, <1>2 DEF WordAfter, SizeAfter, Pruning
<1>9. ListWhole'
  BY <1>1, <1>8 DEF CInv, ListWhole
<1>10. Registers'
  <2>1. word' \in [Slots -> Words]
    BY <1>1, <1>3 DEF Words
  <2> QED BY <1>1, <1>2, <2>1 DEF CInv, Registers, Connecting, timer_vars, disc_vars, Pruning
<1> QED BY <1>5, <1>6, <1>7, <1>9, <1>10 DEF CInv

\* The count connect read is still right when it stores the next.
LEMMA ConnectCountCalm ==
  ASSUME IInv, Ranges, CInv, ConnectCount
  PROVE  CInv'
<1>1. /\ hpc = "count" /\ hpc' = "map" /\ size' = hsize + 1
      /\ UNCHANGED <<fate, sessions, word, freeBeg, cbmap, hnew, conn_vars, timer_vars, adds,
                     refused>>
  BY DEF ConnectCount, load_vars
<1>2. tpc \notin Pruning /\ Live' = Live /\ tpc' = tpc
  BY <1>1, NeverBoth DEF CInv, HasNew, Live, timer_vars
<1>3. hsize = size /\ size \in Nat /\ size < adds /\ adds \in Nat
  BY <1>1, NumbersAssumption DEF CInv, Registers, Connecting, Ranges, Counters
<1>4. Apart' /\ Running' /\ NoneRefused'
  BY <1>1, <1>2 DEF CInv, Apart, Running, HasNew, NoneRefused
<1>5. MapLeads'
  <2>1. \A h \in Handles : SlotOf(h)' = SlotOf(h)
    BY <1>1, <1>2 DEF SlotOf, Pruning, conn_vars
  <2> QED BY <1>1, <1>2, <2>1 DEF CInv, MapLeads, HasNew
<1>6. CallRuns'
  BY <1>1, <1>2 DEF CInv, CallRuns, timer_vars, emit_vars, disc_vars
<1>7. WordAfter' = WordAfter /\ SizeAfter' = SizeAfter
  BY <1>1, <1>2, <1>3 DEF WordAfter, SizeAfter, Pruning
<1>8. ListWhole'
  BY <1>1, <1>7 DEF CInv, ListWhole
<1>9. Registers'
  <2>1. size' \in Nat /\ size' <= adds
    BY <1>1, <1>3
  <2> QED BY <1>1, <1>2, <2>1
      DEF CInv, Registers, Connecting, conn_vars, timer_vars, disc_vars, Pruning
<1> QED BY <1>4, <1>5, <1>6, <1>8, <1>9 DEF CInv

\* The map is told the slot the callback is in.
LEMMA AddMapCalm ==
  ASSUME IInv, Ranges, CInv, AddMap
  PROVE  CInv'
<1>1. /\ hpc = "map" /\ hpc' = "idle" /\ cbmap' = [cbmap EXCEPT ![hnew] = hslot]
      /\ hnew' = None /\ hslot' = 0 /\ hnext' = 0 /\ hsize' = 0
      /\ UNCHANGED <<fate, sessions, word, freeBeg, size, timer_vars, adds, refused>>
  BY DEF AddMap, Finish, signal_vars, load_vars
<1>2. tpc \notin Pruning /\ Live' = Live /\ tpc' = tpc
  BY <1>1, NeverBoth DEF CInv, HasNew, Live, timer_vars
<1>3. /\ hnew \in Live /\ hnew \in Handles /\ hslot \in Slots
      /\ cbmap \in [Handles -> Slots \cup {Null}]
  BY <1>1 DEF CInv, MapLeads, HasNew, IInv, SessionsOK, Registers
<1>4. \A h \in Handles : cbmap'[h] = IF h = hnew THEN hslot ELSE cbmap[h]
  BY <1>1, <1>3
<1>5. Apart' /\ Running'
  BY <1>1, <1>2, <1>3, <1>4 DEF CInv, Apart, Running, HasNew
<1>6. NoneRefused'
  <2>1. hslot # Null
    BY <1>3, ListConstants
  <2> QED BY <1>1, <1>2, <1>4, <2>1 DEF CInv, NoneRefused, IInv, SessionsOK
<1>7. MapLeads'
  <2>1. \A h \in Handles : SlotOf(h)' = SlotOf(h)
    BY <1>1, <1>2, <1>4 DEF SlotOf, Pruning
  <2>2. cbmap' \in [Handles -> Slots \cup {Null}]
    BY <1>1, <1>3
  <2> QED BY <1>1, <1>2, <2>1, <2>2 DEF CInv, MapLeads, HasNew
<1>8. CallRuns'
  BY <1>1, <1>2 DEF CInv, CallRuns, timer_vars, emit_vars, disc_vars
<1>9. WordAfter' = WordAfter /\ SizeAfter' = SizeAfter
  BY <1>1, <1>2 DEF WordAfter, SizeAfter, Pruning
<1>10. ListWhole'
  BY <1>1, <1>9 DEF CInv, ListWhole
<1>11. Registers'
  <2>1. 0 \in Slots /\ 0 \in Nat /\ 0 <= adds
    BY NumbersAssumption DEF Slots, Ranges, Counters
  <2> QED BY <1>1, <1>2, <2>1 DEF CInv, Registers, Connecting, timer_vars, disc_vars, Pruning
<1> QED BY <1>5, <1>6, <1>7, <1>8, <1>10, <1>11 DEF CInv

\* A callback whose observable is removed stays where it is.
LEMMA RemoveCalm ==
  ASSUME IInv, Ranges, CInv, Remove
  PROVE  CInv'
<1>1. /\ hpc = "remove" /\ hpc' = "idle" /\ refused' = refused
      /\ hnew' = None /\ hslot' = 0 /\ hnext' = 0 /\ hsize' = 0
      /\ UNCHANGED <<fate, word, freeBeg, size, cbmap, timer_vars, adds>>
  BY DEF Remove, Finish, signal_vars, load_vars
<1>2. Live' \subseteq Live /\ tpc' = tpc
  BY <1>1, RemoveStep DEF timer_vars
<1>3. hnew = None
  BY <1>1 DEF CInv, MapLeads, HasNew
<1>4. Apart' /\ Running' /\ NoneRefused'
  BY <1>1, <1>2, <1>3
     DEF CInv, Apart, Running, HasNew, NoneRefused, timer_vars, emit_vars
<1>5. MapLeads'
  <2>1. \A h \in Handles : SlotOf(h)' = SlotOf(h)
    BY <1>1, <1>2 DEF SlotOf, timer_vars, emit_vars
  <2> QED BY <1>1, <1>3, <2>1 DEF CInv, MapLeads, HasNew
<1>6. CallRuns'
  BY <1>1, <1>2 DEF CInv, CallRuns, timer_vars, emit_vars, disc_vars
<1>7. WordAfter' = WordAfter /\ SizeAfter' = SizeAfter
  BY <1>1, <1>2 DEF WordAfter, SizeAfter, timer_vars, disc_vars
<1>8. ListWhole'
  BY <1>1, <1>7 DEF CInv, ListWhole
<1>9. Registers'
  <2>1. 0 \in Slots /\ 0 \in Nat /\ 0 <= adds
    BY NumbersAssumption DEF Slots, Ranges, Counters
  <2> QED BY <1>1, <1>2, <2>1 DEF CInv, Registers, Connecting, timer_vars, disc_vars
<1> QED BY <1>4, <1>5, <1>6, <1>8, <1>9 DEF CInv

\* The callback still has the mutex when it finds its observable gone, so that
\* no handler is at work.
LEMMA GoneCalm ==
  ASSUME IInv, CInv, Gone
  PROVE  CInv'
<1>1. /\ tpc = "body" /\ tpc' = "lookup" /\ cur \notin Live
      /\ UNCHANGED <<fate, sessions, word, freeBeg, size, cbmap, http_vars, emit_vars, disc_vars,
                     adds, refused>>
  BY DEF Gone, signal_vars, load_vars
<1>2. Live' = Live /\ UNCHANGED <<hpc, hreq, hnew, conn_vars>>
  BY <1>1 DEF Live, http_vars
<1>3. hpc \notin HttpHolds /\ hpc \notin HasNew
  BY <1>1 DEF IInv, Exclusion, TimerHolds, HttpHolds, HasNew
<1>5. Apart' /\ Running' /\ NoneRefused'
  BY <1>1, <1>2, <1>3 DEF CInv, Apart, Running, NoneRefused, emit_vars
<1>6. MapLeads'
  <2>1. \A h \in Handles : SlotOf(h)' = SlotOf(h)
    BY <1>1, <1>2 DEF SlotOf, conn_vars
  <2> QED BY <1>1, <1>2, <2>1 DEF CInv, MapLeads
<1>7. CallRuns'
  BY <1>1 DEF CInv, CallRuns, emit_vars, disc_vars, Calls, Pruning
<1>8. WordAfter' = WordAfter /\ SizeAfter' = SizeAfter
  BY <1>1, <1>2 DEF WordAfter, SizeAfter, conn_vars
<1>9. ListWhole'
  BY <1>1, <1>8 DEF CInv, ListWhole
<1>10. Registers'
  BY <1>1, <1>2 DEF CInv, Registers, Connecting, conn_vars, disc_vars
<1> QED BY <1>5, <1>6, <1>7, <1>9, <1>10 DEF CInv

\* The map leads to the slot emit is at; disconnect reads the head, which no
\* connect is about to take.
LEMMA PruneBegins ==
  ASSUME IInv, CInv, Lookup \/ DisconnectLoad
  PROVE  CInv'
<1>1. /\ tpc \in {"lookup", "disconnect"} /\ tpc' \in {"disconnect", "relink"}
      /\ UNCHANGED <<fate, sessions, word, freeBeg, size, cbmap, http_vars, emit_vars, tsize,
                     adds, refused>>
  BY DEF Lookup, DisconnectLoad, signal_vars, load_vars
<1>2. Live' = Live /\ UNCHANGED <<hpc, hreq, hnew, conn_vars>> /\ hpc \notin HasNew
  BY <1>1, NeverBoth DEF CInv, Live, http_vars, Pruning
<1>3. Apart' /\ Running' /\ NoneRefused'
  BY <1>1, <1>2 DEF CInv, Apart, Running, NoneRefused, emit_vars, Pruning
<1>4. MapLeads'
  <2>1. \A h \in Handles : SlotOf(h)' = SlotOf(h)
    BY <1>1, <1>2 DEF SlotOf, conn_vars
  <2> QED BY <1>1, <1>2, <2>1 DEF CInv, MapLeads
<1>5. pos \in Slots /\ cur \in Handles /\ word[pos] = cur /\ cbmap[cur] = pos
  <2>1. pos \in Slots /\ cur \in Handles /\ word[pos] = cur
    BY <1>1 DEF CInv, CallRuns, Calls, Pruning
  <2>2. pos = SlotOf(cur) /\ SlotOf(cur) = cbmap[cur]
    BY <1>1, <1>2, <2>1 DEF CInv, MapLeads, SlotOf, HasNew
  <2> QED BY <2>1, <2>2
<1>6. CallRuns' /\ tslot' \in Slots
  <2>1. CASE Lookup
    BY <1>1, <1>5, <2>1 DEF Lookup, CInv, CallRuns, emit_vars, Calls, Pruning
  <2>2. CASE DisconnectLoad
    BY <1>1, <1>5, <2>2 DEF DisconnectLoad, CInv, CallRuns, emit_vars, Calls, Pruning
  <2> QED BY <2>1, <2>2
<1>7. WordAfter' = WordAfter /\ SizeAfter' = SizeAfter
  BY <1>1, <1>2 DEF WordAfter, SizeAfter, HasNew
<1>8. ListWhole'
  BY <1>1, <1>7 DEF CInv, ListWhole
<1>9. Registers'
  <2>1. CASE Lookup
    BY <1>1, <1>2, <1>6, <2>1 DEF Lookup, CInv, Registers, Connecting, conn_vars
  <2>2. CASE DisconnectLoad
    BY <1>1, <1>2, <1>6, <2>2 DEF DisconnectLoad, CInv, Registers, Connecting, conn_vars
  <2> QED BY <2>1, <2>2
<1> QED BY <1>3, <1>4, <1>6, <1>8, <1>9 DEF CInv

\* With the link from the head the callback counts as disconnected.
LEMMA RelinkCalm ==
  ASSUME IInv, CInv, DisconnectRelink
  PROVE  CInv'
<1>1. /\ tpc = "relink" /\ tpc' = "link" /\ word' = [word EXCEPT ![thead] = tslot]
      /\ UNCHANGED <<fate, sessions, freeBeg, size, cbmap, http_vars, emit_vars, disc_vars,
                     adds, refused>>
  BY DEF DisconnectRelink, load_vars
<1>2. Live' = Live /\ UNCHANGED <<hpc, hreq, hnew, conn_vars>> /\ hpc \notin HasNew
  BY <1>1, NeverBoth DEF CInv, Live, http_vars, Pruning
<1>3. /\ word \in [Slots -> Words] /\ freeBeg \in Slots /\ size \in Nat
      /\ Lists!Whole(word, freeBeg, size)
      /\ thead = freeBeg /\ told = word[freeBeg] /\ told \in Slots \cup {Null}
  BY <1>1, <1>2, ListNow DEF CInv, Registers, HasNew
<1>4. tslot = pos /\ pos \in Slots /\ word[pos] = cur /\ cur \in Handles
  BY <1>1 DEF CInv, CallRuns, Calls, Pruning
<1>5. /\ tslot # freeBeg /\ size >= 1
      /\ Lists!Whole([word EXCEPT ![tslot] = word[freeBeg], ![freeBeg] = tslot], freeBeg,
                     size - 1)
  <2>1. Lists!IsCallback(word[tslot])
    BY <1>3, <1>4, ListConstants
  <2> QED BY <1>3, <1>4, <2>1, ListConstants, Lists!WholeDisconnect
<1>6. \A t \in Slots : word'[t] = IF t = freeBeg THEN tslot ELSE word[t]
  BY <1>1, <1>3
<1>7. Apart' /\ Running' /\ NoneRefused'
  BY <1>1, <1>2 DEF CInv, Apart, Running, NoneRefused, emit_vars, Pruning
<1>8. MapLeads'
  <2>1. \A h \in Handles : SlotOf(h)' = SlotOf(h)
    BY <1>1, <1>2 DEF SlotOf, conn_vars
  <2>2. \A h \in Handles : \A t \in Slots : word'[t] = h <=> word[t] = h
    BY <1>3, <1>4, <1>6, PointersDistinct
  <2> QED BY <1>1, <1>2, <2>1, <2>2 DEF CInv, MapLeads
<1>9. CallRuns'
  BY <1>1, <1>4, <1>5, <1>6 DEF CInv, CallRuns, emit_vars, disc_vars, Calls, Pruning
<1>10. ListWhole'
  <2>1. WordAfter' = [word' EXCEPT ![tslot] = told] /\ SizeAfter' = size - 1
    BY <1>1, <1>2 DEF WordAfter, SizeAfter, disc_vars, HasNew
  <2>2. [word' EXCEPT ![tslot] = told]
          = [word EXCEPT ![tslot] = word[freeBeg], ![freeBeg] = tslot]
    BY <1>1, <1>3, <1>4, <1>5
  <2>3. size - 1 \in Nat
    BY <1>3, <1>5
  <2> QED BY <1>1, <1>5, <2>1, <2>2, <2>3 DEF ListWhole
<1>11. Registers'
  <2>1. word' \in [Slots -> Words]
    BY <1>1, <1>3, <1>4 DEF Words
  <2> QED BY <1>1, <1>2, <1>3, <2>1 DEF CInv, Registers, Connecting, conn_vars, disc_vars,
                                             HasNew
<1> QED BY <1>7, <1>8, <1>9, <1>10, <1>11 DEF CInv

\* Then the slot itself links to what followed the head, and holds no
\* callback any more.
LEMMA LinkCalm ==
  ASSUME IInv, CInv, DisconnectLink
  PROVE  CInv'
<1>1. /\ tpc = "link" /\ tpc' = "uncount" /\ word' = [word EXCEPT ![tslot] = told]
      /\ tsize' = size
      /\ UNCHANGED <<fate, sessions, freeBeg, size, cbmap, http_vars, emit_vars, tslot, thead,
                     told, adds, refused>>
  BY DEF DisconnectLink, load_vars
<1>2. Live' = Live /\ UNCHANGED <<hpc, hreq, hnew, conn_vars>> /\ hpc \notin HasNew
  BY <1>1, NeverBoth DEF CInv, Live, http_vars, Pruning
<1>3. /\ tslot = pos /\ pos \in Slots /\ word[pos] = cur /\ cur \in Handles
      /\ cbmap[cur] = pos /\ left >= 1
      /\ word \in [Slots -> Words] /\ told \in Slots \cup {Null}
  BY <1>1 DEF CInv, CallRuns, Registers, Calls, Pruning
<1>4. \A t \in Slots : word'[t] = IF t = pos THEN told ELSE word[t]
  BY <1>1, <1>3
<1>5. Apart' /\ Running' /\ NoneRefused'
  BY <1>1, <1>2 DEF CInv, Apart, Running, NoneRefused, emit_vars, Pruning
<1>6. MapLeads'
  <2>1. /\ \A h \in Handles : SlotOf(h) = cbmap[h]
        /\ \A h \in Handles : SlotOf(h)' = IF h = cur THEN Null ELSE cbmap[h]
    BY <1>1, <1>2 DEF SlotOf, HasNew, emit_vars
  <2>2. \A h \in Handles : \A t \in Slots : word[t] = h <=> t = cbmap[h]
    BY <2>1 DEF CInv, MapLeads
  <2>3. told \notin Handles /\ \A t \in Slots : t # Null
    BY <1>3, PointersDistinct
  <2>4. \A h \in Handles : \A t \in Slots : word'[t] = h <=> t = SlotOf(h)'
    BY <1>3, <1>4, <2>1, <2>2, <2>3
  <2> QED BY <1>1, <1>2, <2>4 DEF CInv, MapLeads
<1>7. CallRuns'
  BY <1>1, <1>3 DEF CInv, CallRuns, emit_vars, Calls, Pruning
<1>8. WordAfter' = WordAfter /\ SizeAfter' = SizeAfter
  BY <1>1, <1>2 DEF WordAfter, SizeAfter, HasNew
<1>9. ListWhole'
  BY <1>1, <1>8 DEF CInv, ListWhole
<1>10. Registers'
  <2>1. word' \in [Slots -> Words]
    BY <1>1, <1>3 DEF Words
  <2> QED BY <1>1, <1>2, <2>1 DEF CInv, Registers, Connecting, conn_vars, HasNew
<1> QED BY <1>5, <1>6, <1>7, <1>9, <1>10 DEF CInv

\* The count disconnect read is still right when it stores the next.
LEMMA UncountCalm ==
  ASSUME IInv, Ranges, CInv, DisconnectCount
  PROVE  CInv'
<1>1. /\ tpc = "uncount" /\ tpc' = "erase" /\ size' = tsize - 1
      /\ UNCHANGED <<fate, sessions, word, freeBeg, cbmap, http_vars, emit_vars, disc_vars,
                     adds, refused>>
  BY DEF DisconnectCount, load_vars
<1>2. Live' = Live /\ UNCHANGED <<hpc, hreq, hnew, conn_vars>> /\ hpc \notin HasNew
  BY <1>1, NeverBoth DEF CInv, Live, http_vars, Pruning
<1>3. size' = size - 1 /\ size' \in Nat /\ size' <= adds
  <2>1. tsize = size /\ size \in Nat /\ size <= adds /\ adds \in Nat
    BY <1>1, NumbersAssumption DEF CInv, Registers, Ranges, Counters
  <2>2. size - 1 \in Nat
    BY <1>1, <1>2 DEF CInv, ListWhole, SizeAfter, HasNew
  <2> QED BY <1>1, <2>1, <2>2
<1>4. Apart' /\ Running' /\ NoneRefused'
  BY <1>1, <1>2 DEF CInv, Apart, Running, NoneRefused, emit_vars, Pruning
<1>5. MapLeads'
  <2>1. \A h \in Handles : SlotOf(h)' = SlotOf(h)
    BY <1>1, <1>2 DEF SlotOf, conn_vars, emit_vars
  <2> QED BY <1>1, <1>2, <2>1 DEF CInv, MapLeads
<1>6. CallRuns'
  BY <1>1 DEF CInv, CallRuns, emit_vars, disc_vars, Calls, Pruning
<1>7. WordAfter' = WordAfter /\ SizeAfter' = SizeAfter
  BY <1>1, <1>2, <1>3 DEF WordAfter, SizeAfter, HasNew
<1>8. ListWhole'
  BY <1>1, <1>7 DEF CInv, ListWhole
<1>9. Registers'
  BY <1>1, <1>2, <1>3 DEF CInv, Registers, Connecting, conn_vars, disc_vars, HasNew
<1> QED BY <1>4, <1>5, <1>6, <1>8, <1>9 DEF CInv

\* The entry erased is that of the callback just disconnected.
LEMMA EraseCalm ==
  ASSUME IInv, Ranges, CInv, NEW k \in Handles \cup {None}, Erase(k), mishaps' = {}
  PROVE  CInv'
<1>1. /\ tpc = "erase" /\ tpc' = "scan" /\ k = cur
      /\ cbmap' = [h \in Handles |-> IF h = k THEN Null ELSE cbmap[h]]
      /\ left' = left - 1 /\ tslot' = Null /\ thead' = 0 /\ told' = Null /\ tsize' = 0
      /\ UNCHANGED <<fate, sessions, word, freeBeg, size, http_vars, adds, refused>>
  BY DEF Erase, Return, signal_vars
<1>2. Live' = Live /\ UNCHANGED <<hpc, hreq, hnew, conn_vars>> /\ hpc \notin HasNew
  BY <1>1, NeverBoth DEF CInv, Live, http_vars, Pruning
<1>3. cur \in Handles /\ cur \notin Live
  BY <1>1 DEF CInv, Apart, CallRuns, Calls, Pruning
<1>4. Apart' /\ Running' /\ NoneRefused'
  BY <1>1, <1>2, <1>3
     DEF CInv, Apart, Running, NoneRefused, Pruning, IInv, SessionsOK
<1>5. MapLeads'
  <2>1. \A h \in Handles : SlotOf(h)' = SlotOf(h)
    BY <1>1, <1>2 DEF SlotOf, HasNew
  <2>2. cbmap' \in [Handles -> Slots \cup {Null}]
    BY <1>1 DEF CInv, MapLeads
  <2> QED BY <1>1, <1>2, <2>1, <2>2 DEF CInv, MapLeads, HasNew, HasNew
<1>6. CallRuns'
  <2>1. left \in Nat /\ left <= MaxAdds /\ left >= 1
    BY <1>1 DEF CInv, CallRuns, Calls, Pruning
  <2>2. left' \in Nat /\ left' <= MaxAdds
    BY <1>1, <2>1, NumbersAssumption
  <2> QED BY <1>1, <2>2 DEF CallRuns, Calls, Pruning
<1>7. WordAfter' = WordAfter /\ SizeAfter' = SizeAfter
  BY <1>1, <1>2 DEF WordAfter, SizeAfter, HasNew
<1>8. ListWhole'
  BY <1>1, <1>7 DEF CInv, ListWhole
<1>9. Registers'
  <2>1. 0 \in Slots /\ 0 \in Nat /\ 0 <= adds /\ Null \in Words
    BY NumbersAssumption DEF Slots, Words, Ranges, Counters
  <2> QED BY <1>1, <1>2, <2>1 DEF CInv, Registers, Connecting, conn_vars
<1> QED BY <1>4, <1>5, <1>6, <1>8, <1>9 DEF CInv

-----------------------------------------------------------------------------
\* The inductive invariant of signal and map, and what follows from it.

\* The array is one free list, the map empty, and nothing runs.
LEMMA InitCInv == Init => CInv
<1> SUFFICES ASSUME Init PROVE CInv
  OBVIOUS
<1>1. /\ word = [s \in Slots |-> IF s < UpperLimit THEN s + 1 ELSE Null]
      /\ freeBeg = 0 /\ size = 0 /\ adds = 0 /\ left = 0
      /\ hpc = "idle" /\ hnew = None /\ tpc = "absent"
      /\ \A h \in Handles : cbmap[h] = Null
      /\ cbmap \in [Handles -> Slots \cup {Null}]
      /\ hslot = 0 /\ hnext = 0 /\ hsize = 0
      /\ tslot = Null /\ thead = 0 /\ told = Null /\ tsize = 0
      /\ Live = {}
  BY DEF Init, Live
<1>2. 0 \in Slots /\ 0 <= MaxAdds /\ Null \in Words
  BY NumbersAssumption DEF Slots, Words
<1>3. Running
  BY DEF Init, Running
<1>4. Apart
  BY <1>1 DEF Apart, HasNew, Pruning
<1>5. word \in [Slots -> Words] /\ Lists!Whole(word, 0, 0) /\ Lists!Used(word) = {}
  BY <1>1, ListConstants, Lists!WholeAtFirst
<1>6. MapLeads
  <2>1. \A t \in Slots : word[t] \notin Handles
    BY <1>5, ListConstants DEF Lists!Used
  <2>2. \A h \in Handles : SlotOf(h) = Null
    BY <1>1 DEF SlotOf
  <2> QED BY <1>1, <2>1, <2>2, PointersDistinct DEF MapLeads, HasNew
<1>7. NoneRefused
  BY <1>1 DEF NoneRefused
<1>8. CallRuns
  BY <1>1, <1>2 DEF CallRuns, Calls, Pruning
<1>9. ListWhole
  BY <1>1, <1>5 DEF ListWhole, WordAfter, SizeAfter
<1>10. Registers
  BY <1>1, <1>2, <1>5 DEF Registers, Connecting
<1> QED BY <1>3, <1>4, <1>6, <1>7, <1>8, <1>9, <1>10 DEF CInv

\* Every step keeps the ranges.
LEMMA NextRanges == IInv /\ Ranges /\ [Next]_vars => Ranges'
BY CountersStep, ObservedStep, PlacesStep, FlagsStep DEF Ranges

\* What has happened stays on record.
LEMMA MishapsStay ==
  ASSUME [Next]_vars PROVE mishaps' = {} => mishaps = {}
<1>1. CASE \E h \in Handles : AddCreate(h)
  BY <1>1 DEF AddCreate
<1>2. CASE \E k \in Handles \cup {None} : Erase(k)
  BY <1>2 DEF Erase
<1>3. CASE ~((\E h \in Handles : AddCreate(h)) \/ (\E k \in Handles \cup {None} : Erase(k)))
  <2>1. mishaps' = mishaps
    BY <1>3, ZenonT(60) DEF Next, HttpStep, TimerStep, Answer, Receive, HttpLock, AddRefused,
       ConnectRefused, ConnectLoad, ConnectCorrupt, ConnectAdvance, ConnectStore,
       ConnectCount, AddMap, MapRace, UnknownHandle, UpdateSame, UpdateParam, UpdateClear,
       Remove, Read, Once, EmitBegin, EmitSkip, EmitCall, EmitEnd, TimerLock, NotDue, Fetch,
       Extract, AddValue, Gone, Lookup, DisconnectThrows, DisconnectLoad, DisconnectRelink,
       DisconnectLink, DisconnectCount, Tick, ClockForward, ClockBack, load_vars, vars
  <2> QED BY <2>1
<1> QED BY <1>1, <1>2, <1>3

\* Every step keeps the invariant of signal and map, up to the first mishap.
LEMMA NextCInv ==
  IInv /\ Ranges /\ (mishaps = {} => CInv) /\ [Next]_vars => (mishaps = {} => CInv)'
<1> SUFFICES ASSUME IInv, Ranges, mishaps = {} => CInv, [Next]_vars, mishaps' = {}
             PROVE  CInv'
  OBVIOUS
<1>0. CInv
  BY MishapsStay
<1>1. CASE \/ \E r \in Requests : Receive(r)
           \/ HttpLock \/ AddRefused \/ UnknownHandle \/ UpdateSame \/ UpdateParam
           \/ UpdateClear \/ Read \/ Once
           \/ TimerLock \/ Fetch \/ (\E ok \in BOOLEAN : Extract(ok))
           \/ Tick \/ ClockForward \/ ClockBack \/ UNCHANGED vars
  BY <1>0, <1>1, QuietStep
<1>2. CASE ConnectCorrupt \/ MapRace \/ DisconnectThrows
  BY <1>0, <1>2, NoFatalStep
<1>3. CASE \E h \in Handles : AddCreate(h)
  BY <1>0, <1>3, AddCreateCalm
<1>4. CASE \/ ConnectRefused \/ ConnectLoad \/ ConnectAdvance \/ ConnectStore \/ ConnectCount
           \/ AddMap
  BY <1>0, <1>4, ConnectRefusedCalm, ConnectHeadCalm, ConnectStoreCalm, ConnectCountCalm, AddMapCalm
<1>5. CASE Remove
  BY <1>0, <1>5, RemoveCalm
<1>6. CASE EmitBegin \/ EmitSkip \/ EmitCall \/ EmitEnd
  BY <1>0, <1>6, EmitMoves
<1>7. CASE NotDue \/ AddValue
  BY <1>0, <1>7, ReturnStep
<1>8. CASE \/ Gone \/ Lookup \/ DisconnectLoad \/ DisconnectRelink \/ DisconnectLink
           \/ DisconnectCount
  BY <1>0, <1>8, GoneCalm, PruneBegins, RelinkCalm, LinkCalm, UncountCalm
<1>9. CASE \E k \in Handles \cup {None} : Erase(k)
  BY <1>0, <1>9, EraseCalm
<1> QED BY <1>1, <1>2, <1>3, <1>4, <1>5, <1>6, <1>7, <1>8, <1>9
     DEF Next, HttpStep, TimerStep, Answer

\* Nothing has been counted, and both threads are where they begin.
LEMMA InitRanges == Init => Ranges
<1> SUFFICES ASSUME Init PROVE Ranges
  OBVIOUS
<1> USE NumbersAssumption
<1>1. Live = {} /\ Cardinality({}) = 0 /\ MaxSessions \in Nat
  BY HandlesAssumption, FS_EmptySet DEF Init, Live
<1>2. Counters
  BY DEF Init, Counters
<1>3. Observed
  BY <1>1 DEF Observed
<1>4. Places
  BY DEF Init, Places, Calls, Pruning, HasNew
<1>5. Flags
  BY DEF Init, Flags
<1> QED BY <1>2, <1>3, <1>4, <1>5 DEF Ranges

\* Whatever clients do, no more observables live than max_sessions, no buffer
\* holds more than its capacity, and emit stays within the array.
THEOREM StoreBounded ==
  Spec => [](/\ Cardinality(Live) <= MaxSessions
             /\ \A h \in Live : Len(sessions[h].values) <= ValuesCap
             /\ pos \in 0..UpperLimit+1)
<1>1. Ranges => /\ Cardinality(Live) <= MaxSessions
                /\ \A h \in Live : Len(sessions[h].values) <= ValuesCap
                /\ pos \in 0..UpperLimit+1
  BY DEF Ranges, Observed, Places
<1> QED BY <1>1, InitIInv, NextIInv, InitRanges, NextRanges, PTL DEF Spec

\* So all of it holds throughout.
LEMMA CalmInvariant == Spec => [](IInv /\ Ranges /\ (mishaps = {} => CInv))
<1>1. Init => (mishaps = {} => CInv)
  BY InitCInv
<1> QED BY <1>1, NextCInv, InitIInv, NextIInv, InitRanges, NextRanges, PTL DEF Spec

\* The invariants imply the types.
LEMMA TypesFollow ==
  ASSUME IInv, Ranges, CInv
  PROVE  TypeOK
<1> USE NumbersAssumption
<1>1. adds \in Nat /\ adds <= MaxAdds
  BY DEF Ranges, Counters
<1>2. /\ size \in -MaxAdds..MaxAdds /\ hsize \in -MaxAdds..MaxAdds
      /\ tsize \in -MaxAdds..MaxAdds /\ left \in -MaxAdds..MaxAdds
  BY <1>1 DEF CInv, Registers, CallRuns
<1>3. /\ adds \in 0..MaxAdds /\ back \in 0..MaxBack /\ since \in -MaxBack..(1 + MaxBack)
      /\ forth \in 0..MaxForward
  BY DEF Ranges, Counters
<1>4. \A h \in Live : sessions[h] \in Observable /\ Len(sessions[h].values) <= ValuesCap
  <2> SUFFICES ASSUME NEW h \in Live
               PROVE  sessions[h] \in Observable /\ Len(sessions[h].values) <= ValuesCap
    OBVIOUS
  <2>1. /\ sessions[h] \in Session /\ sessions[h].interval \in 0..Cap
        /\ sessions[h].gap \in 0..Cap /\ Len(sessions[h].values) <= ValuesCap
    BY DEF IInv, SessionsOK, Ranges, Observed
  <2>2. sessions[h].elapsed \in -MaxBack..Cap
    <3>1. /\ sessions[h].elapsed + back >= 0 /\ sessions[h].elapsed <= Cap
          /\ sessions[h].elapsed \in Int
      BY <2>1 DEF Ranges, Observed, Session
    <3> QED BY <1>3, <3>1
  <2>3. sessions[h].ahead \in 0..MaxForward
    <3>1. sessions[h].ahead \in Nat /\ sessions[h].ahead <= forth
      BY DEF Ranges, Observed
    <3> QED BY <1>3, <3>1
  <2> QED BY <2>1, <2>2, <2>3 DEF Session, Observable
<1>5. /\ word \in [Slots -> Slots \cup Handles \cup {Null}] /\ freeBeg \in Slots
      /\ cbmap \in [Handles -> Slots \cup {Null}]
      /\ hslot \in Slots /\ hnext \in Slots
      /\ tslot \in Slots \cup {Null} /\ thead \in Slots
      /\ told \in Slots \cup Handles \cup {Null}
  BY DEF CInv, Registers, MapLeads, Words
<1>6. /\ hpc \in {"idle", "lock", "add", "connect", "advance", "store", "count", "map",
                  "update", "clear", "remove", "read", "list", "once"}
      /\ tpc \in {"absent", "sleep", "scan", "lock", "body", "fetch", "add", "lookup",
                  "disconnect", "relink", "link", "uncount", "erase"}
  BY DEF Ranges, Places, HttpHolds, Calls, Pruning
<1>7. /\ fate \in {"running", "terminated", "undefined"} /\ lock \in {"free", "http", "timer"}
      /\ Live \subseteq Handles /\ Cardinality(Live) <= MaxSessions
      /\ hreq \in Requests \cup {None} /\ hnew \in Handles \cup {None}
      /\ reply \in {"none", "pending", "success", "data", "not found", "dropped"}
      /\ pos \in 0..UpperLimit+1 /\ cur \in Handles \cup {None} /\ value \in Value \cup {None}
      /\ mishaps \subseteq {"overlap", "reuse", "stray"} /\ refused \subseteq Handles
      /\ joined \in BOOLEAN /\ owed \subseteq Slots
  BY DEF IInv, Exclusion, SessionsOK, Ranges, Places, Observed, Flags
<1> QED BY <1>2, <1>3, <1>4, <1>5, <1>6, <1>7 DEF TypeOK

\* An observable no handler is working on has its callback in the slot the map
\* names, and in no other.
LEMMA ScheduledFollows ==
  ASSUME IInv, CInv
  PROVE  EveryObservableScheduled
<1> SUFFICES ASSUME NEW h \in Live \ ({hnew} \cup refused)
             PROVE  \E s \in Slots : cbmap[h] = s /\ \A t \in Slots : word[t] = h <=> t = s
  BY DEF EveryObservableScheduled
<1>1. h \in Handles /\ cbmap[h] \in Slots
  BY DEF IInv, SessionsOK, CInv, NoneRefused, MapLeads
<1>2. SlotOf(h) = cbmap[h]
  <2>1. ~(tpc \in {"uncount", "erase"} /\ h = cur)
    BY DEF CInv, Apart, Pruning
  <2> QED BY <2>1 DEF SlotOf
<1>3. \A t \in Slots : word[t] = h <=> t = cbmap[h]
  BY <1>1, <1>2 DEF CInv, MapLeads
<1> QED BY <1>1, <1>3

\* Between operations the array is as SimpleSignal relies on it.
LEMMA IntactFollows ==
  ASSUME CInv
  PROVE  SignalIntact
<1> SUFFICES ASSUME ~Connecting, ~Disconnecting
             PROVE  Signal!FreeListInv /\ Signal!SizeCounts
  BY DEF SignalIntact
<1>1. /\ word \in [Slots -> Words] /\ freeBeg \in Slots /\ size \in Nat
      /\ Lists!Whole(word, freeBeg, size)
  BY ListNow DEF Connecting, Disconnecting
<1>2. Signal!FreeListInv
  <2>1. Signal!Whole(word, freeBeg, size) <=> Lists!Whole(word, freeBeg, size)
    BY DEF Signal!Whole, Lists!Whole, Signal!IsFreeList, Lists!IsFreeList, Signal!Slots,
           Lists!Slots, Signal!IsCallback, Lists!IsCallback
  <2> QED BY <1>1, <2>1 DEF Signal!FreeListInv
<1>3. Signal!SizeCounts
  <2>1. size = Lists!Cardinality(Lists!Used(word))
    BY <1>1, ListConstants, Lists!WholeCounts
  <2>2. Signal!ConnectedSlots = Lists!Used(word)
    BY DEF Signal!ConnectedSlots, Lists!Used, Signal!Slots, Lists!Slots,
           Signal!IsCallback, Lists!IsCallback
  <2>3. \A S : Signal!Cardinality(S) = Lists!Cardinality(S)
    BY DEF Signal!Cardinality, Signal!IsFiniteSet, Lists!Cardinality, Lists!IsFiniteSet
  <2> QED BY <2>1, <2>2, <2>3 DEF Signal!SizeCounts
<1> QED BY <1>2, <1>3

\* Requests end the process, or corrupt the signal or the map, only after a
\* mishap: a handle given out again while its old callback is connected, a
\* connect that overlaps a disconnect, or an erase that reads another handle out
\* of freed memory.  Up to then they cannot, at whatever point timer, devices
\* and clock interrupt them, and with fewer slots than observables.
THEOREM ProcessSurvives == Spec => []Survives
<1>1. (mishaps = {} => CInv) => Survives
  BY DEF CInv, Survives
<1> QED BY <1>1, CalmInvariant, PTL

\* And up to then every observable a client can see, but for those whose
\* connect threw, keeps exactly one callback, where the map says, and the signal
\* is intact whenever no operation on it is in progress.
THEOREM CallbacksKept == Spec => []CallbacksInv
<1>1. IInv /\ Ranges /\ (mishaps = {} => CInv) => CallbacksInv
  BY TypesFollow, ScheduledFollows, IntactFollows DEF CallbacksInv
<1> QED BY <1>1, CalmInvariant, PTL

==============================================================================
