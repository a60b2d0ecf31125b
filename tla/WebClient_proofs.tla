--------------------------- MODULE WebClient_proofs ---------------------------
(* For any requests and connections: who uses which, how often a request is  *)
(* written, what the application is told, and that a response goes, whole,   *)
(* to the request it answers.                                                *)
EXTENDS WebClient, Integers, SequenceTheorems, FiniteSetTheorems, TLAPS

-----------------------------------------------------------------------------
(* The inductive invariant.                                                *)

Connecting == {Phases[i] : i \in 1..Len(Phases)}

\* Before and after the head of the response.
Beginning == Connecting \cup {"write", "read"}
Receiving == {"content", "rest", "size", "data"}

Stages == {"idle", "done", "callback", "events"} \cup Beginning \cup Receiving

Framings == {"none", "length", "long", "eof", "chunked", "overlong", "events", "malformed",
             "bad_length"}
Kinds == {"head", "body", "size", "data", "zero", "end", "big", "fill", "astray", "tail", "event"}
Part == [kind : Kinds,
         req : Requests, framing : Framings]

Connection == [open : BOOLEAN, inUse : BOOLEAN, again : BOOLEAN, timer : BOOLEAN,
               expired : BOOLEAN, shut : BOOLEAN, stream : BOOLEAN]
Device == [up : BOOLEAN, asked : Seq(Requests), out : Seq(Part), inbox : Seq(Part)]
Session == [stage : Stages, conn : Conns \cup {None}, buf : Seq(Part), cut : BOOLEAN,
            head : Requests \cup {None}, framing : Framings, held : 0..Limit, got : Nat,
            left : Nat, from : {"own", "idle", "released"}]

Types ==
    /\ pool \in SUBSET Conns
    /\ conn \in [Conns -> Connection]
    /\ net \in [Conns -> Device]
    /\ session \in [Requests -> Session]
    /\ calling \in CallbackArgs \cup {None}
    /\ running \in BOOLEAN
    /\ calls \in [Requests -> Seq({"part", "end", "error"})]
    /\ sends \in [Requests -> Nat]

\* A callback for an error is the last; one that leaves more to come is not an end.
CallInv ==
    calling # None =>
        /\ running
        /\ calling.ec => calling.end /\ calling.next = "done"
        /\ calling.end <=> calling.next = "done" \/ (calling.next = "events" /\ calling.end)
        /\ session[calling.req].stage = "callback"

\* What the stage of a request says of the rest of its session.
SessionInv(r) ==
    LET s == session[r]
    IN  /\ IF r \in Active THEN s.conn \in Conns ELSE s.conn = None /\ s.head = None
        /\ s.stage \in Beginning =>
              s.head = None /\ s.buf = <<>> /\ s.held = 0 /\ s.got = 0
        /\ s.stage \in Receiving \cup {"events"} => s.head \in Requests
        /\ s.stage = "data" => s.held < Limit
        /\ s.cut => r \in Active /\ conn[s.conn].shut
        /\ s.stage \in (Beginning \ {"resolve"}) \cup Receiving \cup {"events"} =>
              conn[s.conn].open
        /\ s.stage = "callback" =>
              /\ calling # None /\ calling.req = r
              /\ ~calling.ec => conn[s.conn].open /\ s.head \in Requests
              /\ calling.next = "data" => s.held < Limit

\* Connections nobody refers to are gone; without a socket there is no device.
ConnInv(c) ==
    /\ c \notin pool \cup Held => conn[c] = NewConn /\ (running => net[c] = NoNet)
    /\ ~conn[c].open => ~conn[c].stream /\ (running => net[c] = NoNet)
    /\ c \in pool /\ ~conn[c].open /\ running => c \in Held

\* A device that is gone sends nothing any more.
NetInv(c) == ~net[c].up => net[c].asked = <<>> /\ net[c].out = <<>>

\* r has been given its connection, and has not given it back.
Ending(r) == calling # None /\ calling.req = r /\ calling.end
Uses(r) == r \in Active /\ ~Ending(r)

\* Between callbacks all connections of the pool but one are in use.
IdleInv ==
    calling = None => \A c, d \in pool : ~conn[c].inUse /\ ~conn[d].inUse => c = d

\* r reads a stream of events, or is told of one.
Streams(r) ==
    \/ session[r].stage = "events"
    \/ calling # None /\ calling.req = r /\ calling.next = "events"

\* A connection is used by one request at a time, for whom it is marked as in
\* use; only a stream of events is used unmarked.
SharingInv ==
    /\ \A r \in Requests : Streams(r) => conn[session[r].conn].stream
    /\ \A r \in Requests : Uses(r) => conn[session[r].conn].inUse \/ conn[session[r].conn].stream
    /\ \A q, r \in Requests :
          Uses(q) /\ Uses(r) /\ q # r /\ session[q].conn = session[r].conn =>
              conn[session[r].conn].stream
    /\ \A c \in pool : running /\ conn[c].inUse => \E r \in Requests : Uses(r) /\ session[r].conn = c

\* A stream of events in the pool has its reader.
Reads(r) == Streams(r) \/ (calling # None /\ calling.req = r /\ calling.ec)
StreamInv ==
    \A c \in pool : running /\ conn[c].stream => \E r \in Requests : session[r].conn = c /\ Reads(r)

\* A connection that may not be tried again is that of a second attempt.
AttemptInv(r) ==
    session[r].stage \in Beginning /\ ~conn[session[r].conn].again =>
        session[r].from = "own" /\ ~conn[session[r].conn].stream

\* One that was idle belongs to the request alone, until stop takes it.
IdleTakenInv(r) ==
    LET c == session[r].conn
    IN  session[r].stage \in Beginning /\ session[r].from = "idle" =>
          /\ session[r].stage \in {"write", "read"} /\ ~conn[c].stream
          /\ \A q \in Requests : q # r => session[q].conn # c
          /\ running => c \in pool \/ conn[c].shut

SendsInv(r) ==
    LET again == conn[session[r].conn].again
    IN  /\ session[r].stage = "idle" => sends[r] = 0
        /\ session[r].stage \in Connecting => sends[r] = 0 \/ (~again /\ sends[r] <= 1)
        /\ session[r].stage \in {"write", "read"} => sends[r] <= 1 \/ ~again
        /\ sends[r] <= 2

\* What the application has been told of a request, by its stage.
Opened(told) ==
    /\ told # <<>> /\ told[1] = "end"
    /\ \A i \in 2..Len(told) : told[i] = "part"
InParts(told) == \A i \in 1..Len(told) : told[i] = "part"

TalkInv(r) ==
    /\ session[r].stage \in {"idle"} \cup Beginning => calls[r] = <<>>
    /\ session[r].stage \in Receiving => InParts(calls[r])
    /\ session[r].stage = "events" => Opened(calls[r])
    /\ session[r].stage = "callback" =>
          IF calling.next = "events"
          THEN IF calling.end THEN calls[r] = <<>> ELSE Opened(calls[r])
          ELSE InParts(calls[r]) \/ (calling.ec /\ Opened(calls[r]))
    /\ session[r].stage = "done" =>
          /\ \A i \in 1..(Len(calls[r]) - 1) :
                /\ calls[r][i] # "error"
                /\ calls[r][i] = "end" => i = 1 /\ calls[r][Len(calls[r])] # "end"
          /\ running => calls[r] # <<>> /\ calls[r][Len(calls[r])] # "part"

PoolIInv ==
    /\ Types /\ CallInv
    /\ \A r \in Requests : SessionInv(r)
    /\ \A c \in Conns : ConnInv(c) /\ NetInv(c)

UseIInv ==
    /\ IdleInv /\ SharingInv /\ StreamInv
    /\ \A r \in Requests : AttemptInv(r) /\ IdleTakenInv(r) /\ SendsInv(r) /\ TalkInv(r)

IInv == PoolIInv /\ UseIInv /\ FailsForCause

-----------------------------------------------------------------------------
(* Types.                                                                  *)

\* The stages before a request is written: connecting follows resolving.
LEMMA ConnectingFacts ==
    /\ Connecting \subseteq {"resolve", "connect", "ask_proxy", "proxy_answers", "handshake"}
    /\ "resolve" \in Connecting
    /\ \A p \in Connecting :
          /\ After(p) \in (Connecting \ {"resolve"}) \cup {"write"}
          /\ After(p) = "connect" <=> p = "resolve"
<1>0. PICK n \in Nat : n = Len(Phases)  BY DEF Phases
<1>1. \/ n = 2 /\ Phases[1] = "resolve" /\ Phases[2] = "connect"
      \/ /\ n = 3 /\ Phases[1] = "resolve" /\ Phases[2] = "connect"
         /\ Phases[3] = "handshake"
      \/ /\ n = 5 /\ Phases[1] = "resolve" /\ Phases[2] = "connect"
         /\ Phases[3] = "ask_proxy" /\ Phases[4] = "proxy_answers" /\ Phases[5] = "handshake"
  BY <1>0 DEF Phases
<1>2. n \in 2..5 /\ Phases[1] = "resolve" /\ Phases[2] = "connect"  BY <1>1
<1>3. \A i \in 1..n, j \in 1..n : Phases[i] = Phases[j] => i = j
  BY <1>1
<1>4. \A i \in 1..n : After(Phases[i]) = IF i = n THEN "write" ELSE Phases[i + 1]
  <2> TAKE i \in 1..n
  <2> DEFINE k == CHOOSE j \in 1..Len(Phases) : Phases[j] = Phases[i]
  <2>1. k \in 1..n /\ Phases[k] = Phases[i]  BY <1>0, Zenon
  <2>2. k = i
    <3> HIDE DEF k
    <3> QED  BY <1>3, <2>1
  <2>3. After(Phases[i]) = IF k = Len(Phases) THEN "write" ELSE Phases[k + 1]  BY DEF After
  <2>4. QED
    <3> HIDE DEF k
    <3> QED  BY <1>0, <2>2, <2>3
<1>5. \A i \in 1..n : Phases[i] \in {"resolve", "connect", "ask_proxy", "proxy_answers", "handshake"}
  BY <1>1
<1>6. \A p : p \in Connecting <=> \E i \in 1..n : p = Phases[i]  BY <1>0 DEF Connecting
<1>7. \A i \in 1..n :
          /\ After(Phases[i]) \in (Connecting \ {"resolve"}) \cup {"write"}
          /\ After(Phases[i]) = "connect" <=> Phases[i] = "resolve"
  <2> TAKE i \in 1..n
  <2>1. CASE i = n
    <3>1. After(Phases[i]) = "write"  BY <2>1, <1>4
    <3>2. Phases[i] = Phases[1] => i = 1  BY <1>2, <1>3
    <3>3. QED  BY <2>1, <3>1, <3>2, <1>2
  <2>2. CASE i # n
    <3>1. i + 1 \in 1..n /\ i + 1 # 1 /\ 1 \in 1..n /\ 2 \in 1..n  BY <2>2, <1>2
    <3>2. After(Phases[i]) = Phases[i + 1]  BY <2>2, <1>4
    <3>3. Phases[i + 1] \in Connecting  BY <3>1, <1>6
    <3>4. Phases[i + 1] # "resolve"  BY <3>1, <1>2, <1>3
    <3>5. Phases[i + 1] = "connect" <=> i = 1  BY <3>1, <1>2, <1>3
    <3>6. Phases[i] = "resolve" <=> i = 1  BY <3>1, <1>2, <1>3
    <3>7. QED  BY <3>2, <3>3, <3>4, <3>5, <3>6
  <2>3. QED  BY <2>1, <2>2
<1>8. "resolve" \in Connecting  BY <1>2, <1>6
<1>9. QED  BY <1>5, <1>6, <1>7, <1>8

\* What is new has its type.
LEMMA NewTypes ==
    NewConn \in Connection /\ NoNet \in Device /\ NewSession \in Session
<1>1. NewConn \in Connection  BY DEF NewConn, Connection
<1>2. NoNet \in Device  BY EmptySeq DEF NoNet, Device
<1>3. NewSession \in Session
  <2>1. Limit \in Nat  BY ClientAssumption DEF ClientAssumption
  <2>2. QED  BY <2>1, EmptySeq DEF NewSession, Session, Stages, Framings
<1>4. QED  BY <1>1, <1>2, <1>3

\* Timers are set or not.
LEMMA TimeoutType ==
    \A stage \in Stages, old \in BOOLEAN : set_timeout(stage, old) \in BOOLEAN
<1>1. Timeout \in BOOLEAN /\ ConnectTimeout \in BOOLEAN
  BY ClientAssumption DEF ClientAssumption
<1>2. QED  BY <1>1 DEF set_timeout

\* Responses are sequences of kinds of parts.
LEMMA KindsType ==
    \A f \in Framings :
        KindsOf(f) \in Seq(Kinds)
<1> TAKE f \in Framings
<1>1. CASE f \in {"none", "bad_length", "malformed"}  BY <1>1 DEF KindsOf, Kinds
<1>2. CASE f = "length"  BY <1>2 DEF KindsOf, Kinds
<1>3. CASE f \in {"long", "eof"}
  <2>1. KindsOf(f) = <<"head", "body", "body">>  BY <1>3 DEF KindsOf
  <2>2. QED  BY <2>1 DEF Kinds
<1>4. CASE f = "chunked"
  <2>1. KindsOf(f) = <<"head", "size", "data", "size", "data", "zero", "end">>
    BY <1>4 DEF KindsOf
  <2>2. QED  BY <2>1 DEF Kinds
<1>5. CASE f = "events"  BY <1>5 DEF KindsOf, Kinds
<1>6. CASE f = "overlong"
  <2>1. KindsOf(f) = <<"head", "big", "fill", "astray", "tail">>  BY <1>6 DEF KindsOf
  <2>2. QED  BY <2>1 DEF Kinds
<1>7. QED  BY <1>1, <1>2, <1>3, <1>4, <1>5, <1>6 DEF Framings

\* Devices answer in parts.
LEMMA PartsOfType ==
    \A r \in Requests, f \in Framings :
        /\ PartsOf(r, f) \in Seq(Part) /\ Len(PartsOf(r, f)) = Len(KindsOf(f))
        /\ \A i \in 1..Len(KindsOf(f)) :
              PartsOf(r, f)[i] = [kind |-> KindsOf(f)[i], req |-> r, framing |-> f]
<1> TAKE r \in Requests, f \in Framings
<1>1. KindsOf(f) \in Seq(Kinds)
  BY KindsType
<1>2. Len(KindsOf(f)) \in Nat  BY <1>1, LenProperties
<1>3. PartsOf(r, f) = [i \in 1..Len(KindsOf(f)) |->
                          [kind |-> KindsOf(f)[i], req |-> r, framing |-> f]]
  BY DEF PartsOf
<1>4. \A i \in 1..Len(KindsOf(f)) :
          [kind |-> KindsOf(f)[i], req |-> r, framing |-> f] \in Part
  BY <1>1, <1>2, ElementOfSeq DEF Part
<1>5. QED  BY <1>2, <1>3, <1>4, IsASeq, LenProperties

\* t is s in another stage.
Staged(s, t, stage) ==
    /\ t \in Session /\ t.stage = stage /\ ~t.cut
    /\ t.conn = s.conn /\ t.from = s.from /\ t.buf = s.buf /\ t.head = s.head
    /\ t.framing = s.framing /\ t.held = s.held /\ t.got = s.got /\ t.left = s.left

\* d is c, its timer aside.
Timed(c, d, open) ==
    /\ d.open = open /\ d.inUse = c.inUse /\ d.again = c.again
    /\ d.shut = c.shut /\ d.stream = c.stream

\* The stage and the timer are all that changes.
LEMMA StagedFields ==
    \A s \in Session, stage \in Stages :
        Staged(s, [s EXCEPT !.stage = stage, !.cut = FALSE], stage)
BY DEF Staged, Session

\* An operation that is started.
LEMMA StartStep ==
    ASSUME Types, NEW r \in Requests, NEW s \in Session, s.conn \in Conns,
           NEW stage \in Stages, NEW cs \in [Conns -> Connection],
           Start(r, s, stage, cs)
    PROVE  /\ session' \in [Requests -> Session]
           /\ conn' \in [Conns -> Connection]
           /\ sends' \in [Requests -> Nat]
           /\ Staged(s, session'[r], stage)
           /\ \A q \in Requests \ {r} : session'[q] = session[q] /\ sends'[q] = sends[q]
           /\ sends'[r] = IF stage = "write" THEN sends[r] + 1 ELSE sends[r]
           /\ \A c \in Conns : c # s.conn =>
                 conn'[c] = IF c \in pool' \cup Held' THEN cs[c] ELSE NewConn
           /\ Timed(cs[s.conn], conn'[s.conn], cs[s.conn].open \/ stage = "connect")
<1> DEFINE t == [s EXCEPT !.stage = stage, !.cut = FALSE]
           d == [cs EXCEPT ![s.conn].timer = set_timeout(stage, @),
                           ![s.conn].open = @ \/ stage = "connect"]
<1>1. t \in Session /\ t.conn = s.conn  BY DEF Session
<1>2. session' = [session EXCEPT ![r] = t]  BY DEF Start
<1>3. session' \in [Requests -> Session] /\ session'[r] = t
      /\ \A q \in Requests \ {r} : session'[q] = session[q]
  BY <1>1, <1>2 DEF Types
<1>4. sends' = [sends EXCEPT ![r] = IF stage = "write" THEN @ + 1 ELSE @]  BY DEF Start
<1>5. /\ sends' \in [Requests -> Nat]
      /\ sends'[r] = IF stage = "write" THEN sends[r] + 1 ELSE sends[r]
      /\ \A q \in Requests \ {r} : sends'[q] = sends[q]
  BY <1>4 DEF Types
<1>6. cs[s.conn] \in Connection  OBVIOUS
<1>7. set_timeout(stage, cs[s.conn].timer) \in BOOLEAN  BY <1>6, TimeoutType DEF Connection
<1>8. [cs[s.conn] EXCEPT !.timer = set_timeout(stage, @), !.open = @ \/ stage = "connect"]
        \in Connection
  BY <1>6, <1>7 DEF Connection
<1>9. d \in [Conns -> Connection]
      /\ d[s.conn] = [cs[s.conn] EXCEPT !.timer = set_timeout(stage, @),
                                        !.open = @ \/ stage = "connect"]
      /\ \A c \in Conns : c # s.conn => d[c] = cs[c]
  BY <1>8
<1>10. conn' = [c \in Conns |-> IF c \in pool' \cup Held' THEN d[c] ELSE NewConn]
  BY DEF Start, Forget
<1>11. s.conn \in Held'  BY <1>1, <1>3 DEF Held
<1>12. /\ conn' \in [Conns -> Connection]
       /\ conn'[s.conn] = d[s.conn]
       /\ \A c \in Conns : c # s.conn =>
             conn'[c] = IF c \in pool' \cup Held' THEN cs[c] ELSE NewConn
  <2> HIDE DEF d
  <2> QED  BY <1>9, <1>10, <1>11, NewTypes
<1>13. Timed(cs[s.conn], d[s.conn], cs[s.conn].open \/ stage = "connect")
  <2>1. \A x \in Connection, b \in BOOLEAN, o \in BOOLEAN :
           Timed(x, [x EXCEPT !.timer = b, !.open = o], o)
    BY DEF Timed, Connection
  <2>2. (cs[s.conn].open \/ stage = "connect") \in BOOLEAN  OBVIOUS
  <2>3. Timed(cs[s.conn], [cs[s.conn] EXCEPT !.timer = set_timeout(stage, @),
                                             !.open = @ \/ stage = "connect"],
              cs[s.conn].open \/ stage = "connect")
    BY <1>6, <1>7, <2>1
  <2>4. QED
    <3> HIDE DEF d
    <3> QED  BY <1>9, <2>3
<1>14. Staged(s, t, stage)
  BY StagedFields
<1>15. /\ Staged(s, session'[r], stage)
       /\ Timed(cs[s.conn], conn'[s.conn], cs[s.conn].open \/ stage = "connect")
  <2> HIDE DEF t, d
  <2> QED  BY <1>3, <1>12, <1>13, <1>14
<1> QED  BY <1>3, <1>5, <1>12, <1>15

\* A callback that is about to be called.
LEMMA CallbackStep ==
    ASSUME Types, NEW r \in Requests, NEW s \in Session, s.conn \in Conns,
           NEW ec \in BOOLEAN, NEW end \in BOOLEAN,
           NEW next \in {"done", "events", "content", "rest", "data"},
           Callback(r, s, ec, end, next)
    PROVE  /\ session' \in [Requests -> Session]
           /\ conn' \in [Conns -> Connection]
           /\ calling' \in CallbackArgs
           /\ calling' = [req |-> r, ec |-> ec, end |-> end, next |-> next]
           /\ UNCHANGED <<running, calls, sends>>
           /\ Staged(s, session'[r], "callback")
           /\ \A q \in Requests \ {r} : session'[q] = session[q]
           /\ \A c \in Conns : c # s.conn => conn'[c] = conn[c]
           /\ conn'[s.conn].inUse = (conn[s.conn].inUse /\ ~end)
           /\ conn'[s.conn].stream = (conn[s.conn].stream \/ (end /\ next = "events"))
           /\ conn'[s.conn].open = conn[s.conn].open
           /\ conn'[s.conn].again = conn[s.conn].again
           /\ conn'[s.conn].shut = conn[s.conn].shut
<1> DEFINE t == [s EXCEPT !.stage = "callback", !.cut = FALSE]
           d == [conn[s.conn] EXCEPT !.timer = FALSE, !.inUse = FALSE,
                                     !.stream = @ \/ next = "events"]
<1>1. t \in Session  BY DEF Session, Stages
<1>2. session' = [session EXCEPT ![r] = t]  BY DEF Callback
<1>3. session' \in [Requests -> Session] /\ session'[r] = t
      /\ \A q \in Requests \ {r} : session'[q] = session[q]
  BY <1>1, <1>2 DEF Types
<1>4. calling' = [req |-> r, ec |-> ec, end |-> end, next |-> next]
      /\ UNCHANGED <<running, calls, sends>>
  BY DEF Callback
<1>5. calling' \in CallbackArgs  BY <1>4 DEF CallbackArgs
<1>6. conn[s.conn] \in Connection  BY DEF Types
<1>7. d \in Connection  BY <1>6 DEF Connection
<1>8. conn \in [Conns -> Connection]  BY DEF Types
<1>9. conn' = IF end THEN Released(s, next) ELSE conn  BY DEF Callback
<1>10. Released(s, next) = [conn EXCEPT ![s.conn] = d]
  BY <1>8 DEF Released
<1>11. /\ conn' \in [Conns -> Connection]
       /\ \A c \in Conns : c # s.conn => conn'[c] = conn[c]
       /\ conn'[s.conn] = IF end THEN d ELSE conn[s.conn]
  <2> HIDE DEF d
  <2> QED  BY <1>7, <1>8, <1>9, <1>10
<1>12. /\ d.inUse = FALSE /\ d.stream = (conn[s.conn].stream \/ next = "events")
       /\ d.open = conn[s.conn].open /\ d.again = conn[s.conn].again
       /\ d.shut = conn[s.conn].shut
  BY <1>6 DEF Connection
<1>13. /\ conn[s.conn].inUse \in BOOLEAN /\ conn[s.conn].stream \in BOOLEAN
  BY <1>6 DEF Connection
<1>14. Staged(s, t, "callback")
  <2>1. "callback" \in Stages  BY DEF Stages
  <2>2. QED  BY <2>1, StagedFields
<1>15. /\ conn'[s.conn].inUse = (conn[s.conn].inUse /\ ~end)
       /\ conn'[s.conn].stream = (conn[s.conn].stream \/ (end /\ next = "events"))
       /\ conn'[s.conn].open = conn[s.conn].open
       /\ conn'[s.conn].again = conn[s.conn].again
       /\ conn'[s.conn].shut = conn[s.conn].shut
  <2> HIDE DEF d
  <2>1. CASE end  BY <2>1, <1>11, <1>12, <1>13
  <2>2. CASE ~end  BY <2>2, <1>11, <1>13
  <2>3. QED  BY <2>1, <2>2
<1>16. Staged(s, session'[r], "callback")
  <2> HIDE DEF t
  <2> QED  BY <1>3, <1>14
<1> QED  BY <1>3, <1>4, <1>5, <1>11, <1>15, <1>16

-----------------------------------------------------------------------------
(* Kinds of steps: what an action does to requests, connections and pool.  *)

Same(q) == session'[q] = session[q] /\ sends'[q] = sends[q] /\ calls'[q] = calls[q]
Alive(c) == c \in pool' \cup Held'

\* A request gets its connection.
Asks(r, c) ==
    LET t == session'[r]
    IN  /\ running /\ session[r].stage = "idle" /\ c \in Conns
        /\ (c \in pool /\ ~conn[c].inUse) \/ c \notin pool \cup Held
        /\ pool' = pool \cup {c}
        /\ t.stage = IF conn[c].open THEN "write" ELSE "resolve"
        /\ t.from = IF c \notin pool THEN "own" ELSE IF c \in Held THEN "released" ELSE "idle"
        /\ t.conn = c /\ ~t.cut /\ t.head = None /\ t.buf = <<>> /\ t.held = 0 /\ t.got = 0
        /\ \A q \in Requests \ {r} : Same(q)
        /\ calls'[r] = calls[r]
        /\ sends'[r] = IF t.stage = "write" THEN sends[r] + 1 ELSE sends[r]
        /\ conn'[c].inUse /\ conn'[c].again
        /\ conn'[c].open = conn[c].open /\ conn'[c].shut = conn[c].shut
        /\ conn'[c].stream = conn[c].stream
        /\ \A d \in Conns : d # c => conn'[d] = conn[d]
        /\ UNCHANGED <<net, calling, running>>

\* A request starts the next operation on its connection.
Goes(r) ==
    LET s == session[r]
        t == session'[r]
        c == s.conn
    IN  /\ running /\ calling = None /\ r \in Active
        /\ \/ s.stage \in Connecting /\ t.stage = After(s.stage)
           \/ s.stage = "write" /\ t.stage = "read"
           \/ s.stage = "read" /\ t.stage \in Receiving
           \/ s.stage \in Receiving /\ t.stage \in Receiving
        /\ t.conn = c /\ t.from = s.from /\ ~t.cut
        /\ t.stage \in Beginning =>
              /\ t.head = s.head /\ t.buf = s.buf /\ t.held = s.held /\ t.got = s.got
              /\ conn'[c].again = conn[c].again
        /\ t.stage \in Receiving => t.head \in Requests
        /\ t.stage = "data" => t.held < Limit
        /\ \A q \in Requests \ {r} : Same(q)
        /\ calls'[r] = calls[r]
        /\ sends'[r] = IF t.stage = "write" THEN sends[r] + 1 ELSE sends[r]
        /\ conn'[c].inUse = conn[c].inUse /\ conn'[c].shut = conn[c].shut
        /\ conn'[c].stream = conn[c].stream
        /\ conn'[c].open = (conn[c].open \/ t.stage = "connect")
        /\ conn[c].again => conn'[c].again
        /\ \A d \in Conns : d # c => conn'[d] = conn[d] /\ net'[d] = net[d]
        /\ UNCHANGED <<pool, calling, running>>

\* The callback of a request is called, for a part or for the end.
CallsBack(r) ==
    LET s == session[r]
        t == session'[r]
        c == s.conn
        m == calling'
    IN  /\ running /\ calling = None /\ r \in Active
        /\ s.stage \in Beginning \cup Receiving \cup {"events"}
        /\ pool' = pool \/ pool' = pool \ {c}
        /\ t.stage = "callback" /\ t.conn = c /\ t.from = s.from /\ ~t.cut
        /\ m \in CallbackArgs /\ m.req = r
        /\ m.ec => m.end /\ m.next = "done"
        /\ m.next = "done" => m.end
        /\ m.end => m.next = "done" \/ (m.next = "events" /\ s.stage = "read")
        /\ ~m.end => \/ s.stage = "events" /\ m.next = "events"
                     \/ s.stage \in Receiving /\ m.next \in {"content", "rest", "data"}
        /\ ~m.ec /\ m.next = "done" => s.stage \in {"read"} \cup Receiving
        /\ ~m.ec => t.head \in Requests
        /\ m.next = "data" => t.held < Limit
        /\ m.ec => \/ t.head # None \/ conn[c].shut \/ s.stage \in Connecting
                   \/ s.stage \in {"write", "read"} /\ (~conn[c].again \/ c \notin pool)
        /\ \A q \in Requests \ {r} : Same(q)
        /\ calls'[r] = calls[r] /\ sends'[r] = sends[r]
        /\ conn'[c].inUse = (conn[c].inUse /\ ~m.end)
        /\ conn'[c].stream = (conn[c].stream \/ (m.end /\ m.next = "events"))
        /\ conn'[c].open = conn[c].open /\ conn'[c].again = conn[c].again
        /\ conn'[c].shut = conn[c].shut
        /\ \A d \in Conns : d # c => conn'[d] = conn[d] /\ net'[d] = net[d]
        /\ ~conn[c].open => net'[c] = net[c]
        /\ UNCHANGED running

\* A request starts anew on another connection.
Retries(r, new) ==
    LET s == session[r]
        t == session'[r]
        old == s.conn
    IN  /\ running /\ calling = None /\ r \in Active
        /\ s.stage \in {"write", "read"} /\ conn[old].again
        /\ old \in pool /\ new \in Conns /\ new \notin pool \cup Held
        /\ pool' = (pool \ {old}) \cup {new}
        /\ t.stage = "resolve" /\ t.conn = new /\ t.from = "own"
        /\ ~t.cut /\ t.head = None /\ t.buf = <<>> /\ t.held = 0 /\ t.got = 0
        /\ \A q \in Requests \ {r} : Same(q)
        /\ calls'[r] = calls[r] /\ sends'[r] = sends[r]
        /\ conn'[new].inUse /\ ~conn'[new].again /\ ~conn'[new].open
        /\ ~conn'[new].shut /\ ~conn'[new].stream
        /\ \A d \in Conns : d # new => conn'[d] = IF Alive(d) THEN conn[d] ELSE NewConn
        /\ \A d \in Conns : net'[d] = IF Alive(d) THEN net[d] ELSE NoNet
        /\ UNCHANGED <<calling, running>>

\* Devices and timers, and stop: connections are shut, operations are cut.
Changes ==
    /\ \A q \in Requests :
          LET s == session[q]
              t == session'[q]
          IN  /\ t.stage = s.stage /\ t.conn = s.conn /\ t.buf = s.buf /\ t.head = s.head
              /\ t.framing = s.framing /\ t.held = s.held /\ t.got = s.got
              /\ t.left = s.left /\ t.from = s.from
              /\ t.cut => s.cut \/ (q \in Active /\ conn'[s.conn].shut)
    /\ pool' = pool \/ (pool' = {} /\ \A c \in pool : conn[c].open /\ Alive(c) => conn'[c].shut)
    /\ \A c \in Conns : Alive(c) =>
          /\ conn'[c].open = conn[c].open /\ conn'[c].inUse = conn[c].inUse
          /\ conn'[c].again = conn[c].again /\ conn'[c].stream = conn[c].stream
          /\ conn[c].shut => conn'[c].shut
    /\ \A c \in Conns : ~Alive(c) => conn'[c] = NewConn /\ (running => net'[c] = NoNet)
    /\ \A c \in Conns : net[c] = NoNet => net'[c] = NoNet
    /\ UNCHANGED <<calling, running, calls, sends>>

\* The pool is pruned, and the application is told.
Prunes(r) ==
    LET s == session[r]
        t == session'[r]
        left == IF calling.ec THEN pool \ {s.conn} ELSE pool
    IN  /\ calling # None /\ calling.req = r /\ calling' = None
        /\ pool' \subseteq left
        /\ \A c \in left : conn[c].inUse => c \in pool'
        /\ \A c, d \in pool' : ~conn[c].inUse /\ ~conn[d].inUse => c = d
        /\ IF calling.next = "done" THEN t = [NewSession EXCEPT !.stage = "done"]
           ELSE t = [s EXCEPT !.stage = calling.next]
        /\ calls'[r] = Append(calls[r], IF calling.ec THEN "error"
                                        ELSE IF calling.end THEN "end" ELSE "part")
        /\ sends'[r] = sends[r]
        /\ \A q \in Requests \ {r} : Same(q)
        /\ \A d \in Conns : conn'[d] = IF Alive(d) THEN conn[d] ELSE NewConn
        /\ \A d \in Conns : net'[d] = IF Alive(d) THEN net[d] ELSE NoNet
        /\ UNCHANGED running

\* A handler throws: the request is gone, and run is left.
Throws(r) ==
    LET c == session[r].conn
    IN  /\ running /\ ~running' /\ calling = None /\ r \in Active /\ session[r].stage = "read"
        /\ session'[r] = [NewSession EXCEPT !.stage = "done"]
        /\ \A q \in Requests \ {r} : Same(q)
        /\ calls'[r] = calls[r] /\ sends'[r] = sends[r]
        /\ \A d \in Conns : d # c => conn'[d] = IF Alive(d) THEN conn[d] ELSE NewConn
        /\ IF Alive(c) THEN /\ conn'[c].open = conn[c].open /\ conn'[c].inUse = conn[c].inUse
                            /\ conn'[c].shut = conn[c].shut /\ conn'[c].stream = conn[c].stream
                            /\ conn'[c].again
           ELSE conn'[c] = NewConn
        /\ \A d \in Conns : d # c => net'[d] = net[d]
        /\ UNCHANGED <<pool, calling>>

OfAKind ==
    \/ \E r \in Requests : \/ \E c \in Conns : Asks(r, c) \/ Retries(r, c)
                           \/ Goes(r) \/ CallsBack(r) \/ Prunes(r) \/ Throws(r)
    \/ Changes

-----------------------------------------------------------------------------
(* Every action is a step of some kind.                                    *)

\* Connections stay held while sessions keep them.
LEMMA HeldSame ==
    ASSUME \A q \in Requests : session'[q].conn = session[q].conn
    PROVE  Held' = Held
BY DEF Held

\* A request that starts an operation on its own connection changes no other.
LEMMA StartOnOwn ==
    ASSUME PoolIInv, NEW r \in Requests, NEW s \in Session, r \in Active,
           s.conn = session[r].conn, NEW stage \in Stages,
           NEW cs \in [Conns -> Connection], \A d \in Conns : d # s.conn => cs[d] = conn[d],
           Start(r, s, stage, cs), UNCHANGED <<pool, calls>>
    PROVE  /\ s.conn \in Conns
           /\ session' \in [Requests -> Session]
           /\ conn' \in [Conns -> Connection]
           /\ sends' \in [Requests -> Nat]
           /\ Staged(s, session'[r], stage)
           /\ \A q \in Requests \ {r} : Same(q)
           /\ calls'[r] = calls[r]
           /\ sends'[r] = IF stage = "write" THEN sends[r] + 1 ELSE sends[r]
           /\ \A d \in Conns : d # s.conn => conn'[d] = conn[d]
           /\ Timed(cs[s.conn], conn'[s.conn], cs[s.conn].open \/ stage = "connect")
<1>0. Types  BY DEF PoolIInv
<1>1. s.conn \in Conns  BY DEF PoolIInv, SessionInv
<1>2. /\ session' \in [Requests -> Session]
      /\ conn' \in [Conns -> Connection]
      /\ sends' \in [Requests -> Nat]
      /\ Staged(s, session'[r], stage)
      /\ \A q \in Requests \ {r} : session'[q] = session[q] /\ sends'[q] = sends[q]
      /\ sends'[r] = IF stage = "write" THEN sends[r] + 1 ELSE sends[r]
      /\ \A c \in Conns : c # s.conn =>
            conn'[c] = IF c \in pool' \cup Held' THEN cs[c] ELSE NewConn
      /\ Timed(cs[s.conn], conn'[s.conn], cs[s.conn].open \/ stage = "connect")
  BY <1>0, <1>1, StartStep
<1>4. Held' = Held  BY <1>2, HeldSame DEF Staged
<1>5. \A d \in Conns : d # s.conn => conn'[d] = conn[d]
  <2> TAKE d \in Conns
  <2>1. d \notin pool \cup Held => conn[d] = NewConn  BY DEF PoolIInv, ConnInv
  <2>2. QED  BY <1>2, <1>4, <2>1
<1>6. \A q \in Requests \ {r} : Same(q)  BY <1>2 DEF Same
<1>7. calls'[r] = calls[r]  OBVIOUS
<1> QED  BY <1>1, <1>2, <1>5, <1>6, <1>7

\* The first k parts leave an inbox.
LEMMA TakeStep ==
    ASSUME Types, NEW r \in Requests, session[r].conn \in Conns,
           NEW k \in Nat, k <= Len(Inbox(r)), Take(r, k)
    PROVE  LET c == session[r].conn
           IN  /\ net' \in [Conns -> Device]
               /\ \A d \in Conns : d # c => net'[d] = net[d]
               /\ net'[c].up = net[c].up /\ net'[c].asked = net[c].asked
               /\ net'[c].out = net[c].out
               /\ net'[c].inbox = SubSeq(net[c].inbox, k + 1, Len(net[c].inbox))
<1> DEFINE c == session[r].conn
           rest == SubSeq(net[c].inbox, k + 1, Len(net[c].inbox))
<1>1. net \in [Conns -> Device]  BY DEF Types
<1>2. net[c] \in Device /\ net[c].inbox \in Seq(Part)  BY <1>1 DEF Device
<1>3. rest \in Seq(Part)
  <2>1. Len(net[c].inbox) \in Nat  BY <1>2, LenProperties
  <2>2. \A i \in k + 1..Len(net[c].inbox) : net[c].inbox[i] \in Part
    BY <1>2, <2>1, ElementOfSeq
  <2>3. QED  BY <1>2, <2>1, <2>2, SubSeqProperties
<1>4. net' = [net EXCEPT ![c].inbox = rest]  BY DEF Take
<1>5. [net[c] EXCEPT !.inbox = rest] \in Device
  <2> HIDE DEF rest
  <2> QED  BY <1>2, <1>3 DEF Device
<1>6. net' = [net EXCEPT ![c] = [net[c] EXCEPT !.inbox = rest]]
  <2> HIDE DEF rest
  <2> QED  BY <1>1, <1>4
<1> HIDE DEF rest
<1>7. net' \in [Conns -> Device] /\ (\A d \in Conns : d # c => net'[d] = net[d])
      /\ net'[c] = [net[c] EXCEPT !.inbox = rest]
  BY <1>1, <1>5, <1>6
<1>8. net'[c].up = net[c].up /\ net'[c].asked = net[c].asked /\ net'[c].out = net[c].out
      /\ net'[c].inbox = rest
  BY <1>2, <1>7 DEF Device
<1> QED  BY <1>7, <1>8 DEF rest

\* What a request that is active refers to.
LEMMA OwnFacts ==
    ASSUME PoolIInv, NEW r \in Requests, session[r].stage \notin {"idle", "done"}
    PROVE  /\ r \in Active /\ session[r] \in Session /\ session[r].conn \in Conns
           /\ conn[session[r].conn] \in Connection /\ net[session[r].conn] \in Device
           /\ session[r].conn \in Held
<1>1. r \in Active  BY DEF Active
<1>2. session[r] \in Session  BY DEF PoolIInv, Types
<1>3. session[r].conn \in Conns  BY <1>1 DEF PoolIInv, SessionInv
<1>4. conn[session[r].conn] \in Connection /\ net[session[r].conn] \in Device
  BY <1>3 DEF PoolIInv, Types
<1>5. session[r].conn \in Held  BY DEF Held
<1>6. QED  BY <1>1, <1>2, <1>3, <1>4, <1>5

\* What is kept for every action: types, devices, and a kind for the step.
Outcome == Types' /\ (\A c \in Conns : NetInv(c)') /\ OfAKind

\* An operation that goes on, whatever else is read.
LEMMA GoesOutcome ==
    ASSUME PoolIInv, Free, NEW r \in Requests, r \in Active, NEW s \in Session,
           s.conn = session[r].conn, s.from = session[r].from, NEW stage \in Stages,
           \/ session[r].stage \in Connecting /\ stage = After(session[r].stage)
           \/ session[r].stage = "write" /\ stage = "read"
           \/ session[r].stage = "read" /\ stage \in Receiving
           \/ session[r].stage \in Receiving /\ stage \in Receiving,
           NEW cs \in [Conns -> Connection], \A d \in Conns : d # s.conn => cs[d] = conn[d],
           /\ cs[s.conn].inUse = conn[s.conn].inUse /\ cs[s.conn].shut = conn[s.conn].shut
           /\ cs[s.conn].stream = conn[s.conn].stream /\ cs[s.conn].open = conn[s.conn].open,
           stage \in Beginning =>
               s = session[r] /\ cs[s.conn].again = conn[s.conn].again,
           conn[s.conn].again => cs[s.conn].again,
           stage \in Receiving => s.head \in Requests,
           stage = "data" => s.held < Limit,
           Start(r, s, stage, cs), UNCHANGED <<pool, calling, running, calls>>,
           net' \in [Conns -> Device], \A d \in Conns : d # s.conn => net'[d] = net[d],
           NetInv(s.conn)'
    PROVE  Outcome /\ Goes(r) /\ Staged(s, session'[r], stage)
<1> DEFINE t == session'[r]
           c == session[r].conn
<1>1. Types  BY DEF PoolIInv
<1>2. c = s.conn  OBVIOUS
<1>3. /\ c \in Conns
      /\ session' \in [Requests -> Session]
      /\ conn' \in [Conns -> Connection]
      /\ sends' \in [Requests -> Nat]
      /\ Staged(s, t, stage)
      /\ \A q \in Requests \ {r} : Same(q)
      /\ calls'[r] = calls[r]
      /\ sends'[r] = IF stage = "write" THEN sends[r] + 1 ELSE sends[r]
      /\ \A d \in Conns : d # c => conn'[d] = conn[d]
      /\ Timed(cs[c], conn'[c], cs[c].open \/ stage = "connect")
  BY <1>2, StartOnOwn
<1>4. Types'  BY <1>1, <1>3 DEF Types
<1>5. \A d \in Conns : NetInv(d)'
  BY <1>2 DEF PoolIInv, NetInv
<1>6. /\ running /\ calling = None /\ r \in Active  BY DEF Free
<1>7. /\ t.stage = stage /\ t.conn = c /\ t.from = session[r].from /\ ~t.cut
      /\ t.head = s.head /\ t.buf = s.buf /\ t.held = s.held /\ t.got = s.got
  BY <1>2, <1>3 DEF Staged
<1>8. /\ conn'[c].inUse = conn[c].inUse /\ conn'[c].shut = conn[c].shut
      /\ conn'[c].stream = conn[c].stream
      /\ conn'[c].open = (conn[c].open \/ stage = "connect")
      /\ conn'[c].again = cs[c].again /\ (conn[c].again => conn'[c].again)
  BY <1>2, <1>3 DEF Timed
<1>9. Goes(r)
  <2>1. \/ session[r].stage \in Connecting /\ t.stage = After(session[r].stage)
        \/ session[r].stage = "write" /\ t.stage = "read"
        \/ session[r].stage = "read" /\ t.stage \in Receiving
        \/ session[r].stage \in Receiving /\ t.stage \in Receiving
    BY <1>7
  <2>2. t.stage \in Beginning =>
           /\ t.head = session[r].head /\ t.buf = session[r].buf
           /\ t.held = session[r].held /\ t.got = session[r].got
           /\ conn'[c].again = conn[c].again
    BY <1>2, <1>7, <1>8
  <2>3. /\ t.stage \in Receiving => t.head \in Requests
        /\ t.stage = "data" => t.held < Limit
    BY <1>7
  <2>4. \A d \in Conns : d # c => conn'[d] = conn[d] /\ net'[d] = net[d]  BY <1>2, <1>3
  <2>5. UNCHANGED <<pool, calling, running>>  OBVIOUS
  <2>6. sends'[r] = IF t.stage = "write" THEN sends[r] + 1 ELSE sends[r]  BY <1>3, <1>7
  <2>7. conn'[c].open = (conn[c].open \/ t.stage = "connect")  BY <1>7, <1>8
  <2> HIDE DEF t, c
  <2> QED  BY <1>3, <1>6, <1>7, <1>8, <2>1, <2>2, <2>3, <2>4, <2>5, <2>6, <2>7 DEF Goes, t, c
<1>10. QED  BY <1>3, <1>4, <1>5, <1>9 DEF Outcome, OfAKind

\* A callback, whatever has been read.
LEMMA CallsBackOutcome ==
    ASSUME PoolIInv, Free, NEW r \in Requests, r \in Active, NEW s \in Session,
           session[r].stage \in Beginning \cup Receiving \cup {"events"},
           s.conn = session[r].conn, s.from = session[r].from,
           NEW ec \in BOOLEAN, NEW end \in BOOLEAN,
           NEW next \in {"done", "events", "content", "rest", "data"},
           Callback(r, s, ec, end, next),
           pool' = pool \/ pool' = pool \ {s.conn},
           ec => end /\ next = "done",
           next = "done" => end,
           end => next = "done" \/ (next = "events" /\ session[r].stage = "read"),
           ~end => \/ session[r].stage = "events" /\ next = "events"
                   \/ session[r].stage \in Receiving /\ next \in {"content", "rest", "data"},
           ~ec /\ next = "done" => session[r].stage \in {"read"} \cup Receiving,
           ~ec => s.head \in Requests,
           next = "data" => s.held < Limit,
           ec => \/ s.head # None \/ conn[s.conn].shut \/ session[r].stage \in Connecting
                 \/ session[r].stage \in {"write", "read"}
                       /\ (~conn[s.conn].again \/ s.conn \notin pool),
           net' \in [Conns -> Device], \A d \in Conns : d # s.conn => net'[d] = net[d],
           NetInv(s.conn)', ~conn[s.conn].open => net'[s.conn] = net[s.conn]
    PROVE  /\ Outcome /\ CallsBack(r) /\ Staged(s, session'[r], "callback")
           /\ calling' = [req |-> r, ec |-> ec, end |-> end, next |-> next]
<1> DEFINE t == session'[r]
           m == calling'
<1> DEFINE c == session[r].conn
<1>1. Types  BY DEF PoolIInv
<1>2. c = s.conn /\ c \in Conns  BY DEF PoolIInv, SessionInv
<1>3. /\ session' \in [Requests -> Session]
      /\ conn' \in [Conns -> Connection]
      /\ calling' \in CallbackArgs
      /\ calling' = [req |-> r, ec |-> ec, end |-> end, next |-> next]
      /\ UNCHANGED <<running, calls, sends>>
      /\ Staged(s, session'[r], "callback")
      /\ \A q \in Requests \ {r} : session'[q] = session[q]
      /\ \A d \in Conns : d # s.conn => conn'[d] = conn[d]
      /\ conn'[s.conn].inUse = (conn[s.conn].inUse /\ ~end)
      /\ conn'[s.conn].stream = (conn[s.conn].stream \/ (end /\ next = "events"))
      /\ conn'[s.conn].open = conn[s.conn].open
      /\ conn'[s.conn].again = conn[s.conn].again
      /\ conn'[s.conn].shut = conn[s.conn].shut
  BY <1>1, <1>2, CallbackStep
<1>4. Types'
  <2>1. pool' \in SUBSET Conns  BY <1>1 DEF Types
  <2>2. QED  BY <1>1, <1>3, <2>1 DEF Types
<1>5. \A d \in Conns : NetInv(d)'
  BY <1>2 DEF PoolIInv, NetInv
<1>6. /\ running /\ calling = None  BY DEF Free
<1>7. /\ t.stage = "callback" /\ t.conn = c /\ t.from = session[r].from /\ ~t.cut
      /\ t.head = s.head /\ t.held = s.held
  BY <1>2, <1>3 DEF Staged
<1>8. m.req = r /\ m.ec = ec /\ m.end = end /\ m.next = next  BY <1>3
<1>9. /\ conn'[c].inUse = (conn[c].inUse /\ ~m.end)
      /\ conn'[c].stream = (conn[c].stream \/ (m.end /\ m.next = "events"))
      /\ conn'[c].open = conn[c].open /\ conn'[c].again = conn[c].again
      /\ conn'[c].shut = conn[c].shut
  BY <1>2, <1>3, <1>8
<1>10. \A q \in Requests \ {r} : Same(q)  BY <1>3 DEF Same
<1>11. CallsBack(r)
  <2>1. pool' = pool \/ pool' = pool \ {c}  BY <1>2
  <2>2. /\ m.ec => m.end /\ m.next = "done"
        /\ m.next = "done" => m.end
        /\ m.end => m.next = "done" \/ (m.next = "events" /\ session[r].stage = "read")
        /\ ~m.end => \/ session[r].stage = "events" /\ m.next = "events"
                     \/ session[r].stage \in Receiving /\ m.next \in {"content", "rest", "data"}
        /\ ~m.ec /\ m.next = "done" => session[r].stage \in {"read"} \cup Receiving
    BY <1>8
  <2>3. /\ ~m.ec => t.head \in Requests
        /\ m.next = "data" => t.held < Limit
    BY <1>7, <1>8
  <2>4. m.ec => \/ t.head # None \/ conn[c].shut \/ session[r].stage \in Connecting
                \/ session[r].stage \in {"write", "read"} /\ (~conn[c].again \/ c \notin pool)
    BY <1>2, <1>7, <1>8
  <2>5. \A d \in Conns : d # c => conn'[d] = conn[d] /\ net'[d] = net[d]  BY <1>2, <1>3
  <2>6. ~conn[c].open => net'[c] = net[c]  BY <1>2
  <2>7. m \in CallbackArgs /\ calls'[r] = calls[r] /\ sends'[r] = sends[r] /\ UNCHANGED running
    BY <1>3
  <2>8. r \in Active /\ session[r].stage \in Beginning \cup Receiving \cup {"events"}  OBVIOUS
  <2> HIDE DEF t, c, m
  <2> QED  BY <1>6, <1>7, <1>8, <1>9, <1>10, <2>1, <2>2, <2>3, <2>4, <2>5, <2>6, <2>7, <2>8
          DEF CallsBack, t, c, m
<1>12. QED  BY <1>2, <1>3, <1>4, <1>5, <1>11 DEF Outcome, OfAKind

\* Connecting goes on.
LEMMA EstablishedStep ==
    ASSUME PoolIInv, NEW r \in Requests, Established(r)
    PROVE  Outcome /\ Goes(r)
<1>0. PICK s \in Session : s = session[r]  BY DEF PoolIInv, Types
<1> DEFINE c == s.conn
<1>1. Free /\ s.stage \in Connecting  BY <1>0 DEF Established, Connecting
<1>2. s.stage \notin {"idle", "done"}  BY <1>1, ConnectingFacts
<1>3. /\ r \in Active /\ s \in Session /\ c \in Conns /\ net[c] \in Device
  BY <1>0, <1>2, OwnFacts
<1>4. After(s.stage) \in Stages  BY <1>1, ConnectingFacts DEF Stages, Beginning
<1>5. After(s.stage) \notin Receiving  BY <1>1, ConnectingFacts DEF Receiving
<1>6. After(s.stage) # "data"  BY <1>5 DEF Receiving
<1>7. Start(r, s, After(s.stage), conn) /\ UNCHANGED <<pool, calling, running, calls>>
  BY <1>0 DEF Established, Continue
<1>8. net' = [net EXCEPT ![c].up = @ \/ s.stage = "connect"]  BY <1>0 DEF Established
<1>9. net \in [Conns -> Device] /\ conn \in [Conns -> Connection]  BY DEF PoolIInv, Types
<1>10. /\ net' \in [Conns -> Device] /\ \A d \in Conns : d # c => net'[d] = net[d]
       /\ net'[c].up = (net[c].up \/ s.stage = "connect")
       /\ net'[c].asked = net[c].asked /\ net'[c].out = net[c].out
  <2>1. (net[c].up \/ s.stage = "connect") \in BOOLEAN  BY <1>3 DEF Device
  <2>2. \A b \in BOOLEAN : [net[c] EXCEPT !.up = b] \in Device  BY <1>3 DEF Device
  <2>3. PICK b \in BOOLEAN : b = (net[c].up \/ s.stage = "connect")  BY <2>1
  <2>4. net' = [net EXCEPT ![c] = [net[c] EXCEPT !.up = b]]  BY <1>8, <1>9, <2>3
  <2>5. net' \in [Conns -> Device] /\ (\A d \in Conns : d # c => net'[d] = net[d])
        /\ net'[c] = [net[c] EXCEPT !.up = b]
    BY <1>3, <1>9, <2>2, <2>4
  <2>6. net'[c].up = b /\ net'[c].asked = net[c].asked /\ net'[c].out = net[c].out
    BY <1>3, <2>5 DEF Device
  <2>7. QED  BY <2>3, <2>5, <2>6
<1>11. NetInv(c)'  BY <1>3, <1>10 DEF PoolIInv, NetInv
<1>12. QED
  BY <1>0, <1>1, <1>3, <1>4, <1>5, <1>6, <1>7, <1>9, <1>10, <1>11, GoesOutcome

\* An operation fails for good.
LEMMA FailStep ==
    ASSUME PoolIInv, Free, NEW r \in Requests, Fail(r),
           session[r].stage \in Beginning \cup Receiving \cup {"events"},
           \/ session[r].head # None \/ conn[session[r].conn].shut
           \/ session[r].stage \in Connecting
           \/ session[r].stage \in {"write", "read"}
                 /\ (~conn[session[r].conn].again \/ session[r].conn \notin pool)
    PROVE  Outcome /\ CallsBack(r) /\ net' = net /\ calling'.ec
<1>0. PICK s \in Session : s = session[r]  BY DEF PoolIInv, Types
<1> DEFINE c == s.conn
<1>1. s.stage \notin {"idle", "done"}
  BY <1>0, ConnectingFacts DEF Beginning, Receiving
<1>2. /\ r \in Active /\ s \in Session /\ c \in Conns /\ net[c] \in Device
  BY <1>0, <1>1, OwnFacts
<1>3. Callback(r, s, TRUE, TRUE, "done") /\ pool' = pool /\ net' = net  BY <1>0 DEF Fail
<1>4. net' \in [Conns -> Device]  BY <1>3 DEF PoolIInv, Types
<1>5. NetInv(c)'  BY <1>2, <1>3 DEF PoolIInv, NetInv
<1>6. \/ s.head # None \/ conn[c].shut \/ s.stage \in Connecting
      \/ s.stage \in {"write", "read"} /\ (~conn[c].again \/ c \notin pool)
  BY <1>0
<1>7. Outcome /\ CallsBack(r) /\ calling' = [req |-> r, ec |-> TRUE, end |-> TRUE, next |-> "done"]
  BY <1>0, <1>2, <1>3, <1>4, <1>5, <1>6, CallsBackOutcome
<1>8. QED  BY <1>3, <1>7

\* Connecting fails.
LEMMA EstablishFailsStep ==
    ASSUME PoolIInv, NEW r \in Requests, EstablishFails(r)
    PROVE  Outcome /\ CallsBack(r) /\ net' = net /\ calling'.ec
<1>1. Free /\ session[r].stage \in Connecting /\ Fail(r)  BY DEF EstablishFails, Connecting
<1>2. QED  BY <1>1, FailStep DEF Beginning

\* The request has been written.
LEMMA WrittenStep ==
    ASSUME PoolIInv, NEW r \in Requests, Written(r)
    PROVE  Outcome /\ Goes(r)
<1>0. PICK s \in Session : s = session[r]  BY DEF PoolIInv, Types
<1> DEFINE c == s.conn
<1>1. Free /\ s.stage = "write"  BY <1>0 DEF Written
<1>2. /\ r \in Active /\ s \in Session /\ c \in Conns /\ net[c] \in Device
  BY <1>0, <1>1, OwnFacts
<1>3. Start(r, s, "read", conn) /\ UNCHANGED <<pool, calling, running, calls>>
  BY <1>0 DEF Written, Continue
<1>4. net' = [net EXCEPT ![c].asked = IF net[c].up THEN Append(@, r) ELSE @]
  BY <1>0 DEF Written
<1>5. net \in [Conns -> Device] /\ conn \in [Conns -> Connection]  BY DEF PoolIInv, Types
<1>6. PICK a \in Seq(Requests) : a = IF net[c].up THEN Append(net[c].asked, r) ELSE net[c].asked
  BY <1>2, AppendProperties DEF Device
<1>7. /\ net' \in [Conns -> Device] /\ \A d \in Conns : d # c => net'[d] = net[d]
      /\ net'[c].up = net[c].up /\ net'[c].asked = a /\ net'[c].out = net[c].out
  <2>1. \A b \in Seq(Requests) : [net[c] EXCEPT !.asked = b] \in Device  BY <1>2 DEF Device
  <2>2. net' = [net EXCEPT ![c] = [net[c] EXCEPT !.asked = a]]  BY <1>4, <1>5, <1>6
  <2>3. net' \in [Conns -> Device] /\ (\A d \in Conns : d # c => net'[d] = net[d])
        /\ net'[c] = [net[c] EXCEPT !.asked = a]
    BY <1>2, <1>5, <2>1, <2>2
  <2>4. net'[c].up = net[c].up /\ net'[c].asked = a /\ net'[c].out = net[c].out
    BY <1>2, <2>3 DEF Device
  <2>5. QED  BY <2>3, <2>4
<1>8. NetInv(c)'  BY <1>2, <1>6, <1>7 DEF PoolIInv, NetInv
<1>9. "read" \in Stages /\ "read" \notin Receiving  BY DEF Stages, Beginning, Receiving
<1>10. QED
  BY <1>0, <1>1, <1>2, <1>3, <1>5, <1>7, <1>8, <1>9, GoesOutcome

\* Devices nobody refers to any more.
LEMMA ForgetNet ==
    ASSUME Types, net' = Forget(net, NoNet)
    PROVE  /\ net' \in [Conns -> Device]
           /\ \A d \in Conns : net'[d] = IF Alive(d) THEN net[d] ELSE NoNet
<1>1. net \in [Conns -> Device]  BY DEF Types
<1>2. net' = [d \in Conns |-> IF Alive(d) THEN net[d] ELSE NoNet]  BY DEF Forget, Alive
<1>3. QED  BY <1>1, <1>2, NewTypes

\* Nothing is sent by those.
LEMMA ForgetNetInv ==
    ASSUME PoolIInv, \A d \in Conns : net'[d] = net[d] \/ net'[d] = NoNet
    PROVE  \A d \in Conns : NetInv(d)'
<1> TAKE d \in Conns
<1>1. NetInv(d)  BY DEF PoolIInv
<1>2. NoNet.asked = <<>> /\ NoNet.out = <<>>  BY DEF NoNet
<1>3. QED  BY <1>1, <1>2 DEF NetInv

\* A second attempt.
LEMMA RetriesStep ==
    ASSUME PoolIInv, Free, NEW r \in Requests, session[r].stage \in {"write", "read"},
           conn[session[r].conn].again, session[r].conn \in pool, reconnect(r)
    PROVE  Outcome /\ \E new \in Conns : Retries(r, new)
<1>0. PICK s \in Session : s = session[r]  BY DEF PoolIInv, Types
<1> DEFINE old == s.conn
<1>1. PICK new \in Unborn :
        /\ pool' = Replaced(old, new)
        /\ Start(r, [NewSession EXCEPT !.conn = new], "resolve",
                 [conn EXCEPT ![new] = SecondAttempt])
        /\ net' = Forget(net, NoNet)
        /\ UNCHANGED <<calling, running, calls>>
  BY <1>0 DEF reconnect
<1>2. new \in Conns /\ new \notin pool \cup Held  BY DEF Unborn
<1>3. PICK u \in Session :
        /\ u = [NewSession EXCEPT !.conn = new]
        /\ u.conn = new /\ u.from = "own" /\ u.head = None
        /\ u.buf = <<>> /\ u.held = 0 /\ u.got = 0
  <2> DEFINE u == [NewSession EXCEPT !.conn = new]
  <2>1. u \in Session  BY <1>2, NewTypes DEF Session
  <2>2. /\ u.conn = new /\ u.from = "own" /\ u.head = None
        /\ u.buf = <<>> /\ u.held = 0 /\ u.got = 0
    BY DEF NewSession
  <2>3. QED  BY <2>1, <2>2
<1>5. conn \in [Conns -> Connection] /\ Types  BY DEF PoolIInv, Types
<1>6. /\ SecondAttempt \in Connection /\ SecondAttempt.inUse /\ ~SecondAttempt.again
      /\ ~SecondAttempt.open /\ ~SecondAttempt.shut /\ ~SecondAttempt.stream
  BY DEF SecondAttempt, NewConn, Connection
<1>7. PICK cs \in [Conns -> Connection] :
        /\ cs = [conn EXCEPT ![new] = SecondAttempt]
        /\ cs[new] = SecondAttempt /\ \A d \in Conns : d # new => cs[d] = conn[d]
  <2> DEFINE cs == [conn EXCEPT ![new] = SecondAttempt]
  <2>1. cs \in [Conns -> Connection] /\ cs[new] = SecondAttempt
        /\ \A d \in Conns : d # new => cs[d] = conn[d]
    BY <1>2, <1>5, <1>6
  <2>2. QED  BY <2>1
<1>8. PICK first \in Stages : first = "resolve"
  BY ConnectingFacts DEF Stages, Beginning
<1>9. Start(r, u, first, cs)  BY <1>1, <1>3, <1>7, <1>8
<1>10. /\ session' \in [Requests -> Session]
       /\ conn' \in [Conns -> Connection]
       /\ sends' \in [Requests -> Nat]
       /\ Staged(u, session'[r], first)
       /\ \A q \in Requests \ {r} : session'[q] = session[q] /\ sends'[q] = sends[q]
       /\ sends'[r] = IF first = "write" THEN sends[r] + 1 ELSE sends[r]
       /\ \A c \in Conns : c # u.conn =>
             conn'[c] = IF c \in pool' \cup Held' THEN cs[c] ELSE NewConn
       /\ Timed(cs[u.conn], conn'[u.conn], cs[u.conn].open \/ first = "connect")
  <2>1. u.conn \in Conns  BY <1>2, <1>3
  <2>2. Types  BY <1>5
  <2>3. QED  BY <1>9, <2>1, <2>2, StartStep
<1>11. net' \in [Conns -> Device]
       /\ \A d \in Conns : net'[d] = IF Alive(d) THEN net[d] ELSE NoNet
  BY <1>1, <1>5, ForgetNet
<1>12. pool' = (pool \ {old}) \cup {new}  BY <1>1 DEF Replaced
<1>13. Types'
  <2>1. pool' \in SUBSET Conns  BY <1>2, <1>5, <1>12 DEF Types
  <2>2. QED  BY <1>1, <1>5, <1>10, <1>11, <2>1 DEF Types
<1>14. \A d \in Conns : NetInv(d)'  BY <1>11, ForgetNetInv
<1>15. Retries(r, new)
  <2>1. /\ running /\ calling = None /\ r \in Active  BY DEF Free, Active
  <2>2. LET t == session'[r] IN
          /\ t.stage = "resolve" /\ t.conn = new /\ t.from = "own"
          /\ ~t.cut /\ t.head = None /\ t.buf = <<>> /\ t.held = 0 /\ t.got = 0
    BY <1>3, <1>8, <1>10 DEF Staged
  <2>3. \A q \in Requests \ {r} : Same(q)  BY <1>1, <1>10 DEF Same
  <2>4. calls'[r] = calls[r] /\ sends'[r] = sends[r] /\ UNCHANGED <<calling, running>>
    BY <1>1, <1>8, <1>10
  <2>5. /\ conn'[new].inUse /\ ~conn'[new].again /\ ~conn'[new].open
        /\ ~conn'[new].shut /\ ~conn'[new].stream
    <3>1. u.conn = new /\ first # "connect"  BY <1>3, <1>8
    <3>2. Timed(cs[new], conn'[new], cs[new].open \/ first = "connect")  BY <1>10, <3>1
    <3>3. QED  BY <1>6, <1>7, <3>1, <3>2 DEF Timed
  <2>6. \A d \in Conns : d # new => conn'[d] = IF Alive(d) THEN conn[d] ELSE NewConn
    BY <1>3, <1>7, <1>10 DEF Alive
  <2>7. /\ session[r].stage \in {"write", "read"} /\ conn[session[r].conn].again
        /\ session[r].conn \in pool /\ pool' = (pool \ {session[r].conn}) \cup {new}
    BY <1>0, <1>12
  <2>8. QED  BY <1>2, <1>11, <2>1, <2>2, <2>3, <2>4, <2>5, <2>6, <2>7 DEF Retries
<1>16. QED  BY <1>2, <1>13, <1>14, <1>15 DEF Outcome, OfAKind

\* Writing fails, or nothing comes back.
LEMMA WriteOrReadFailsStep ==
    ASSUME PoolIInv, NEW r \in Requests, WriteOrReadFails(r)
    PROVE  /\ Outcome
           /\ \/ CallsBack(r) /\ net' = net /\ calling'.ec
              \/ \E new \in Conns : Retries(r, new)
<1>1. Free /\ session[r].stage \in {"write", "read"}  BY DEF WriteOrReadFails
<1>2. session[r].stage \in Beginning  BY <1>1 DEF Beginning
<1>3. CASE Retriable(r) /\ session[r].conn \in pool
  <2>1. reconnect(r) /\ conn[session[r].conn].again
    BY <1>3 DEF WriteOrReadFails, Retriable
  <2>2. QED  BY <1>1, <1>3, <2>1, RetriesStep
<1>4. CASE ~(Retriable(r) /\ session[r].conn \in pool)
  <2>1. Fail(r)  BY <1>4 DEF WriteOrReadFails, reconnect
  <2>2. session[r].cut => conn[session[r].conn].shut  BY DEF PoolIInv, SessionInv
  <2>3. \/ conn[session[r].conn].shut \/ ~conn[session[r].conn].again
        \/ session[r].conn \notin pool
    BY <1>4, <2>2 DEF Retriable
  <2>4. QED  BY <1>1, <1>2, <2>1, <2>3, FailStep
<1>5. QED  BY <1>3, <1>4

\* The connection ends within a response.
LEMMA ContentFailsStep ==
    ASSUME PoolIInv, NEW r \in Requests, ContentFails(r)
    PROVE  Outcome /\ CallsBack(r) /\ net' = net /\ calling'.ec
<1>1. Free /\ Fail(r)  BY DEF ContentFails, BrokenOff
<1>2. session[r].stage \in Receiving \cup {"events"}  BY DEF ContentFails, Receiving
<1>3. session[r].head \in Requests  BY <1>2 DEF PoolIInv, SessionInv
<1>4. session[r].head # None  BY <1>3, ClientAssumption DEF ClientAssumption
<1>5. QED  BY <1>1, <1>2, <1>4, FailStep

\* t is s with other counts of content, or another buffer.
Counted(s, t, held, got, left) ==
    /\ t \in Session /\ t.held = held /\ t.got = got /\ t.left = left
    /\ t.stage = s.stage /\ t.conn = s.conn /\ t.from = s.from /\ t.buf = s.buf
    /\ t.head = s.head /\ t.framing = s.framing /\ t.cut = s.cut
Buffered(s, t, buf) ==
    /\ t \in Session /\ t.buf = buf
    /\ t.stage = s.stage /\ t.conn = s.conn /\ t.from = s.from /\ t.held = s.held
    /\ t.got = s.got /\ t.left = s.left
    /\ t.head = s.head /\ t.framing = s.framing /\ t.cut = s.cut

\* Only the counts change, or only the buffer.
LEMMA CountedFields ==
    /\ \A s \in Session, h \in 0..Limit, g \in Nat, l \in Nat :
          Counted(s, [s EXCEPT !.held = h, !.got = g, !.left = l], h, g, l)
    /\ \A s \in Session, h \in 0..Limit, g \in Nat :
          Counted(s, [s EXCEPT !.held = h, !.got = g], h, g, s.left)
    /\ \A s \in Session, g \in Nat : Counted(s, [s EXCEPT !.got = g], s.held, g, s.left)
    /\ \A s \in Session, h \in 0..Limit : Counted(s, [s EXCEPT !.held = h], h, s.got, s.left)
    /\ \A s \in Session, b \in Seq(Part) : Buffered(s, [s EXCEPT !.buf = b], b)
<1>1. \A s \in Session, h \in 0..Limit, g \in Nat, l \in Nat :
          Counted(s, [s EXCEPT !.held = h, !.got = g, !.left = l], h, g, l)
  <2> TAKE s \in Session, h \in 0..Limit, g \in Nat, l \in Nat
  <2>1. [s EXCEPT !.held = h, !.got = g, !.left = l] \in Session  BY DEF Session
  <2>2. QED  BY <2>1 DEF Counted, Session
<1>2. \A s \in Session, h \in 0..Limit, g \in Nat :
          Counted(s, [s EXCEPT !.held = h, !.got = g], h, g, s.left)
  <2> TAKE s \in Session, h \in 0..Limit, g \in Nat
  <2>1. [s EXCEPT !.held = h, !.got = g] \in Session  BY DEF Session
  <2>2. QED  BY <2>1 DEF Counted, Session
<1>3. \A s \in Session, g \in Nat : Counted(s, [s EXCEPT !.got = g], s.held, g, s.left)
  BY DEF Counted, Session
<1>4. \A s \in Session, h \in 0..Limit : Counted(s, [s EXCEPT !.held = h], h, s.got, s.left)
  BY DEF Counted, Session
<1>5. \A s \in Session, b \in Seq(Part) : Buffered(s, [s EXCEPT !.buf = b], b)
  BY DEF Buffered, Session
<1>6. QED  BY <1>1, <1>2, <1>3, <1>4, <1>5

\* A buffer has room for one part at least.
LEMMA LimitFacts == Limit \in Nat /\ Limit >= 1 /\ 0 \in 0..Limit
<1>1. Limit \in Nat \ {0}  BY ClientAssumption DEF ClientAssumption
<1>2. QED  BY <1>1

\* Parts that leave the inbox of a request that reads.
LEMMA ReadingStep ==
    ASSUME PoolIInv, NEW r \in Requests, NEW s \in Session, s = session[r],
           s.stage \in {"read", "events"} \cup Receiving,
           NEW k \in Nat, k <= Len(Inbox(r)), Take(r, k)
    PROVE  /\ r \in Active /\ s.conn \in Conns /\ conn[s.conn].open
           /\ s.stage # "read" => s.head \in Requests
           /\ net' \in [Conns -> Device] /\ \A d \in Conns : d # s.conn => net'[d] = net[d]
           /\ NetInv(s.conn)'
           /\ net'[s.conn].up = net[s.conn].up /\ net'[s.conn].asked = net[s.conn].asked
           /\ net'[s.conn].out = net[s.conn].out
           /\ net'[s.conn].inbox = SubSeq(net[s.conn].inbox, k + 1, Len(net[s.conn].inbox))
<1>1. s.stage \notin {"idle", "done"} /\ s.stage # "resolve"  BY DEF Receiving
<1>2. r \in Active /\ s.conn \in Conns  BY <1>1, OwnFacts
<1>3. Types /\ SessionInv(r)  BY DEF PoolIInv
<1>4. conn[s.conn].open
  BY <1>1, <1>3 DEF SessionInv, Beginning
<1>5. s.stage # "read" => s.head \in Requests  BY <1>3 DEF SessionInv
<1>6. /\ net' \in [Conns -> Device] /\ \A d \in Conns : d # s.conn => net'[d] = net[d]
      /\ net'[s.conn].up = net[s.conn].up /\ net'[s.conn].asked = net[s.conn].asked
      /\ net'[s.conn].out = net[s.conn].out
      /\ net'[s.conn].inbox = SubSeq(net[s.conn].inbox, k + 1, Len(net[s.conn].inbox))
  BY <1>2, <1>3, TakeStep
<1>7. NetInv(s.conn)'  BY <1>2, <1>6 DEF PoolIInv, NetInv
<1>8. QED  BY <1>2, <1>4, <1>5, <1>6, <1>7

\* The parts after the first m are again a sequence of parts.
LEMMA RestType ==
    ASSUME NEW q \in Seq(Part), NEW m \in Nat, m <= Len(q)
    PROVE  \E rest \in Seq(Part) :
              /\ rest = SubSeq(q, m + 1, Len(q))
              /\ Len(rest) = Len(q) - m
              /\ \A i \in 1..Len(q) - m : rest[i] = q[m + i]
<1>1. PICK n \in Nat : n = Len(q)  BY LenProperties
<1>2. \A i \in m + 1..n : q[i] \in Part
  <2> TAKE i \in m + 1..n
  <2>1. i \in 1..Len(q)  BY <1>1
  <2>2. QED  BY <2>1, ElementOfSeq
<1>3. /\ SubSeq(q, m + 1, n) \in Seq(Part)
      /\ Len(SubSeq(q, m + 1, n)) = IF m + 1 <= n THEN n - (m + 1) + 1 ELSE 0
      /\ \A i \in 1..n - (m + 1) + 1 : SubSeq(q, m + 1, n)[i] = q[m + 1 + i - 1]
  BY <1>1, <1>2, SubSeqProperties
<1>4. PICK p : p = SubSeq(q, m + 1, n)  OBVIOUS
<1>5. /\ p \in Seq(Part) /\ Len(p) = (IF m + 1 <= n THEN n - (m + 1) + 1 ELSE 0)
      /\ \A i \in 1..n - (m + 1) + 1 : p[i] = q[m + 1 + i - 1]
  BY <1>3, <1>4, Zenon
<1>6. Len(p) = n - m
  <2> HIDE <1>3, <1>4
  <2> QED  BY <1>1, <1>5
<1>7. \A i \in 1..n - m : p[i] = q[m + i]
  <2> HIDE <1>3, <1>4
  <2> TAKE i \in 1..n - m
  <2>1. i \in 1..n - (m + 1) + 1 /\ m + 1 + i - 1 = m + i  BY <1>1
  <2>2. p[i] = q[m + 1 + i - 1]  BY <1>5, <2>1, Zenon
  <2>3. QED  BY <2>1, <2>2, Zenon
<1>8. QED  BY <1>1, <1>4, <1>5, <1>6, <1>7, Zenon

\* The i-th part that a request has in its buffer and its socket.
Pending(buf, inbox, i) == IF i <= Len(buf) THEN buf[i] ELSE inbox[i - Len(buf)]

\* n of those parts are gone.
Moves(r, n) ==
    LET s == session[r]
        t == session'[r]
        d == net[s.conn]
        e == net'[s.conn]
    IN  /\ e.asked = d.asked /\ e.up = d.up /\ e.out = d.out
        /\ Len(t.buf) + Len(e.inbox) + n = Len(s.buf) + Len(d.inbox)
        /\ \A i \in 1..Len(t.buf) : t.buf[i] = Pending(s.buf, d.inbox, i + n)
        /\ \A i \in 1..Len(e.inbox) : e.inbox[i] = Pending(s.buf, d.inbox, i + Len(t.buf) + n)

\* r takes n of them, content of them.
Takes(r, n, content) ==
    LET s == session[r]
        t == session'[r]
    IN  /\ t.head = s.head /\ t.framing = s.framing /\ t.got = s.got + content
        /\ Moves(r, n)

\* The first k parts in the socket move to the buffer, and n leave it.
LEMMA MovesStep ==
    ASSUME PoolIInv, NEW r \in Requests, NEW s \in Session, s = session[r],
           s.stage \in {"read", "events"} \cup Receiving,
           NEW k \in Nat, k <= Len(Inbox(r)), Take(r, k),
           NEW t \in Session, t = session'[r], NEW n \in Nat,
           Len(t.buf) + n = Len(s.buf) + k,
           \A i \in 1..Len(t.buf) : t.buf[i] = Pending(s.buf, Inbox(r), i + n)
    PROVE  Moves(r, n)
<1>1. /\ s.conn \in Conns
      /\ net'[s.conn].up = net[s.conn].up /\ net'[s.conn].asked = net[s.conn].asked
      /\ net'[s.conn].out = net[s.conn].out
      /\ net'[s.conn].inbox = SubSeq(net[s.conn].inbox, k + 1, Len(net[s.conn].inbox))
  <2>1. s.stage \notin {"idle", "done"}  BY DEF Receiving
  <2>2. s.conn \in Conns /\ Types  BY <2>1, OwnFacts DEF PoolIInv
  <2>3. QED  BY <2>2, TakeStep
<1>2. PICK q \in Seq(Part) : q = net[s.conn].inbox /\ q = Inbox(r)
  BY <1>1 DEF PoolIInv, Types, Device, Inbox
<1>3. PICK rest \in Seq(Part) : /\ rest = SubSeq(q, k + 1, Len(q)) /\ Len(rest) = Len(q) - k
                                /\ \A i \in 1..Len(q) - k : rest[i] = q[k + i]
  BY <1>2, RestType
<1>4. net'[s.conn].inbox = rest  BY <1>1, <1>2, <1>3, Zenon
<1>5. PICK b \in Seq(Part) : b = s.buf  BY DEF Session
<1>6. PICK c \in Seq(Part) : c = t.buf  BY DEF Session
<1>7. Len(q) \in Nat /\ Len(b) \in Nat /\ Len(c) \in Nat /\ Len(rest) \in Nat
  BY LenProperties
<1>8. Len(c) + n = Len(b) + k  BY <1>5, <1>6
<1>9. Len(c) + Len(rest) + n = Len(b) + Len(q)
  <2>1. PICK lb \in Nat, lc \in Nat, lq \in Nat, lr \in Nat :
          lb = Len(b) /\ lc = Len(c) /\ lq = Len(q) /\ lr = Len(rest)
    BY <1>7
  <2>2. lr = lq - k /\ lc + n = lb + k  BY <1>3, <1>8, <2>1, Zenon
  <2>3. lc + lr + n = lb + lq
    <3> HIDE <1>1, <1>2, <1>3, <1>4, <1>5, <1>6, <2>1
    <3> QED  BY <2>2
  <2>4. QED  BY <2>1, <2>3, Zenon
<1>10. \A i \in 1..Len(rest) : rest[i] = Pending(b, q, i + Len(c) + n)
  <2> TAKE i \in 1..Len(rest)
  <2>1. /\ i \in 1..Len(q) - k /\ ~(i + Len(c) + n <= Len(b))
        /\ (i + Len(c) + n) - Len(b) = k + i
    <3>1. PICK lb \in Nat, lc \in Nat, lq \in Nat : lb = Len(b) /\ lc = Len(c) /\ lq = Len(q)
      BY <1>7
    <3>2. lc + n = lb + k /\ i \in 1..lq - k  BY <1>3, <1>8, <3>1
    <3>3. i \in 1..lq - k /\ ~(i + lc + n <= lb) /\ (i + lc + n) - lb = k + i
      <4> HIDE <1>1, <1>2, <1>3, <1>4, <1>5, <1>6, <3>1
      <4> QED  BY <3>2
    <3>4. QED  BY <3>1, <3>3, Zenon
  <2>2. Pending(b, q, i + Len(c) + n) = q[k + i]  BY <2>1, Zenon DEF Pending
  <2>3. QED  BY <1>3, <2>1, <2>2, Zenon
<1>11. \A i \in 1..Len(c) : c[i] = Pending(b, q, i + n)  BY <1>2, <1>5, <1>6, Zenon
<1>12. t = session'[r] /\ s = session[r] /\ net[s.conn].inbox = q
  BY <1>2
<1>13. Len(t.buf) + Len(net'[s.conn].inbox) + n = Len(s.buf) + Len(net[s.conn].inbox)
  BY <1>4, <1>5, <1>6, <1>9, <1>12, Zenon
<1>14. /\ \A i \in 1..Len(t.buf) : t.buf[i] = Pending(s.buf, net[s.conn].inbox, i + n)
       /\ \A i \in 1..Len(net'[s.conn].inbox) :
             net'[s.conn].inbox[i] = Pending(s.buf, net[s.conn].inbox, i + Len(t.buf) + n)
  BY <1>4, <1>5, <1>6, <1>10, <1>11, <1>12, Zenon
<1>15. QED
  BY <1>1, <1>12, <1>13, <1>14, Zenon DEF Moves

\* The same for a request that goes on with its content.
LEMMA TakesStep ==
    ASSUME PoolIInv, NEW r \in Requests, NEW s \in Session, s = session[r],
           s.stage \in {"read", "events"} \cup Receiving,
           NEW k \in Nat, k <= Len(Inbox(r)), Take(r, k),
           NEW t \in Session, t = session'[r], NEW n \in Nat, NEW content \in Nat,
           t.head = s.head, t.framing = s.framing, t.got = s.got + content,
           Len(t.buf) + n = Len(s.buf) + k,
           \A i \in 1..Len(t.buf) : t.buf[i] = Pending(s.buf, Inbox(r), i + n)
    PROVE  Takes(r, n, content)
<1>1. Moves(r, n)  BY MovesStep
<1>2. QED  BY <1>1, Zenon DEF Takes

\* Content is read, up to its end or as much as the buffer holds.
LEMMA ReadContentStep ==
    ASSUME PoolIInv, NEW r \in Requests, ReadContent(r)
    PROVE  /\ Outcome /\ CallsBack(r) /\ ~calling'.ec
           /\ IF session'[r].left = 0 THEN calling'.end /\ calling'.next = "done"
              ELSE ~calling'.end /\ calling'.next = "content"
           /\ session[r].buf = <<>> => \E n \in Nat :
                 /\ n <= session[r].left /\ session'[r].left = session[r].left - n
                 /\ session'[r].buf = <<>> /\ Takes(r, n, n)
<1>0. PICK s \in Session : s = session[r]  BY DEF PoolIInv, Types
<1>1. Free /\ s.stage = "content"  BY <1>0 DEF ReadContent
<1>2. s.held \in 0..Limit /\ s.left \in Nat /\ s.got \in Nat  BY DEF Session
<1>3. PICK n \in Nat : /\ n = IF s.left < Limit - s.held THEN s.left ELSE Limit - s.held
                       /\ n <= s.left /\ s.held + n \in 0..Limit
                       /\ s.left - n \in Nat /\ s.got + n \in Nat
  BY <1>2, LimitFacts
<1>4. PICK t \in Session :
        /\ t = [s EXCEPT !.held = s.held + n, !.got = s.got + n, !.left = s.left - n]
        /\ Counted(s, t, s.held + n, s.got + n, s.left - n)
  <2>1. Counted(s, [s EXCEPT !.held = s.held + n, !.got = s.got + n, !.left = s.left - n],
                s.held + n, s.got + n, s.left - n)
    BY <1>3, CountedFields
  <2>2. QED  BY <2>1 DEF Counted
<1>5. /\ Len(Inbox(r)) >= n /\ Take(r, n) /\ UNCHANGED pool
      /\ IF t.left = 0 THEN Callback(r, t, FALSE, TRUE, "done") ELSE Partial(r, t, "content")
  BY <1>0, <1>3, <1>4 DEF ReadContent
<1>6. /\ r \in Active /\ s.conn \in Conns /\ conn[s.conn].open
      /\ s.head \in Requests
      /\ net' \in [Conns -> Device] /\ \A d \in Conns : d # s.conn => net'[d] = net[d]
      /\ NetInv(s.conn)' /\ n <= Len(Inbox(r))
  <2>1. n <= Len(Inbox(r))
    <3>1. Inbox(r) = net[s.conn].inbox  BY <1>0 DEF Inbox
    <3>2. s.conn \in Conns  BY <1>0, <1>1, OwnFacts
    <3>3. net[s.conn].inbox \in Seq(Part)  BY <3>2 DEF PoolIInv, Types, Device
    <3>4. Len(Inbox(r)) \in Nat  BY <3>1, <3>3, LenProperties
    <3>5. QED  BY <1>5, <3>4
  <2>2. s.stage \in {"read", "events"} \cup Receiving  BY <1>1 DEF Receiving
  <2>3. QED  BY <1>0, <1>1, <1>5, <2>1, <2>2, ReadingStep
<1>7. session[r].stage \in Receiving /\ session[r].stage \in Beginning \cup Receiving \cup {"events"}
  BY <1>0, <1>1 DEF Receiving
<1>8. t.conn = s.conn /\ t.from = s.from /\ t.head = s.head  BY <1>4 DEF Counted
<1> DEFINE v == session'[r]
           Done == /\ Outcome /\ CallsBack(r) /\ ~calling'.ec
                   /\ IF v.left = 0 THEN calling'.end /\ calling'.next = "done"
                      ELSE ~calling'.end /\ calling'.next = "content"
                   /\ v \in Session /\ v.head = s.head /\ v.framing = s.framing
                   /\ v.buf = s.buf /\ v.got = s.got + n /\ v.left = s.left - n
<1>9. ASSUME t.left = 0 PROVE Done
  <2>1. Callback(r, t, FALSE, TRUE, "done")  BY <1>5, <1>9
  <2>2. t.conn = session[r].conn /\ t.from = session[r].from  BY <1>0, <1>8
  <2>3. /\ Outcome /\ CallsBack(r) /\ Staged(t, v, "callback")
        /\ calling' = [req |-> r, ec |-> FALSE, end |-> TRUE, next |-> "done"]
    BY <1>1, <1>5, <1>6, <1>7, <1>8, <2>1, <2>2, CallsBackOutcome
  <2>4. ~calling'.ec /\ calling'.end /\ calling'.next = "done"  BY <2>3
  <2>5. /\ v \in Session /\ v.head = s.head /\ v.framing = s.framing
        /\ v.buf = s.buf /\ v.got = s.got + n /\ v.left = s.left - n /\ v.left = 0
    BY <1>4, <1>9, <2>3 DEF Staged, Counted
  <2> HIDE DEF v
  <2>6. QED  BY <2>3, <2>4, <2>5
<1>10. ASSUME t.left # 0 PROVE Done
  <2>1. PICK u \in Session : u = [t EXCEPT !.held = 0] /\ Counted(t, u, 0, t.got, t.left)
    <3>1. Counted(t, [t EXCEPT !.held = 0], 0, t.got, t.left)  BY CountedFields, LimitFacts
    <3>2. QED  BY <3>1 DEF Counted
  <2>2. Callback(r, u, FALSE, FALSE, "content")  BY <1>5, <1>10, <2>1 DEF Partial
  <2>3. u.conn = session[r].conn /\ u.from = session[r].from /\ u.head = s.head
        /\ u.conn = s.conn
    BY <1>0, <1>8, <2>1 DEF Counted
  <2>4. /\ Outcome /\ CallsBack(r) /\ Staged(u, v, "callback")
        /\ calling' = [req |-> r, ec |-> FALSE, end |-> FALSE, next |-> "content"]
    BY <1>1, <1>5, <1>6, <1>7, <2>2, <2>3, CallsBackOutcome
  <2>5. ~calling'.ec /\ ~calling'.end /\ calling'.next = "content"  BY <2>4
  <2>6. /\ v \in Session /\ v.head = s.head /\ v.framing = s.framing
        /\ v.buf = s.buf /\ v.got = s.got + n /\ v.left = s.left - n /\ v.left # 0
    BY <1>4, <1>10, <2>1, <2>4 DEF Staged, Counted
  <2> HIDE DEF v
  <2>7. QED  BY <2>4, <2>5, <2>6
<1>11. Done  BY <1>9, <1>10
<1> HIDE DEF v
<1>12. s.buf = <<>> => Takes(r, n, n)
  <2> HAVE s.buf = <<>>
  <2>1. Len(s.buf) = 0 /\ Len(v.buf) = 0  BY <1>11, EmptySeq
  <2>2. s.stage \in {"read", "events"} \cup Receiving  BY <1>1 DEF Receiving
  <2>3. Len(v.buf) + n = Len(s.buf) + n  BY <2>1
  <2>4. \A i \in 1..Len(v.buf) : v.buf[i] = Pending(s.buf, Inbox(r), i + n)  BY <2>1
  <2>5. Take(r, n) /\ v = session'[r]  BY <1>5 DEF v
  <2>6. v \in Session /\ v.head = s.head /\ v.framing = s.framing /\ v.got = s.got + n
    BY <1>11
  <2>7. QED  BY <1>0, <1>6, <2>2, <2>3, <2>4, <2>5, <2>6, TakesStep
<1>13. QED
  <2>1. session[r].buf = <<>> => \E m \in Nat :
           /\ m <= session[r].left /\ v.left = session[r].left - m
           /\ v.buf = <<>> /\ Takes(r, m, m)
    BY <1>0, <1>3, <1>11, <1>12, Zenon
  <2>2. QED  BY <1>11, <2>1, Zenon DEF v

\* What a request has at hand of its response.
LEMMA FirstType ==
    ASSUME PoolIInv, NEW r \in Requests, session[r].stage \notin {"idle", "done"},
           NEW k \in Nat, k <= Len(Inbox(r))
    PROVE  /\ Inbox(r) \in Seq(Part) /\ Len(Inbox(r)) \in Nat
           /\ First(r, k) \in Seq(Part) /\ Len(First(r, k)) = Len(session[r].buf) + k
           /\ \A i \in 1..Len(session[r].buf) + k :
                 First(r, k)[i] = IF i <= Len(session[r].buf) THEN session[r].buf[i]
                                  ELSE Inbox(r)[i - Len(session[r].buf)]
<1>1. session[r] \in Session /\ net[session[r].conn] \in Device  BY OwnFacts
<1>2. Inbox(r) \in Seq(Part) /\ session[r].buf \in Seq(Part)
  BY <1>1 DEF Inbox, Session, Device
<1>3. PICK in \in Seq(Part) : in = Inbox(r)  BY <1>2
<1>4. Len(in) \in Nat  BY LenProperties
<1>5. PICK b \in Seq(Part) : b = session[r].buf  BY <1>2
<1>6. Len(b) \in Nat  BY LenProperties
<1>7. PICK p \in Seq(Part) : p = SubSeq(in, 1, k) /\ Len(p) = k /\ \A i \in 1..k : p[i] = in[i]
  <2>1. k <= Len(in)  BY <1>3
  <2>2. \A i \in 1..k : in[i] \in Part  BY <1>4, <2>1, ElementOfSeq
  <2>3. /\ SubSeq(in, 1, k) \in Seq(Part)
        /\ Len(SubSeq(in, 1, k)) = IF 1 <= k THEN k - 1 + 1 ELSE 0
        /\ \A i \in 1..k - 1 + 1 : SubSeq(in, 1, k)[i] = in[1 + i - 1]
    BY <2>2, SubSeqProperties
  <2>4. PICK p : p = SubSeq(in, 1, k)  OBVIOUS
  <2>5. /\ p \in Seq(Part) /\ Len(p) = (IF 1 <= k THEN k - 1 + 1 ELSE 0)
        /\ \A i \in 1..k - 1 + 1 : p[i] = in[1 + i - 1]
    BY <2>3, <2>4, Zenon
  <2>6. Len(p) = k /\ \A i \in 1..k : p[i] = in[i]
    <3> HIDE <2>4
    <3> QED  BY <2>5
  <2>7. QED  BY <2>4, <2>5, <2>6, Zenon
<1>8. First(r, k) = b \o p  BY <1>3, <1>5, <1>7 DEF First
<1>9. /\ First(r, k) \in Seq(Part) /\ Len(First(r, k)) = Len(b) + Len(p)
      /\ \A i \in 1..Len(b) + Len(p) :
            First(r, k)[i] = IF i <= Len(b) THEN b[i] ELSE p[i - Len(b)]
  BY <1>8, ConcatProperties
<1>10. \A i \in 1..Len(b) + k : i > Len(b) => p[i - Len(b)] = in[i - Len(b)]
  BY <1>6, <1>7
<1>11. PICK f : f = First(r, k)  OBVIOUS
<1>12. /\ f \in Seq(Part) /\ Len(f) = Len(b) + k
       /\ \A i \in 1..Len(b) + k : f[i] = IF i <= Len(b) THEN b[i] ELSE in[i - Len(b)]
  <2>1. /\ f \in Seq(Part) /\ Len(f) = Len(b) + Len(p)
        /\ \A i \in 1..Len(b) + Len(p) : f[i] = IF i <= Len(b) THEN b[i] ELSE p[i - Len(b)]
    BY <1>9, <1>11, Zenon
  <2>2. Len(p) = k  BY <1>7, Zenon
  <2>3. /\ f \in Seq(Part) /\ Len(f) = Len(b) + k
        /\ \A i \in 1..Len(b) + k : f[i] = IF i <= Len(b) THEN b[i] ELSE p[i - Len(b)]
    BY <2>1, <2>2, Zenon
  <2>4. \A i \in 1..Len(b) + k :
           (IF i <= Len(b) THEN b[i] ELSE p[i - Len(b)])
              = IF i <= Len(b) THEN b[i] ELSE in[i - Len(b)]
    <3> TAKE i \in 1..Len(b) + k
    <3>1. ~(i <= Len(b)) => i > Len(b)  BY <1>6
    <3>2. ~(i <= Len(b)) => p[i - Len(b)] = in[i - Len(b)]  BY <1>10, <3>1, Zenon
    <3>3. QED  BY <3>2, Zenon
  <2>5. QED  BY <2>3, <2>4, Zenon
<1>13. QED  BY <1>3, <1>4, <1>5, <1>11, <1>12, Zenon

\* Content that ends with the connection.
LEMMA ReadRestStep ==
    ASSUME PoolIInv, NEW r \in Requests, ReadRest(r)
    PROVE  /\ Outcome /\ CallsBack(r) /\ ~calling'.ec
           /\ IF calling'.end
              THEN /\ calling'.next = "done"
                   /\ conn[session[r].conn].shut \/ ~net[session[r].conn].up
              ELSE calling'.next = "rest"
           /\ session[r].buf = <<>> =>
                 \E n \in Nat : session'[r].buf = <<>> /\ Takes(r, n, n)
<1>0. PICK s \in Session : s = session[r]  BY DEF PoolIInv, Types
<1>1. Free /\ s.stage = "rest"  BY <1>0 DEF ReadRest
<1>2. s.held \in 0..Limit /\ s.left \in Nat /\ s.got \in Nat  BY DEF Session
<1>3. Len(Inbox(r)) \in Nat
  <2>1. session[r].stage \notin {"idle", "done"} /\ 0 \in Nat  BY <1>0, <1>1
  <2>2. session[r].conn \in Conns  BY <2>1, OwnFacts
  <2>3. Inbox(r) \in Seq(Part)  BY <2>2 DEF PoolIInv, Types, Device, Inbox
  <2>4. QED  BY <2>3, LenProperties
<1>4. PICK room \in Nat : room = Limit - s.held  BY <1>2, LimitFacts
<1>5. PICK n \in Nat : /\ n = IF Len(Inbox(r)) < room THEN Len(Inbox(r)) ELSE room
                       /\ n <= Len(Inbox(r)) /\ s.got + n \in Nat
  BY <1>2, <1>3
<1>6. PICK t \in Session :
        t = [s EXCEPT !.got = @ + n] /\ Counted(s, t, s.held, s.got + n, s.left)
  <2>1. Counted(s, [s EXCEPT !.got = s.got + n], s.held, s.got + n, s.left)
    BY <1>5, CountedFields
  <2>2. QED  BY <2>1 DEF Counted
<1>7. /\ Take(r, n) /\ pool' = pool \ {s.conn}
      /\ IF n = room THEN Partial(r, t, "rest") ELSE Callback(r, t, FALSE, TRUE, "done")
      /\ n # room => Broken(r) /\ ~s.cut
  BY <1>0, <1>4, <1>5, <1>6 DEF ReadRest
<1>8. /\ r \in Active /\ s.conn \in Conns /\ conn[s.conn].open
      /\ s.head \in Requests
      /\ net' \in [Conns -> Device] /\ \A d \in Conns : d # s.conn => net'[d] = net[d]
      /\ NetInv(s.conn)'
  <2>1. s.stage \in {"read", "events"} \cup Receiving  BY <1>1 DEF Receiving
  <2>2. QED  BY <1>0, <1>1, <1>5, <1>7, <2>1, ReadingStep
<1>9. session[r].stage \in Receiving /\ session[r].stage \in Beginning \cup Receiving \cup {"events"}
  BY <1>0, <1>1 DEF Receiving
<1>10. t.conn = s.conn /\ t.from = s.from /\ t.head = s.head  BY <1>6 DEF Counted
<1> DEFINE v == session'[r]
           Done == /\ Outcome /\ CallsBack(r) /\ ~calling'.ec
                   /\ IF calling'.end
                      THEN /\ calling'.next = "done"
                           /\ conn[session[r].conn].shut \/ ~net[session[r].conn].up
                      ELSE calling'.next = "rest"
                   /\ v \in Session /\ v.head = s.head /\ v.framing = s.framing
                   /\ v.buf = s.buf /\ v.got = s.got + n
<1>11. ASSUME n # room PROVE Done
  <2>1. Callback(r, t, FALSE, TRUE, "done")  BY <1>7, <1>11
  <2>2. t.conn = session[r].conn /\ t.from = session[r].from  BY <1>0, <1>10
  <2>3. /\ Outcome /\ CallsBack(r) /\ Staged(t, v, "callback")
        /\ calling' = [req |-> r, ec |-> FALSE, end |-> TRUE, next |-> "done"]
    BY <1>1, <1>7, <1>8, <1>9, <1>10, <2>1, <2>2, CallsBackOutcome
  <2>4. ~calling'.ec /\ calling'.end /\ calling'.next = "done"  BY <2>3
  <2>5. /\ v \in Session /\ v.head = s.head /\ v.framing = s.framing
        /\ v.buf = s.buf /\ v.got = s.got + n
    BY <1>6, <2>3 DEF Staged, Counted
  <2>6. conn[session[r].conn].shut \/ ~net[session[r].conn].up
    BY <1>0, <1>7, <1>11 DEF Broken
  <2> HIDE DEF v
  <2>7. QED  BY <2>3, <2>4, <2>5, <2>6
<1>12. ASSUME n = room PROVE Done
  <2>1. PICK u \in Session : u = [t EXCEPT !.held = 0] /\ Counted(t, u, 0, t.got, t.left)
    <3>1. Counted(t, [t EXCEPT !.held = 0], 0, t.got, t.left)  BY CountedFields, LimitFacts
    <3>2. QED  BY <3>1 DEF Counted
  <2>2. Callback(r, u, FALSE, FALSE, "rest")  BY <1>7, <1>12, <2>1 DEF Partial
  <2>3. u.conn = session[r].conn /\ u.from = session[r].from /\ u.head = s.head
        /\ u.conn = s.conn
    BY <1>0, <1>10, <2>1 DEF Counted
  <2>4. /\ Outcome /\ CallsBack(r) /\ Staged(u, v, "callback")
        /\ calling' = [req |-> r, ec |-> FALSE, end |-> FALSE, next |-> "rest"]
    BY <1>1, <1>7, <1>8, <1>9, <2>2, <2>3, CallsBackOutcome
  <2>5. ~calling'.ec /\ ~calling'.end /\ calling'.next = "rest"  BY <2>4
  <2>6. /\ v \in Session /\ v.head = s.head /\ v.framing = s.framing
        /\ v.buf = s.buf /\ v.got = s.got + n
    BY <1>6, <2>1, <2>4 DEF Staged, Counted
  <2> HIDE DEF v
  <2>7. QED  BY <2>4, <2>5, <2>6
<1>13. Done  BY <1>11, <1>12
<1> HIDE DEF v
<1>14. s.buf = <<>> => Takes(r, n, n)
  <2> HAVE s.buf = <<>>
  <2>1. Len(s.buf) = 0 /\ Len(v.buf) = 0  BY <1>13, EmptySeq
  <2>2. s.stage \in {"read", "events"} \cup Receiving  BY <1>1 DEF Receiving
  <2>3. Len(v.buf) + n = Len(s.buf) + n  BY <2>1
  <2>4. \A i \in 1..Len(v.buf) : v.buf[i] = Pending(s.buf, Inbox(r), i + n)  BY <2>1
  <2>5. Take(r, n) /\ v = session'[r] /\ n <= Len(Inbox(r))  BY <1>5, <1>7 DEF v
  <2>6. v \in Session /\ v.head = s.head /\ v.framing = s.framing /\ v.got = s.got + n
    BY <1>13
  <2>7. QED  BY <1>0, <2>2, <2>3, <2>4, <2>5, <2>6, TakesStep
<1>15. QED
  <2>1. session[r].buf = <<>> => \E m \in Nat : v.buf = <<>> /\ Takes(r, m, m)
    BY <1>0, <1>13, <1>14, Zenon
  <2>2. QED  BY <1>13, <2>1, Zenon DEF v

\* The size of a chunk.
LEMMA ReadSizeStep ==
    ASSUME PoolIInv, NEW r \in Requests, ReadSize(r)
    PROVE  /\ Outcome /\ Takes(r, 1, 0)
           /\ \E line \in SizeLine(Pending(session[r].buf, Inbox(r), 1)) :
                  \/ line = "zero" /\ CallsBack(r) /\ ~calling'.ec /\ calling'.next = "done"
                  \/ /\ line \in {"size", "big"}
                     /\ CallsBack(r) /\ ~calling'.ec /\ calling'.next = "data"
                  \/ line \in {"size", "big"} /\ Goes(r) /\ session'[r].stage = "data"
                  \/ line = "other" /\ CallsBack(r) /\ calling'.ec
<1>0. PICK s \in Session : s = session[r]  BY DEF PoolIInv, Types
<1>1. Free /\ s.stage = "size"  BY <1>0 DEF ReadSize
<1>2. session[r].stage \notin {"idle", "done"}  BY <1>0, <1>1
<1>3. PICK k \in (IF s.buf = <<>> THEN 1 ELSE 0)..Len(Inbox(r)) :
        /\ s.buf # <<>> => k = 0
        /\ Take(r, k) /\ UNCHANGED pool
        /\ LET parts == First(r, k)
               t == [s EXCEPT !.buf = Tail(parts)]
           IN  \E line \in SizeLine(parts[1]) :
                  CASE line = "zero" -> Callback(r, t, FALSE, TRUE, "done")
                    [] line \in {"size", "big"} ->
                          IF Overflows(t, line) THEN Partial(r, t, "data")
                          ELSE Start(r, t, "data", conn) /\ UNCHANGED <<calling, running, calls>>
                    [] line = "other" -> Callback(r, t, TRUE, TRUE, "done")
  BY <1>0 DEF ReadSize
<1>4. Inbox(r) \in Seq(Part) /\ Len(Inbox(r)) \in Nat
  <2>1. 0 \in Nat /\ session[r].conn \in Conns  BY <1>2, OwnFacts
  <2>2. Inbox(r) \in Seq(Part)  BY <2>1 DEF PoolIInv, Types, Device, Inbox
  <2>3. QED  BY <2>2, LenProperties
<1>5. k \in Nat /\ k <= Len(Inbox(r))  BY <1>3, <1>4
<1>6. PICK p \in Seq(Part) :
        /\ p = First(r, k) /\ Len(p) = Len(s.buf) + k
        /\ \A i \in 1..Len(s.buf) + k : p[i] = Pending(s.buf, Inbox(r), i)
  <2>1. PICK p : p = First(r, k)  OBVIOUS
  <2>2. /\ p \in Seq(Part) /\ Len(p) = Len(s.buf) + k
        /\ \A i \in 1..Len(s.buf) + k :
              p[i] = IF i <= Len(s.buf) THEN s.buf[i] ELSE Inbox(r)[i - Len(s.buf)]
    BY <1>0, <1>2, <1>5, <2>1, FirstType, Zenon
  <2>3. QED  BY <2>1, <2>2, Zenon DEF Pending
<1>7. p # <<>>
  <2>1. s.buf \in Seq(Part)  BY DEF Session
  <2>2. s.buf # <<>> => Len(s.buf) > 0  BY <2>1, EmptySeq
  <2>3. Len(p) > 0
    <3>1. CASE s.buf = <<>>
      <4>1. k >= 1  BY <1>3, <1>4, <3>1
      <4>2. Len(s.buf) \in Nat  BY <2>1, LenProperties
      <4>3. QED  BY <1>5, <1>6, <4>1, <4>2
    <3>2. CASE s.buf # <<>>  BY <1>5, <1>6, <2>1, <2>2, <3>2, LenProperties
    <3>3. QED  BY <3>1, <3>2
  <2>4. Len(<<>>) = 0  BY EmptySeq
  <2>5. QED  BY <2>3, <2>4
<1>8. PICK rest \in Seq(Part) :
        /\ rest = Tail(p) /\ Len(rest) + 1 = Len(p)
        /\ \A i \in 1..Len(rest) : rest[i] = p[i + 1]
  <2>1. PICK rest : rest = Tail(p)  OBVIOUS
  <2>2. /\ rest \in Seq(Part) /\ Len(rest) = Len(p) - 1
        /\ \A i \in 1..Len(rest) : rest[i] = p[i + 1]
    BY <1>7, <2>1, HeadTailProperties, Zenon
  <2>3. Len(rest) + 1 = Len(p)
    <3> HIDE <2>1
    <3>1. Len(p) \in Nat  BY LenProperties
    <3>2. QED  BY <2>2, <3>1
  <2>4. QED  BY <2>1, <2>2, <2>3, Zenon
<1>9. PICK t \in Session : t = [s EXCEPT !.buf = rest] /\ Buffered(s, t, rest)
  <2>1. Buffered(s, [s EXCEPT !.buf = rest], rest)  BY CountedFields
  <2>2. QED  BY <2>1 DEF Buffered
<1>10. PICK line \in SizeLine(p[1]) :
         \/ line = "zero" /\ Callback(r, t, FALSE, TRUE, "done")
         \/ line \in {"size", "big"} /\ Overflows(t, line) /\ Partial(r, t, "data")
         \/ /\ line \in {"size", "big"} /\ ~Overflows(t, line)
            /\ Start(r, t, "data", conn) /\ UNCHANGED <<calling, running, calls>>
         \/ line = "other" /\ Callback(r, t, TRUE, TRUE, "done")
  <2>1. PICK line \in SizeLine(p[1]) :
          CASE line = "zero" -> Callback(r, t, FALSE, TRUE, "done")
            [] line \in {"size", "big"} ->
                  IF Overflows(t, line) THEN Partial(r, t, "data")
                  ELSE Start(r, t, "data", conn) /\ UNCHANGED <<calling, running, calls>>
            [] line = "other" -> Callback(r, t, TRUE, TRUE, "done")
    BY <1>3, <1>6, <1>8, <1>9
  <2>2. line \in {"zero", "size", "big", "other"}  BY DEF SizeLine
  <2>3. CASE line = "zero"  BY <2>1, <2>3
  <2>4. CASE line \in {"size", "big"}  BY <2>1, <2>4
  <2>5. CASE line = "other"  BY <2>1, <2>5
  <2>6. QED  BY <2>2, <2>3, <2>4, <2>5
<1>11. /\ r \in Active /\ s.conn \in Conns /\ conn[s.conn].open
       /\ s.head \in Requests
       /\ net' \in [Conns -> Device] /\ \A d \in Conns : d # s.conn => net'[d] = net[d]
       /\ NetInv(s.conn)'
  <2>1. s.stage \in {"read", "events"} \cup Receiving  BY <1>1 DEF Receiving
  <2>2. Take(r, k)  BY <1>3
  <2>3. QED  BY <1>0, <1>1, <1>5, <2>1, <2>2, ReadingStep
<1>12. session[r].stage \in Receiving /\ session[r].stage \in Beginning \cup Receiving \cup {"events"}
  BY <1>0, <1>1 DEF Receiving
<1>13. /\ t.conn = session[r].conn /\ t.from = session[r].from /\ t.head = s.head
       /\ t.conn = s.conn /\ t.held = s.held
  BY <1>0, <1>9 DEF Buffered
<1>14. t.head # None  BY <1>11, <1>13, ClientAssumption DEF ClientAssumption
<1>15. pool' = pool  BY <1>3
<1> DEFINE v == session'[r]
           Left == /\ v \in Session /\ v.head = s.head /\ v.framing = s.framing
                   /\ v.buf = rest /\ v.got = s.got
<1>16. ASSUME Callback(r, t, FALSE, TRUE, "done")
       PROVE  Outcome /\ Left /\ CallsBack(r) /\ ~calling'.ec /\ calling'.next = "done"
  <2>1. /\ Outcome /\ CallsBack(r) /\ Staged(t, v, "callback")
        /\ calling' = [req |-> r, ec |-> FALSE, end |-> TRUE, next |-> "done"]
    BY <1>1, <1>11, <1>12, <1>13, <1>15, <1>16, CallsBackOutcome
  <2>2. Left  BY <1>9, <2>1 DEF Staged, Buffered
  <2>3. QED  BY <2>1, <2>2
<1>17. ASSUME Callback(r, t, TRUE, TRUE, "done")
       PROVE  Outcome /\ Left /\ CallsBack(r) /\ calling'.ec
  <2>1. /\ Outcome /\ CallsBack(r) /\ Staged(t, v, "callback")
        /\ calling' = [req |-> r, ec |-> TRUE, end |-> TRUE, next |-> "done"]
    BY <1>1, <1>11, <1>12, <1>13, <1>14, <1>15, <1>17, CallsBackOutcome
  <2>2. Left  BY <1>9, <2>1 DEF Staged, Buffered
  <2>3. QED  BY <2>1, <2>2
<1>18. ASSUME Partial(r, t, "data")
       PROVE  Outcome /\ Left /\ CallsBack(r) /\ ~calling'.ec /\ calling'.next = "data"
  <2>1. PICK u \in Session : u = [t EXCEPT !.held = 0] /\ Counted(t, u, 0, t.got, t.left)
    <3>1. Counted(t, [t EXCEPT !.held = 0], 0, t.got, t.left)  BY CountedFields, LimitFacts
    <3>2. QED  BY <3>1 DEF Counted
  <2>2. Callback(r, u, FALSE, FALSE, "data")  BY <1>18, <2>1 DEF Partial
  <2>3. u.conn = session[r].conn /\ u.from = session[r].from /\ u.head = s.head
        /\ u.conn = s.conn /\ u.held = 0
    BY <1>13, <2>1 DEF Counted
  <2>4. 0 < Limit  BY LimitFacts
  <2>5. /\ Outcome /\ CallsBack(r) /\ Staged(u, v, "callback")
        /\ calling' = [req |-> r, ec |-> FALSE, end |-> FALSE, next |-> "data"]
    BY <1>1, <1>11, <1>12, <1>15, <2>2, <2>3, <2>4, CallsBackOutcome
  <2>6. Left  BY <1>9, <2>1, <2>5 DEF Staged, Buffered, Counted
  <2>7. QED  BY <2>5, <2>6
<1>19. ASSUME /\ ~Overflows(t, line) /\ Start(r, t, "data", conn)
              /\ UNCHANGED <<calling, running, calls>>
       PROVE  Outcome /\ Left /\ Goes(r) /\ v.stage = "data"
  <2>1. t.held < Limit  BY <1>19, LimitFacts DEF Overflows, Session
  <2>2. "data" \in Stages /\ "data" \in Receiving /\ "data" \notin Beginning
    BY ConnectingFacts DEF Stages, Receiving, Beginning
  <2>3. conn \in [Conns -> Connection]  BY DEF PoolIInv, Types
  <2>4. Outcome /\ Goes(r) /\ Staged(t, v, "data")
    BY <1>1, <1>11, <1>12, <1>13, <1>15, <1>19, <2>1, <2>2, <2>3, GoesOutcome
  <2>5. Left /\ v.stage = "data"  BY <1>9, <2>4 DEF Staged, Buffered
  <2>6. QED  BY <2>4, <2>5
<1> HIDE DEF v
<1>20. Outcome /\ Left  BY <1>10, <1>16, <1>17, <1>18, <1>19
<1>21. Takes(r, 1, 0)
  <2>1. s.stage \in {"read", "events"} \cup Receiving  BY <1>1 DEF Receiving
  <2>2. Take(r, k) /\ v = session'[r] /\ v \in Session /\ v.head = s.head
        /\ v.framing = s.framing
    BY <1>3, <1>20 DEF v
  <2>3. v.got = s.got + 0  BY <1>20 DEF Session
  <2>4. Len(v.buf) + 1 = Len(s.buf) + k  BY <1>6, <1>8, <1>20, Zenon
  <2>5. \A i \in 1..Len(v.buf) : v.buf[i] = Pending(s.buf, Inbox(r), i + 1)
    <3>1. PICK n \in Nat, m \in Nat : n = Len(rest) /\ m = Len(s.buf) + k
      <4>1. Len(rest) \in Nat  BY LenProperties
      <4>2. Len(p) \in Nat  BY LenProperties
      <4>3. QED  BY <1>6, <4>1, <4>2, Zenon
    <3>2. n + 1 = m  BY <1>6, <1>8, <3>1, Zenon
    <3>3. ASSUME NEW i \in 1..n PROVE v.buf[i] = Pending(s.buf, Inbox(r), i + 1)
      <4>1. i + 1 \in 1..m
        <5> HIDE <1>6, <1>8, <3>1
        <5> QED  BY <3>2
      <4>2. p[i + 1] = Pending(s.buf, Inbox(r), i + 1)  BY <1>6, <3>1, <4>1, Zenon
      <4>3. QED  BY <1>8, <1>20, <3>1, <4>2, Zenon
    <3>4. QED  BY <1>20, <3>1, <3>3, Zenon
  <2>6. QED  BY <1>0, <1>5, <2>1, <2>2, <2>3, <2>4, <2>5, TakesStep
<1>22. p[1] = Pending(session[r].buf, Inbox(r), 1)
  <2>1. Len(p) \in Nat /\ Len(p) # 0  BY <1>7, EmptySeq
  <2>2. 1 \in 1..Len(p)  BY <2>1
  <2>3. QED  BY <1>0, <1>6, <2>2, Zenon
<1>23. QED  BY <1>10, <1>16, <1>17, <1>18, <1>19, <1>20, <1>21, <1>22, Zenon DEF v

\* A chunk is read, from the buffer or from the socket.
LEMMA ReadDataStep ==
    ASSUME PoolIInv, NEW r \in Requests, ReadData(r)
    PROVE  Outcome /\ Goes(r) /\ session'[r].stage = "size" /\ Takes(r, 1, 1)
<1>0. PICK s \in Session : s = session[r]  BY DEF PoolIInv, Types
<1>1. Free /\ s.stage = "data"  BY <1>0 DEF ReadData
<1>2. s.held \in 0..Limit /\ s.left \in Nat /\ s.got \in Nat  BY DEF Session
<1>3. s.held < Limit  BY <1>0, <1>1 DEF PoolIInv, SessionInv
<1>4. s.held + 1 \in 0..Limit /\ Limit \in 0..Limit /\ s.got + 1 \in Nat
  BY <1>2, <1>3, LimitFacts
<1>5. PICK t \in Session :
        /\ \E h \in 0..Limit : Counted(s, t, h, s.got + 1, s.left)
        /\ \/ t.buf # <<>> /\ UNCHANGED net /\ Continue(r, [t EXCEPT !.buf = Tail(@)], "size")
           \/ t.buf = <<>> /\ Inbox(r) # <<>> /\ Take(r, 1) /\ Continue(r, t, "size")
  <2>1. ASSUME NEW part
        PROVE  /\ WithData(s, part) \in Session
               /\ \E h \in 0..Limit : Counted(s, WithData(s, part), h, s.got + 1, s.left)
    <3>1. PICK h \in 0..Limit : h = IF part.kind = "fill" THEN Limit ELSE s.held + 1  BY <1>4
    <3>2. WithData(s, part) = [s EXCEPT !.held = h, !.got = s.got + 1]  BY <3>1 DEF WithData
    <3>3. Counted(s, [s EXCEPT !.held = h, !.got = s.got + 1], h, s.got + 1, s.left)
      BY <1>4, CountedFields
    <3>4. Counted(s, WithData(s, part), h, s.got + 1, s.left)  BY <3>2, <3>3
    <3>5. QED  BY <3>4 DEF Counted
  <2>2. \/ /\ s.buf # <<>> /\ UNCHANGED net
           /\ Continue(r, [WithData(s, Head(s.buf)) EXCEPT !.buf = Tail(@)], "size")
        \/ /\ s.buf = <<>> /\ Inbox(r) # <<>> /\ Take(r, 1)
           /\ Continue(r, WithData(s, Head(Inbox(r))), "size")
    BY <1>0 DEF ReadData
  <2>3. PICK part : /\ s.buf # <<>> => part = Head(s.buf)
                    /\ s.buf = <<>> => part = Head(Inbox(r))
    OBVIOUS
  <2>4. PICK t \in Session :
          t = WithData(s, part) /\ \E h \in 0..Limit : Counted(s, t, h, s.got + 1, s.left)
    BY <2>1
  <2>5. t.buf = s.buf  BY <2>4 DEF Counted
  <2>6. \/ t.buf # <<>> /\ UNCHANGED net /\ Continue(r, [t EXCEPT !.buf = Tail(@)], "size")
        \/ t.buf = <<>> /\ Inbox(r) # <<>> /\ Take(r, 1) /\ Continue(r, t, "size")
    <3>1. CASE s.buf # <<>>  BY <2>2, <2>3, <2>4, <2>5, <3>1
    <3>2. CASE s.buf = <<>>  BY <2>2, <2>3, <2>4, <2>5, <3>2
    <3>3. QED  BY <3>1, <3>2
  <2>7. QED  BY <2>4, <2>6
<1>6. \/ t.buf # <<>> /\ UNCHANGED net /\ Continue(r, [t EXCEPT !.buf = Tail(@)], "size")
      \/ t.buf = <<>> /\ Inbox(r) # <<>> /\ Take(r, 1) /\ Continue(r, t, "size")
  BY <1>5
<1>7. /\ r \in Active /\ s.conn \in Conns /\ s.head \in Requests
  <2>1. s.stage \notin {"idle", "done"} /\ s.stage \in Receiving  BY <1>1 DEF Receiving
  <2>2. QED  BY <1>0, <2>1, OwnFacts DEF PoolIInv, SessionInv
<1>8. t.conn = s.conn /\ t.from = s.from /\ t.head = s.head  BY <1>5 DEF Counted
<1>9. /\ "size" \in Stages /\ "size" \in Receiving /\ "size" \notin Beginning
      /\ session[r].stage \in Receiving
  BY <1>0, <1>1, ConnectingFacts DEF Stages, Receiving, Beginning
<1>10. conn \in [Conns -> Connection] /\ net \in [Conns -> Device]  BY DEF PoolIInv, Types
<1>11. CASE t.buf # <<>> /\ UNCHANGED net /\ Continue(r, [t EXCEPT !.buf = Tail(@)], "size")
  <2>1. t.buf \in Seq(Part)  BY DEF Session
  <2>2. PICK rest \in Seq(Part) : rest = Tail(t.buf)  BY <1>11, <2>1, HeadTailProperties
  <2>3. PICK u \in Session : u = [t EXCEPT !.buf = rest] /\ Buffered(t, u, rest)
    <3>1. Buffered(t, [t EXCEPT !.buf = rest], rest)  BY CountedFields
    <3>2. QED  BY <3>1 DEF Buffered
  <2>4. Start(r, u, "size", conn) /\ UNCHANGED <<pool, calling, running, calls>> /\ net' = net
    BY <1>11, <2>2, <2>3 DEF Continue
  <2>5. u.conn = session[r].conn /\ u.from = session[r].from /\ u.head \in Requests
    BY <1>0, <1>7, <1>8, <2>3 DEF Buffered
  <2>6. NetInv(u.conn)'  BY <1>0, <1>7, <2>4, <2>5 DEF PoolIInv, NetInv
  <2>7. net' \in [Conns -> Device] /\ \A d \in Conns : d # u.conn => net'[d] = net[d]
    BY <1>10, <2>4
  <2>8. Outcome /\ Goes(r) /\ Staged(u, session'[r], "size")
    BY <1>1, <1>7, <1>9, <1>10, <2>4, <2>5, <2>6, <2>7, GoesOutcome
  <2>9. PICK v \in Session : v = session'[r] /\ Staged(u, v, "size")  BY <2>8 DEF Staged
  <2>10. /\ v.stage = "size" /\ v.head = s.head /\ v.framing = s.framing /\ v.got = s.got + 1
         /\ v.buf = rest /\ t.buf = s.buf
    BY <1>5, <2>3, <2>9 DEF Staged, Buffered, Counted
  <2>11. PICK b \in Seq(Part) : b = s.buf /\ b # <<>> /\ rest = Tail(b)
    BY <1>11, <2>1, <2>2, <2>10
  <2>12. Len(rest) = Len(b) - 1 /\ Len(b) \in Nat /\ \A i \in 1..Len(rest) : rest[i] = b[i + 1]
    BY <2>11, HeadTailProperties, LenProperties
  <2>13. PICK n \in Nat, m \in Nat : n = Len(rest) /\ m = Len(b) /\ n = m - 1
    BY <2>12, LenProperties
  <2>14. n + 1 = m  BY <2>13
  <2>15. \A i \in 1..Len(rest) : rest[i] = Pending(b, net[s.conn].inbox, i + 1)
    <3>1. \A i \in 1..n : i + 1 <= m
      <4> HIDE <2>13
      <4> QED  BY <2>14
    <3>2. QED  BY <2>12, <2>13, <3>1, Zenon DEF Pending
  <2>16. PICK q \in Seq(Part) : q = net[s.conn].inbox  BY <1>7, <1>10 DEF Device
  <2>17. PICK l \in Nat : l = Len(q)  BY LenProperties
  <2>18. n + l + 1 = m + l
    <3> HIDE <2>13, <2>17
    <3> QED  BY <2>14
  <2>19. \A i \in 1..Len(q) : q[i] = Pending(b, q, i + Len(rest) + 1)
    <3> TAKE i \in 1..Len(q)
    <3>1. i \in 1..l  BY <2>17
    <3>2. ~(i + n + 1 <= m) /\ (i + n + 1) - m = i
      <4> HIDE <2>13, <2>17
      <4> QED  BY <2>14, <3>1
    <3>3. QED  BY <2>13, <3>2, Zenon DEF Pending
  <2>20. net'[s.conn] = net[s.conn]  BY <1>11
  <2>21. Moves(r, 1)
    <3>1. Len(rest) + Len(q) + 1 = Len(b) + Len(q)  BY <2>13, <2>17, <2>18, Zenon
    <3>2. session[r] = s /\ session'[r] = v /\ v.buf = rest /\ s.buf = b
      BY <1>0, <2>9, <2>10, <2>11, Zenon
    <3>3. QED  BY <2>15, <2>16, <2>19, <2>20, <3>1, <3>2, Zenon DEF Moves
  <2>22. Takes(r, 1, 1)  BY <1>0, <2>9, <2>10, <2>21, Zenon DEF Takes
  <2>23. QED  BY <2>8, <2>9, <2>10, <2>22
<1>12. CASE t.buf = <<>> /\ Inbox(r) # <<>> /\ Take(r, 1) /\ Continue(r, t, "size")
  <2>1. 1 <= Len(Inbox(r)) /\ 1 \in Nat
    <3>1. Inbox(r) \in Seq(Part)  BY <1>0, <1>7, <1>10 DEF Inbox, Device
    <3>2. QED  BY <1>12, <3>1
  <2>2. s.stage \in {"read", "events"} \cup Receiving  BY <1>1 DEF Receiving
  <2>3. /\ net' \in [Conns -> Device] /\ \A d \in Conns : d # s.conn => net'[d] = net[d]
        /\ NetInv(s.conn)'
    BY <1>0, <1>12, <2>1, <2>2, ReadingStep
  <2>4. Start(r, t, "size", conn) /\ UNCHANGED <<pool, calling, running, calls>>
    BY <1>12 DEF Continue
  <2>5. t.conn = session[r].conn /\ t.from = session[r].from /\ t.head \in Requests
    BY <1>0, <1>7, <1>8
  <2>6. NetInv(t.conn)' /\ \A d \in Conns : d # t.conn => net'[d] = net[d]
    BY <1>8, <2>3
  <2>7. Outcome /\ Goes(r) /\ Staged(t, session'[r], "size")
    BY <1>1, <1>7, <1>9, <1>10, <2>3, <2>4, <2>5, <2>6, GoesOutcome
  <2>8. PICK v \in Session : v = session'[r] /\ Staged(t, v, "size")  BY <2>7 DEF Staged
  <2>9. /\ v.stage = "size" /\ v.head = s.head /\ v.framing = s.framing /\ v.got = s.got + 1
        /\ v.buf = <<>> /\ s.buf = <<>>
    BY <1>5, <1>12, <2>8 DEF Staged, Counted
  <2>10. Takes(r, 1, 1)
    <3>1. Len(v.buf) = 0 /\ Len(s.buf) = 0  BY <2>9, EmptySeq
    <3>2. Len(v.buf) + 1 = Len(s.buf) + 1  BY <3>1
    <3>3. \A i \in 1..Len(v.buf) : v.buf[i] = Pending(s.buf, Inbox(r), i + 1)  BY <3>1
    <3>4. Take(r, 1) /\ 1 \in Nat  BY <1>12
    <3>5. QED  BY <1>0, <2>1, <2>2, <2>8, <2>9, <3>2, <3>3, <3>4, TakesStep, Zenon
  <2>11. QED  BY <2>7, <2>8, <2>9, <2>10
<1>13. QED  BY <1>6, <1>11, <1>12

\* An event is read.
LEMMA ReadEventStep ==
    ASSUME PoolIInv, NEW r \in Requests, ReadEvent(r)
    PROVE  Outcome /\ CallsBack(r)
<1>0. PICK s \in Session : s = session[r]  BY DEF PoolIInv, Types
<1>1. Free /\ s.stage = "events" /\ pool' = pool  BY <1>0 DEF ReadEvent
<1>2. session[r].stage \notin {"idle", "done"}  BY <1>0, <1>1
<1>3. PICK k \in 0..Len(Inbox(r)) :
        /\ Take(r, k)
        /\ \E i \in 1..Len(First(r, k)) :
              Callback(r, [s EXCEPT !.buf = SubSeq(First(r, k), i + 1, Len(First(r, k)))],
                       FALSE, FALSE, "events")
  BY <1>0 DEF ReadEvent
<1>4. Len(Inbox(r)) \in Nat
  <2>1. session[r].conn \in Conns  BY <1>2, OwnFacts
  <2>2. Inbox(r) \in Seq(Part)  BY <2>1 DEF PoolIInv, Types, Device, Inbox
  <2>3. QED  BY <2>2, LenProperties
<1>5. k \in Nat /\ k <= Len(Inbox(r))  BY <1>3, <1>4
<1>6. PICK p \in Seq(Part) : p = First(r, k)  BY <1>2, <1>5, FirstType
<1>7. PICK i \in 1..Len(p) :
        Callback(r, [s EXCEPT !.buf = SubSeq(p, i + 1, Len(p))], FALSE, FALSE, "events")
  BY <1>3, <1>6, Zenon
<1>8. PICK rest \in Seq(Part) : rest = SubSeq(p, i + 1, Len(p))
  <2>1. i \in Nat /\ i <= Len(p)  BY LenProperties
  <2>2. QED  BY <2>1, RestType, Zenon
<1>9. PICK t \in Session : t = [s EXCEPT !.buf = rest] /\ Buffered(s, t, rest)
  <2>1. Buffered(s, [s EXCEPT !.buf = rest], rest)  BY CountedFields
  <2>2. QED  BY <2>1 DEF Buffered
<1>10. Callback(r, t, FALSE, FALSE, "events")  BY <1>7, <1>8, <1>9, Zenon
<1>11. /\ r \in Active /\ s.conn \in Conns /\ conn[s.conn].open
       /\ s.head \in Requests
       /\ net' \in [Conns -> Device] /\ \A d \in Conns : d # s.conn => net'[d] = net[d]
       /\ NetInv(s.conn)'
  <2>1. s.stage \in {"read", "events"} \cup Receiving  BY <1>1
  <2>2. Take(r, k)  BY <1>3
  <2>3. QED  BY <1>0, <1>1, <1>5, <2>1, <2>2, ReadingStep
<1>12. session[r].stage \in Beginning \cup Receiving \cup {"events"} /\ session[r].stage = "events"
  BY <1>0, <1>1
<1>13. /\ t.conn = session[r].conn /\ t.from = session[r].from /\ t.head = s.head
       /\ t.conn = s.conn
  BY <1>0, <1>9 DEF Buffered
<1>14. QED  BY <1>1, <1>10, <1>11, <1>12, <1>13, CallsBackOutcome

\* Counts are natural numbers.
LEMMA ContentsType ==
    \A f \in Framings : Contents(KindsOf(f)) \in Nat
<1> TAKE f \in Framings
<1>1. PICK n \in Nat : n = Len(KindsOf(f))
  <2>1. KindsOf(f) \in Seq(Kinds)
    BY KindsType
  <2>2. QED  BY <2>1, LenProperties
<1>2. IsFiniteSet(1..n)  BY FS_Interval
<1>3. {i \in 1..n : KindsOf(f)[i] \in {"body", "data"}} \subseteq 1..n  OBVIOUS
<1>4. QED  BY <1>1, <1>2, <1>3, FS_Subset, FS_CardinalityType DEF Contents

\* t is s with the head of its response, framing and rest of what was read.
Headed(s, t, head, framing, buf, got, left) ==
    /\ t \in Session /\ t.head = head /\ t.framing = framing /\ t.buf = buf
    /\ t.held = got /\ t.got = got /\ t.left = left
    /\ t.stage = s.stage /\ t.conn = s.conn /\ t.from = s.from

\* What the head of a response leads to, when n parts that follow it were read
\* with it.
HeadCases(r, t, framing, n, cs) ==
    \/ framing = "malformed" /\ UNCHANGED pool /\ Callback(r, t, TRUE, TRUE, "done")
    \/ framing = "none" /\ UNCHANGED pool /\ Callback(r, t, FALSE, TRUE, "done")
    \/ /\ framing \in {"length", "long"} /\ t.left = 0 /\ t.got = Contents(KindsOf(framing))
       /\ n >= Contents(KindsOf(framing))
       /\ UNCHANGED pool /\ Callback(r, t, FALSE, TRUE, "done")
    \/ /\ framing \in {"length", "long"} /\ t.got + t.left = Contents(KindsOf(framing))
       /\ t.got = n
       /\ UNCHANGED <<pool, calling, running, calls>> /\ Start(r, t, "content", cs)
    \/ /\ framing = "eof"
       /\ t.got = IF n < Contents(KindsOf(framing)) THEN n ELSE Contents(KindsOf(framing))
       /\ UNCHANGED <<pool, calling, running, calls>> /\ Start(r, t, "rest", cs)
    \/ /\ framing \in {"chunked", "overlong"}
       /\ UNCHANGED <<pool, calling, running, calls>> /\ Start(r, t, "size", cs)
    \/ framing = "events" /\ UNCHANGED pool /\ Callback(r, t, FALSE, TRUE, "events")
    \/ /\ framing = "bad_length" /\ UNCHANGED <<pool, calling, calls, sends>> /\ running' = FALSE
       /\ session' = [session EXCEPT ![r] = [NewSession EXCEPT !.stage = "done"]]
       /\ conn' = Forget(cs, NewConn)

\* k parts are taken, the head and rest; t is what becomes of the session, and
\* cs of the connections, if the request goes on.
HeadRead(r, k, rest, framing, t, cs, got, left) ==
    LET head == Inbox(r)[1].req
        c == session[r].conn
    IN  /\ HasBlankLine(First(r, k)) /\ Take(r, k)
        /\ framing \in ParsedAs(Inbox(r)[1])
        /\ Len(rest) = k - 1 /\ \A i \in 1..k - 1 : rest[i] = Inbox(r)[i + 1]
        /\ head \in Requests
        /\ Headed(session[r], t, head, framing,
                  IF framing \in {"chunked", "overlong", "events"} THEN rest ELSE <<>>, got, left)
        /\ framing \in {"chunked", "overlong", "events", "none"} => got = 0
        /\ \A d \in Conns : d # c => cs[d] = conn[d]
        /\ cs[c].again /\ cs[c].open = conn[c].open /\ cs[c].inUse = conn[c].inUse
        /\ cs[c].shut = conn[c].shut /\ cs[c].stream = conn[c].stream
        /\ HeadCases(r, t, framing, k - 1, cs)

\* The head of a response is read: which parts, and what follows.
LEMMA ReadHeadCases ==
    ASSUME PoolIInv, NEW r \in Requests, ReadHead(r)
    PROVE  \E k \in 1..Len(Inbox(r)), rest \in Seq(Part), framing \in Framings,
              t \in Session, cs \in [Conns -> Connection], got \in Nat, left \in Nat :
              HeadRead(r, k, rest, framing, t, cs, got, left)
<1>0. PICK s \in Session : s = session[r]  BY DEF PoolIInv, Types
<1>1. s.stage = "read"  BY <1>0 DEF ReadHead
<1>2. session[r].stage \notin {"idle", "done"}  BY <1>0, <1>1
<1>3. s.buf = <<>> /\ s.held = 0 /\ s.got = 0
  BY <1>0, <1>1 DEF PoolIInv, SessionInv, Beginning
<1>4. PICK in \in Seq(Part) : in = Inbox(r)
  <2>1. session[r].conn \in Conns  BY <1>2, OwnFacts
  <2>2. QED  BY <2>1 DEF PoolIInv, Types, Device, Inbox
<1>5. PICK k \in 1..Len(in), framing \in ParsedAs(in[1]) :
        /\ k <= Limit + 1 /\ HasBlankLine(First(r, k)) /\ Take(r, k)
        /\ AfterHead(r, in[1].req, framing, SubSeq(First(r, k), 2, k))
  BY <1>4 DEF ReadHead
<1>6. k \in Nat /\ k >= 1 /\ k <= Len(in) /\ k - 1 \in 0..Limit
  BY <1>5, LimitFacts, LenProperties
<1>7. PICK p \in Seq(Part) : p = First(r, k) /\ Len(p) = k /\ \A i \in 1..k : p[i] = in[i]
  <2>1. PICK p : p = First(r, k)  OBVIOUS
  <2>2. Len(s.buf) = 0  BY <1>3, EmptySeq
  <2>3. /\ p \in Seq(Part) /\ Len(p) = 0 + k
        /\ \A i \in 1..0 + k : p[i] = IF i <= 0 THEN s.buf[i] ELSE in[i - 0]
    BY <1>0, <1>2, <1>4, <1>6, <2>1, <2>2, FirstType, Zenon
  <2>4. Len(p) = k /\ \A i \in 1..k : p[i] = in[i]  
    <3> HIDE <2>1
    <3> QED  BY <1>6, <2>3
  <2>5. QED  BY <2>1, <2>3, <2>4, Zenon
<1>8. PICK rest \in Seq(Part) : /\ rest = SubSeq(First(r, k), 2, k) /\ Len(rest) = k - 1
                                /\ \A i \in 1..k - 1 : rest[i] = in[i + 1]
  <2>1. PICK q \in Seq(Part) : /\ q = SubSeq(p, 1 + 1, Len(p)) /\ Len(q) = Len(p) - 1
                               /\ \A i \in 1..Len(p) - 1 : q[i] = p[1 + i]
    <3>1. 1 \in Nat /\ Len(p) = k  BY <1>7, Zenon
    <3>2. 1 <= Len(p)  BY <1>6, <3>1, Zenon
    <3>3. QED  BY <3>1, <3>2, RestType, Zenon
  <2>2. Len(p) = k  BY <1>7, Zenon
  <2>3. q = SubSeq(First(r, k), 2, k)
    <3>1. 1 + 1 = 2  OBVIOUS
    <3>2. QED  BY <1>7, <2>1, <2>2, <3>1, Zenon
  <2>4. Len(q) = k - 1 /\ \A i \in 1..k - 1 : q[i] = p[1 + i]  BY <2>1, <2>2, Zenon
  <2>5. \A i \in 1..k - 1 : p[1 + i] = in[i + 1]
    <3> TAKE i \in 1..k - 1
    <3>1. 1 + i \in 1..k /\ 1 + i = i + 1  BY <1>6
    <3>2. QED  BY <1>7, <3>1, Zenon
  <2>6. QED  BY <2>3, <2>4, <2>5, Zenon
<1>9. in[1] \in Part /\ in[1].req \in Requests
  <2>1. 1 \in 1..Len(in)  BY <1>6
  <2>2. in[1] \in Part  BY <2>1, ElementOfSeq
  <2>3. QED  BY <2>2 DEF Part
<1>10. framing \in Framings
  <2>1. in[1].framing \in Framings  BY <1>9 DEF Part
  <2>2. {"malformed", "eof"} \subseteq Framings  BY DEF Framings
  <2>3. QED  BY <1>5, <2>1, <2>2 DEF ParsedAs
<1>11. PICK total \in Nat : total = Contents(KindsOf(framing))  BY <1>10, ContentsType
<1>12. PICK bodies \in 0..Limit : /\ bodies = IF k - 1 < total THEN k - 1 ELSE total
                                  /\ bodies \in Nat /\ total - bodies \in Nat
                                  /\ bodies + (total - bodies) = total
                                  /\ total - bodies # 0 => bodies = k - 1
                                  /\ total - bodies = 0 => bodies = total /\ k - 1 >= total
  <2>1. PICK n \in 0..Limit : n = k - 1  BY <1>6
  <2>2. n \in Nat  BY LimitFacts
  <2>3. CASE n < total
    <3>1. total - n \in Nat /\ total - n # 0 /\ n + (total - n) = total  BY <2>2, <2>3
    <3>2. QED  BY <2>1, <2>2, <2>3, <3>1
  <2>4. CASE ~(n < total)
    <3>1. total \in 0..Limit /\ total - total = 0 /\ total + (total - total) = total
          /\ k - 1 >= total
      BY <2>1, <2>2, <2>4, LimitFacts
    <3>2. QED  BY <2>1, <2>2, <2>4, <3>1
  <2>5. QED  BY <2>3, <2>4
<1>13. PICK u \in Session : /\ u = [s EXCEPT !.head = in[1].req, !.framing = framing]
                            /\ Headed(s, u, in[1].req, framing, <<>>, 0, s.left)
  <2>1. [s EXCEPT !.head = in[1].req, !.framing = framing] \in Session
    BY <1>9, <1>10 DEF Session
  <2>2. Headed(s, [s EXCEPT !.head = in[1].req, !.framing = framing], in[1].req, framing,
               <<>>, 0, s.left)
    BY <1>3, <2>1 DEF Headed, Session
  <2>3. QED  BY <2>1, <2>2
<1>14. PICK content \in Session :
         /\ content = [u EXCEPT !.held = bodies, !.got = bodies, !.left = total - bodies]
         /\ Headed(s, content, in[1].req, framing, <<>>, bodies, total - bodies)
  <2>1. Counted(u, [u EXCEPT !.held = bodies, !.got = bodies, !.left = total - bodies],
                bodies, bodies, total - bodies)
    BY <1>12, CountedFields
  <2>2. PICK v : v = [u EXCEPT !.held = bodies, !.got = bodies, !.left = total - bodies]
    OBVIOUS
  <2>3. Counted(u, v, bodies, bodies, total - bodies)  BY <2>1, <2>2
  <2>4. Headed(s, v, in[1].req, framing, <<>>, bodies, total - bodies)
    BY <1>13, <2>3 DEF Counted, Headed
  <2>5. QED  BY <2>2, <2>4 DEF Headed
<1>15. PICK full \in Session :
         /\ full = [u EXCEPT !.buf = rest]
         /\ Headed(s, full, in[1].req, framing, rest, 0, s.left)
  <2>1. Buffered(u, [u EXCEPT !.buf = rest], rest)  BY CountedFields
  <2>2. PICK v : v = [u EXCEPT !.buf = rest]  OBVIOUS
  <2>3. Buffered(u, v, rest)  BY <2>1, <2>2
  <2>4. Headed(s, v, in[1].req, framing, rest, 0, s.left)
    BY <1>13, <2>3 DEF Buffered, Headed
  <2>5. QED  BY <2>2, <2>4 DEF Headed
<1>16. s.conn \in Conns /\ u.conn = s.conn  BY <1>0, <1>2, <1>13, OwnFacts DEF Headed
<1>17. PICK cs \in [Conns -> Connection] :
         /\ cs = [conn EXCEPT ![u.conn].again = TRUE]
         /\ \A d \in Conns : d # s.conn => cs[d] = conn[d]
         /\ cs[s.conn].again /\ cs[s.conn].open = conn[s.conn].open
         /\ cs[s.conn].inUse = conn[s.conn].inUse /\ cs[s.conn].shut = conn[s.conn].shut
         /\ cs[s.conn].stream = conn[s.conn].stream
  <2>1. conn \in [Conns -> Connection]  BY DEF PoolIInv, Types
  <2>2. PICK x \in Connection : x = conn[s.conn]  BY <1>16, <2>1
  <2>3. PICK y \in Connection : /\ y = [x EXCEPT !.again = TRUE] /\ y.again
                                /\ y.open = x.open /\ y.inUse = x.inUse /\ y.shut = x.shut
                                /\ y.stream = x.stream
    <3> DEFINE y == [x EXCEPT !.again = TRUE]
    <3>1. y \in Connection /\ y.again /\ y.open = x.open /\ y.inUse = x.inUse
          /\ y.shut = x.shut /\ y.stream = x.stream
      BY DEF Connection
    <3>2. QED  BY <3>1
  <2>4. [conn EXCEPT ![u.conn].again = TRUE] = [conn EXCEPT ![s.conn] = y]
    BY <1>16, <2>1, <2>2, <2>3
  <2>5. PICK cs : cs = [conn EXCEPT ![s.conn] = y]  OBVIOUS
  <2>6. cs \in [Conns -> Connection] /\ cs[s.conn] = y
        /\ \A d \in Conns : d # s.conn => cs[d] = conn[d]
    BY <1>16, <2>1, <2>5
  <2>7. cs = [conn EXCEPT ![u.conn].again = TRUE]  BY <2>4, <2>5, Zenon
  <2>8. /\ cs[s.conn].again /\ cs[s.conn].open = conn[s.conn].open
        /\ cs[s.conn].inUse = conn[s.conn].inUse /\ cs[s.conn].shut = conn[s.conn].shut
        /\ cs[s.conn].stream = conn[s.conn].stream
    BY <2>2, <2>3, <2>6, Zenon
  <2>9. QED  BY <2>6, <2>7, <2>8, Zenon
<1>23. AfterHead(r, in[1].req, framing, rest)  BY <1>5, <1>8, Zenon
<1> DEFINE Good(t, got, left) ==
       /\ Headed(s, t, in[1].req, framing,
                 IF framing \in {"chunked", "overlong", "events"} THEN rest ELSE <<>>, got, left)
       /\ framing \in {"chunked", "overlong", "events", "none"} => got = 0
       /\ HeadCases(r, t, framing, k - 1, cs)
<1>18. \E t \in Session, got \in Nat, left \in Nat : Good(t, got, left)
  <2>1. s.left \in Nat  BY DEF Session
  <2>2. CASE framing \in {"malformed", "none", "bad_length"}
    <3>1. HeadCases(r, u, framing, k - 1, cs)
      BY <1>0, <1>13, <1>17, <1>23, <2>2 DEF HeadCases, AfterHead
    <3>2. Good(u, 0, s.left)  BY <1>13, <2>2, <3>1
    <3>3. QED  BY <2>1, <3>2
  <2>3. CASE framing \in {"length", "long"} /\ content.left = 0
    <3>1. UNCHANGED pool /\ Callback(r, content, FALSE, TRUE, "done")
      BY <1>0, <1>8, <1>11, <1>12, <1>13, <1>14, <1>23, <2>3 DEF AfterHead
    <3>2. content.left = total - bodies /\ content.got = bodies  BY <1>14 DEF Headed
    <3>3. HeadCases(r, content, framing, k - 1, cs)
      BY <1>11, <1>12, <2>3, <3>1, <3>2 DEF HeadCases
    <3>4. Good(content, bodies, total - bodies)  BY <1>14, <2>3, <3>3
    <3>5. bodies \in Nat /\ total - bodies \in Nat  BY <1>12
    <3> HIDE DEF Good
    <3>6. QED  BY <3>4, <3>5, Zenon
  <2>4. CASE framing \in {"length", "long"} /\ content.left # 0
    <3>1. UNCHANGED <<pool, calling, running, calls>> /\ Start(r, content, "content", cs)
      BY <1>0, <1>8, <1>11, <1>12, <1>13, <1>14, <1>17, <1>23, <2>4, ZenonT(60)
      DEF AfterHead
    <3>2. content.left = total - bodies /\ content.got = bodies  BY <1>14 DEF Headed
    <3>3. HeadCases(r, content, framing, k - 1, cs)
      BY <1>11, <1>12, <2>4, <3>1, <3>2 DEF HeadCases
    <3>4. Good(content, bodies, total - bodies)  BY <1>14, <2>4, <3>3
    <3>5. bodies \in Nat /\ total - bodies \in Nat  BY <1>12
    <3> HIDE DEF Good
    <3>6. QED  BY <3>4, <3>5, Zenon
  <2>5. CASE framing = "eof"
    <3>1. UNCHANGED <<pool, calling, running, calls>> /\ Start(r, content, "rest", cs)
      BY <1>0, <1>8, <1>11, <1>12, <1>13, <1>14, <1>17, <1>23, <2>5, ZenonT(60)
      DEF AfterHead
    <3>2. content.got = bodies  BY <1>14 DEF Headed
    <3>3. HeadCases(r, content, framing, k - 1, cs)
      BY <1>11, <1>12, <2>5, <3>1, <3>2 DEF HeadCases
    <3>4. Good(content, bodies, total - bodies)  BY <1>14, <2>5, <3>3
    <3>5. bodies \in Nat /\ total - bodies \in Nat  BY <1>12
    <3> HIDE DEF Good
    <3>6. QED  BY <3>4, <3>5, Zenon
  <2>6. CASE framing \in {"chunked", "overlong", "events"}
    <3>1. HeadCases(r, full, framing, k - 1, cs)
      BY <1>0, <1>13, <1>15, <1>17, <1>23, <2>6 DEF HeadCases, AfterHead
    <3>2. Good(full, 0, s.left)  BY <1>15, <2>6, <3>1
    <3>3. QED  BY <2>1, <3>2
  <2>7. QED  BY <1>10, <2>2, <2>3, <2>4, <2>5, <2>6 DEF Framings
<1>19. PICK t \in Session, got \in Nat, left \in Nat : Good(t, got, left)  BY <1>18
<1>20. /\ k \in 1..Len(Inbox(r)) /\ HasBlankLine(First(r, k)) /\ Take(r, k)
       /\ framing \in ParsedAs(Inbox(r)[1])
       /\ \A i \in 1..k - 1 : rest[i] = Inbox(r)[i + 1]
       /\ Inbox(r)[1].req \in Requests
  BY <1>4, <1>5, <1>8, <1>9
<1>21. Headed(session[r], t, Inbox(r)[1].req, framing,
              IF framing \in {"chunked", "overlong", "events"} THEN rest ELSE <<>>, got, left)
  BY <1>0, <1>4, <1>19
<1>22. /\ Len(rest) = k - 1 /\ (framing \in {"chunked", "overlong", "events", "none"} => got = 0)
       /\ HeadCases(r, t, framing, k - 1, cs)
  BY <1>8, <1>19
<1>24. /\ \A d \in Conns : d # session[r].conn => cs[d] = conn[d]
       /\ cs[session[r].conn].again
       /\ cs[session[r].conn].open = conn[session[r].conn].open
       /\ cs[session[r].conn].inUse = conn[session[r].conn].inUse
       /\ cs[session[r].conn].shut = conn[session[r].conn].shut
       /\ cs[session[r].conn].stream = conn[session[r].conn].stream
  BY <1>0, <1>17
<1> HIDE DEF Good
<1>25. QED
  <2>1. k \in 1..Len(Inbox(r))  BY <1>20
  <2> WITNESS k \in 1..Len(Inbox(r)), rest \in Seq(Part), framing \in Framings,
              t \in Session, cs \in [Conns -> Connection], got \in Nat, left \in Nat
  <2>2. QED  BY <1>20, <1>21, <1>22, <1>24, Zenon DEF HeadRead

\* What follows the head of a response that comes with n parts behind it.
HeadTaken(r, n, framing) ==
    LET t     == session'[r]
        total == Contents(KindsOf(framing))
    IN  \/ framing = "malformed" /\ CallsBack(r) /\ calling'.ec
        \/ framing = "none" /\ CallsBack(r) /\ ~calling'.ec /\ calling'.next = "done" /\ t.got = 0
        \/ /\ framing \in {"length", "long"} /\ CallsBack(r) /\ ~calling'.ec
           /\ calling'.next = "done" /\ t.got = total /\ n >= total
        \/ /\ framing \in {"length", "long"} /\ Goes(r) /\ t.stage = "content"
           /\ t.got = n /\ t.got + t.left = total
        \/ /\ framing = "eof" /\ Goes(r) /\ t.stage = "rest"
           /\ t.got = IF n < total THEN n ELSE total
        \/ framing \in {"chunked", "overlong"} /\ Goes(r) /\ t.stage = "size" /\ t.got = 0
        \/ framing = "events" /\ CallsBack(r) /\ calling'.end /\ calling'.next = "events"

\* r reads k parts, the head of its response first.
HeadMoves(r, k, framing) ==
    /\ HasBlankLine(First(r, k)) /\ framing \in ParsedAs(Inbox(r)[1])
    /\ session'[r].head = Inbox(r)[1].req /\ session'[r].framing = framing
    /\ session'[r].buf = <<>> \/ framing \in {"chunked", "overlong", "events"}
    /\ Moves(r, IF framing \in {"chunked", "overlong", "events"} THEN 1 ELSE k)
    /\ HeadTaken(r, k - 1, framing)

\* The head of a response is read.
LEMMA ReadHeadStep ==
    ASSUME PoolIInv, NEW r \in Requests, ReadHead(r)
    PROVE  /\ Outcome
           /\ \/ Throws(r)
              \/ \E k \in 1..Len(Inbox(r)), framing \in Framings : HeadMoves(r, k, framing)
<1>0. PICK s \in Session : s = session[r]  BY DEF PoolIInv, Types
<1>1. Free /\ s.stage = "read"  BY <1>0 DEF ReadHead
<1>2. session[r].stage \notin {"idle", "done"}  BY <1>0, <1>1
<1>3. PICK k \in 1..Len(Inbox(r)), framing \in Framings, t \in Session,
           cs \in [Conns -> Connection], n \in Int, head \in Requests :
        /\ Take(r, k)
        /\ t.conn = s.conn /\ t.from = s.from /\ t.head = head
        /\ \A d \in Conns : d # s.conn => cs[d] = conn[d]
        /\ cs[s.conn].again /\ cs[s.conn].open = conn[s.conn].open
        /\ cs[s.conn].inUse = conn[s.conn].inUse /\ cs[s.conn].shut = conn[s.conn].shut
        /\ cs[s.conn].stream = conn[s.conn].stream
        /\ HeadCases(r, t, framing, n, cs)
        /\ n = k - 1 /\ HasBlankLine(First(r, k)) /\ framing \in ParsedAs(Inbox(r)[1])
        /\ head = Inbox(r)[1].req /\ t.framing = framing
        /\ framing \in {"chunked", "overlong", "events", "none"} => t.got = 0
        /\ IF framing \in {"chunked", "overlong", "events"}
           THEN Len(t.buf) = n /\ \A i \in 1..n : t.buf[i] = Inbox(r)[i + 1]
           ELSE t.buf = <<>>
  <2>1. PICK k \in 1..Len(Inbox(r)), rest \in Seq(Part), framing \in Framings,
             t \in Session, cs \in [Conns -> Connection], got \in Nat, left \in Nat :
          HeadRead(r, k, rest, framing, t, cs, got, left)
    BY ReadHeadCases
  <2>2. PICK n \in Int : n = k - 1  OBVIOUS
  <2>3. t.conn = s.conn /\ t.from = s.from /\ t.head = Inbox(r)[1].req
    BY <1>0, <2>1 DEF HeadRead, Headed
  <2>4. HeadCases(r, t, framing, n, cs) /\ Take(r, k)  BY <2>1, <2>2, Zenon DEF HeadRead
  <2>5. PICK head \in Requests : head = Inbox(r)[1].req  BY <2>1 DEF HeadRead
  <2>6. /\ t.head = head /\ \A d \in Conns : d # s.conn => cs[d] = conn[d]
        /\ cs[s.conn].again /\ cs[s.conn].open = conn[s.conn].open
        /\ cs[s.conn].inUse = conn[s.conn].inUse /\ cs[s.conn].shut = conn[s.conn].shut
        /\ cs[s.conn].stream = conn[s.conn].stream
    BY <1>0, <2>1, <2>3, <2>5, Zenon DEF HeadRead
  <2>7. /\ HasBlankLine(First(r, k)) /\ framing \in ParsedAs(Inbox(r)[1])
        /\ t.framing = framing
        /\ framing \in {"chunked", "overlong", "events", "none"} => t.got = 0
    BY <2>1 DEF HeadRead, Headed
  <2>8. Len(rest) = n /\ \A i \in 1..n : rest[i] = Inbox(r)[i + 1]
    BY <2>1, <2>2, Zenon DEF HeadRead
  <2>9. t.buf = IF framing \in {"chunked", "overlong", "events"} THEN rest ELSE <<>>
    BY <2>1 DEF HeadRead, Headed
  <2>10. IF framing \in {"chunked", "overlong", "events"}
         THEN Len(t.buf) = n /\ \A i \in 1..n : t.buf[i] = Inbox(r)[i + 1]
         ELSE t.buf = <<>>
    BY <2>8, <2>9, Zenon
  <2> WITNESS k \in 1..Len(Inbox(r)), framing \in Framings, t \in Session,
              cs \in [Conns -> Connection], n \in Int, head \in Requests
  <2>11. QED  BY <2>2, <2>3, <2>4, <2>5, <2>6, <2>7, <2>10, Zenon
<1>4. Inbox(r) \in Seq(Part) /\ Len(Inbox(r)) \in Nat
  <2>1. session[r].conn \in Conns  BY <1>2, OwnFacts
  <2>2. Inbox(r) \in Seq(Part)  BY <2>1 DEF PoolIInv, Types, Device, Inbox
  <2>3. QED  BY <2>2, LenProperties
<1>5. k \in Nat /\ k <= Len(Inbox(r))  BY <1>3, <1>4
<1>6. /\ r \in Active /\ s.conn \in Conns /\ conn[s.conn].open
      /\ net' \in [Conns -> Device] /\ \A d \in Conns : d # s.conn => net'[d] = net[d]
      /\ NetInv(s.conn)'
  <2>1. s.stage \in {"read", "events"} \cup Receiving  BY <1>1
  <2>2. Take(r, k)  BY <1>3
  <2>3. QED  BY <1>0, <1>1, <1>5, <2>1, <2>2, ReadingStep
<1>7. session[r].stage \in Beginning \cup Receiving \cup {"events"} /\ session[r].stage = "read"
  BY <1>0, <1>1 DEF Beginning
<1>8. t.conn = session[r].conn /\ t.from = session[r].from /\ t.head \in Requests
      /\ t.conn = s.conn /\ t.head # None
  BY <1>0, <1>3, ClientAssumption DEF ClientAssumption
<1>9. ASSUME NEW ec \in BOOLEAN, NEW next \in {"done", "events"},
             Callback(r, t, ec, TRUE, next), UNCHANGED pool, ec => next = "done"
      PROVE  /\ Outcome /\ CallsBack(r) /\ Staged(t, session'[r], "callback")
             /\ calling' = [req |-> r, ec |-> ec, end |-> TRUE, next |-> next]
  <2>1. next \in {"done", "events", "content", "rest", "data"} /\ next # "data" /\ pool' = pool
    BY <1>9
  <2>2. next = "done" \/ (next = "events" /\ session[r].stage = "read")  BY <1>7
  <2>3. QED  BY <1>1, <1>6, <1>7, <1>8, <1>9, <2>1, <2>2, CallsBackOutcome, ZenonT(40)
<1>10. ASSUME NEW stage \in {"content", "rest", "size"},
              UNCHANGED <<pool, calling, running, calls>>, Start(r, t, stage, cs)
       PROVE  Outcome /\ Goes(r) /\ Staged(t, session'[r], stage)
  <2>1. stage \in Stages /\ stage \in Receiving /\ stage \notin Beginning /\ stage # "data"
    BY ConnectingFacts DEF Stages, Receiving, Beginning
  <2>2. /\ \A d \in Conns : d # t.conn => cs[d] = conn[d]
        /\ cs[t.conn].open = conn[t.conn].open
        /\ cs[t.conn].inUse = conn[t.conn].inUse /\ cs[t.conn].shut = conn[t.conn].shut
        /\ cs[t.conn].stream = conn[t.conn].stream /\ cs[t.conn].again
    BY <1>3, <1>8
  <2>3. /\ \A d \in Conns : d # t.conn => net'[d] = net[d]
        /\ NetInv(t.conn)'
    BY <1>6, <1>8
  <2>4. net' \in [Conns -> Device] /\ r \in Active  BY <1>6
  <2>5. t.conn = session[r].conn /\ t.from = session[r].from /\ t.head \in Requests  BY <1>8
  <2>6. session[r].stage = "read" /\ Free  BY <1>1, <1>7
  <2>7. QED  BY <1>10, <2>1, <2>2, <2>3, <2>4, <2>5, <2>6, GoesOutcome
<1>11. ASSUME UNCHANGED <<pool, calling, calls, sends>>, running' = FALSE,
              session' = [session EXCEPT ![r] = [NewSession EXCEPT !.stage = "done"]],
              conn' = Forget(cs, NewConn)
       PROVE  Outcome /\ Throws(r)
  <2>1. Types  BY DEF PoolIInv
  <2>2. PICK u \in Session : u = [NewSession EXCEPT !.stage = "done"]
    BY NewTypes DEF Session, Stages
  <2>3. session' \in [Requests -> Session] /\ session'[r] = u
        /\ \A q \in Requests \ {r} : session'[q] = session[q]
    BY <1>11, <2>1, <2>2 DEF Types
  <2>4. conn' = [d \in Conns |-> IF Alive(d) THEN cs[d] ELSE NewConn]
    BY <1>11 DEF Forget, Alive
  <2>5. conn' \in [Conns -> Connection]  BY <2>4, NewTypes
  <2>6. Types'  BY <1>6, <1>11, <2>1, <2>3, <2>5 DEF Types
  <2>7. \A d \in Conns : NetInv(d)'  BY <1>6 DEF PoolIInv, NetInv
  <2>8. \A q \in Requests \ {r} : Same(q)  BY <1>11, <2>3 DEF Same
  <2>9. session'[r] = [NewSession EXCEPT !.stage = "done"]  BY <2>2, <2>3
  <2>10. \A d \in Conns : d # s.conn =>
            conn'[d] = (IF Alive(d) THEN conn[d] ELSE NewConn) /\ net'[d] = net[d]
    BY <1>3, <1>6, <2>4
  <2>11. IF Alive(s.conn)
         THEN /\ conn'[s.conn].open = conn[s.conn].open
              /\ conn'[s.conn].inUse = conn[s.conn].inUse
              /\ conn'[s.conn].shut = conn[s.conn].shut
              /\ conn'[s.conn].stream = conn[s.conn].stream
              /\ conn'[s.conn].again
         ELSE conn'[s.conn] = NewConn
    BY <1>3, <1>6, <2>4
  <2>12. running /\ ~running' /\ calling = None /\ calls'[r] = calls[r] /\ sends'[r] = sends[r]
         /\ UNCHANGED <<pool, calling>>
    BY <1>1, <1>11 DEF Free
  <2>13. Throws(r)
    BY <1>0, <1>6, <1>7, <2>8, <2>9, <2>10, <2>11, <2>12 DEF Throws
  <2>14. QED  BY <2>6, <2>7, <2>13 DEF Outcome, OfAKind
<1>12. ASSUME NEW stage \in Stages, Staged(t, session'[r], stage), HeadTaken(r, n, framing)
       PROVE  HeadMoves(r, k, framing)
  <2>1. PICK v \in Session : v = session'[r]  BY <1>12 DEF Staged
  <2>2. v.head = t.head /\ v.framing = t.framing /\ v.buf = t.buf
    BY <1>12, <2>1 DEF Staged
  <2>3. PICK m \in Nat : m = IF framing \in {"chunked", "overlong", "events"} THEN 1 ELSE k  BY <1>5
  <2>4. Len(s.buf) = 0
    <3>1. s.buf = <<>>  BY <1>0, <1>1 DEF PoolIInv, SessionInv, Beginning
    <3>2. QED  BY <3>1, EmptySeq
  <2>5. Len(v.buf) + m = Len(s.buf) + k
        /\ \A i \in 1..Len(v.buf) : v.buf[i] = Pending(s.buf, Inbox(r), i + m)
    <3>1. CASE framing \in {"chunked", "overlong", "events"}
      <4>1. m = 1 /\ Len(v.buf) = n /\ n = k - 1 /\ \A i \in 1..n : v.buf[i] = Inbox(r)[i + 1]
        BY <1>3, <2>2, <2>3, <3>1, Zenon
      <4>2. Len(v.buf) + m = Len(s.buf) + k
        <5>1. n + 1 = 0 + k
          <6>1. n = k - 1  BY <4>1
          <6> HIDE <1>3, <1>0, <2>3, <4>1
          <6>2. QED  BY <1>5, <6>1
        <5>2. QED  BY <2>4, <4>1, <5>1, Zenon
      <4>3. ASSUME NEW i \in 1..n PROVE v.buf[i] = Pending(s.buf, Inbox(r), i + 1)
        <5>1. ~(i + 1 <= 0) /\ (i + 1) - 0 = i + 1  OBVIOUS
        <5>2. QED  BY <2>4, <4>1, <5>1, Zenon DEF Pending
      <4>4. QED  BY <4>1, <4>2, <4>3, Zenon
    <3>2. CASE framing \notin {"chunked", "overlong", "events"}
      <4>1. m = k /\ v.buf = <<>>  BY <1>3, <2>2, <2>3, <3>2, Zenon
      <4>2. Len(v.buf) = 0  BY <4>1, EmptySeq
      <4>3. QED  BY <1>5, <2>4, <4>1, <4>2
    <3>3. QED  BY <3>1, <3>2, Zenon
  <2>6. s.stage \in {"read", "events"} \cup Receiving /\ Take(r, k)  BY <1>1, <1>3
  <2>7. Moves(r, m)  BY <1>0, <1>5, <2>1, <2>5, <2>6, MovesStep, Zenon
  <2>8. /\ session'[r].head = Inbox(r)[1].req /\ session'[r].framing = framing
        /\ session'[r].buf = <<>> \/ framing \in {"chunked", "overlong", "events"}
        /\ HasBlankLine(First(r, k)) /\ framing \in ParsedAs(Inbox(r)[1])
    BY <1>3, <2>1, <2>2, Zenon
  <2>9. HeadTaken(r, k - 1, framing)  BY <1>3, <1>12, Zenon
  <2>10. QED  BY <2>3, <2>7, <2>8, <2>9, Zenon DEF HeadMoves
<1> DEFINE v == session'[r]
           All == Outcome /\ HeadMoves(r, k, framing)
<1>13. ASSUME framing = "malformed", UNCHANGED pool, Callback(r, t, TRUE, TRUE, "done")
       PROVE  All
  <2>0. /\ Outcome /\ CallsBack(r) /\ Staged(t, v, "callback")
        /\ calling' = [req |-> r, ec |-> TRUE, end |-> TRUE, next |-> "done"]
    BY <1>9, <1>13
  <2>1. /\ Outcome /\ CallsBack(r) /\ Staged(t, v, "callback") /\ calling'.ec
    BY <2>0
  <2>2. HeadTaken(r, n, framing) /\ "callback" \in Stages  BY <1>13, <2>1 DEF HeadTaken, Stages
  <2>3. QED  BY <1>12, <2>1, <2>2
<1>14. ASSUME \/ framing = "none"
              \/ /\ framing \in {"length", "long"} /\ t.got = Contents(KindsOf(framing))
                 /\ n >= Contents(KindsOf(framing)),
              UNCHANGED pool, Callback(r, t, FALSE, TRUE, "done")
       PROVE  All
  <2>0. /\ Outcome /\ CallsBack(r) /\ Staged(t, v, "callback")
        /\ calling' = [req |-> r, ec |-> FALSE, end |-> TRUE, next |-> "done"]
    BY <1>9, <1>14
  <2>1. /\ Outcome /\ CallsBack(r) /\ Staged(t, v, "callback") /\ ~calling'.ec
        /\ calling'.next = "done"
    BY <2>0
  <2>2. v.got = t.got  BY <2>1 DEF Staged
  <2>3. framing = "none" => v.got = 0  BY <1>3, <2>2
  <2>4. HeadTaken(r, n, framing)  BY <1>14, <2>1, <2>2, <2>3, Zenon DEF HeadTaken
  <2>5. "callback" \in Stages  BY DEF Stages
  <2>6. QED  BY <1>12, <2>1, <2>4, <2>5
<1>15. ASSUME framing = "events", UNCHANGED pool, Callback(r, t, FALSE, TRUE, "events")
       PROVE  All
  <2>0. /\ Outcome /\ CallsBack(r) /\ Staged(t, v, "callback")
        /\ calling' = [req |-> r, ec |-> FALSE, end |-> TRUE, next |-> "events"]
    BY <1>9, <1>15
  <2>1. /\ Outcome /\ CallsBack(r) /\ Staged(t, v, "callback") /\ calling'.end
        /\ calling'.next = "events"
    BY <2>0
  <2>2. HeadTaken(r, n, framing) /\ "callback" \in Stages  BY <1>15, <2>1 DEF HeadTaken, Stages
  <2>3. QED  BY <1>12, <2>1, <2>2
<1>16. ASSUME NEW stage \in {"content", "rest", "size"},
              \/ /\ framing \in {"length", "long"} /\ stage = "content"
                 /\ t.got + t.left = Contents(KindsOf(framing)) /\ t.got = n
              \/ /\ framing = "eof" /\ stage = "rest"
                 /\ t.got = IF n < Contents(KindsOf(framing)) THEN n
                            ELSE Contents(KindsOf(framing))
              \/ framing \in {"chunked", "overlong"} /\ stage = "size",
              UNCHANGED <<pool, calling, running, calls>>, Start(r, t, stage, cs)
       PROVE  All
  <2>1. Outcome /\ Goes(r) /\ Staged(t, v, stage)  BY <1>10, <1>16
  <2>2. v.got = t.got /\ v.left = t.left /\ v.stage = stage  BY <2>1 DEF Staged
  <2>3. framing \in {"chunked", "overlong"} => v.got = 0  BY <1>3, <2>2
  <2>4. HeadTaken(r, n, framing)  BY <1>16, <2>1, <2>2, <2>3, Zenon DEF HeadTaken
  <2>5. stage \in Stages  BY <1>16 DEF Stages, Receiving
  <2>6. QED  BY <1>12, <2>1, <2>4, <2>5
<1>17. ASSUME UNCHANGED <<pool, calling, calls, sends>>, running' = FALSE,
              session' = [session EXCEPT ![r] = [NewSession EXCEPT !.stage = "done"]],
              conn' = Forget(cs, NewConn)
       PROVE  Outcome /\ Throws(r)
  BY <1>11, <1>17
<1>18. HeadCases(r, t, framing, n, cs)  BY <1>3
<1> HIDE DEF v, All
<1>19. All \/ (Outcome /\ Throws(r))
  BY <1>13, <1>14, <1>15, <1>16, <1>17, <1>18 DEF HeadCases
<1>20. QED  BY <1>3, <1>19 DEF All

\* A request is made.
LEMMA RequestStep ==
    ASSUME PoolIInv, NEW r \in Requests, Request(r)
    PROVE  Outcome /\ \E c \in Conns : Asks(r, c)
<1> DEFINE unused == {c \in pool : ~conn[c].inUse}
<1>1. running /\ session[r].stage = "idle" /\ UNCHANGED <<net, calling, running, calls>>
  BY DEF Request, Application
<1>2. PICK c \in IF unused # {} THEN unused ELSE Unborn :
        /\ pool' = pool \cup {c}
        /\ Start(r, [NewSession EXCEPT !.conn = c,
                       !.from = IF c \notin pool THEN "own"
                                ELSE IF c \in Held THEN "released" ELSE "idle"],
                 IF conn[c].open THEN "write" ELSE "resolve",
                 [conn EXCEPT ![c].inUse = TRUE, ![c].again = TRUE])
  BY DEF Request
<1>3. Types  BY DEF PoolIInv
<1>4. c \in Conns /\ ((c \in pool /\ ~conn[c].inUse) \/ c \notin pool \cup Held)
  BY <1>2, <1>3 DEF Unborn, Types
<1> HIDE DEF unused
<1>5. PICK from \in {"own", "idle", "released"} :
        from = IF c \notin pool THEN "own" ELSE IF c \in Held THEN "released" ELSE "idle"
  OBVIOUS
<1>6. PICK u \in Session :
        /\ u = [NewSession EXCEPT !.conn = c, !.from = from]
        /\ u.conn = c /\ u.from = from /\ u.head = None
        /\ u.buf = <<>> /\ u.held = 0 /\ u.got = 0
  <2> DEFINE u == [NewSession EXCEPT !.conn = c, !.from = from]
  <2>1. u \in Session  BY <1>4, NewTypes DEF Session
  <2>2. /\ u.conn = c /\ u.from = from /\ u.head = None
        /\ u.buf = <<>> /\ u.held = 0 /\ u.got = 0
    BY DEF NewSession
  <2>3. QED  BY <2>1, <2>2
<1>7. PICK cs \in [Conns -> Connection] :
        /\ cs = [conn EXCEPT ![c].inUse = TRUE, ![c].again = TRUE]
        /\ \A d \in Conns : d # c => cs[d] = conn[d]
        /\ cs[c].inUse /\ cs[c].again /\ cs[c].open = conn[c].open
        /\ cs[c].shut = conn[c].shut /\ cs[c].stream = conn[c].stream
  <2>1. conn \in [Conns -> Connection]  BY <1>3 DEF Types
  <2>2. PICK x \in Connection : x = conn[c]  BY <1>4, <2>1
  <2>3. PICK y \in Connection : /\ y = [x EXCEPT !.inUse = TRUE, !.again = TRUE]
                                /\ y.again /\ y.inUse /\ y.open = x.open /\ y.shut = x.shut
                                /\ y.stream = x.stream
    <3> DEFINE y == [x EXCEPT !.inUse = TRUE, !.again = TRUE]
    <3>1. y \in Connection /\ y.again /\ y.open = x.open /\ y.inUse /\ y.shut = x.shut
          /\ y.stream = x.stream
      BY DEF Connection
    <3>2. QED  BY <3>1
  <2>4. [conn EXCEPT ![c].inUse = TRUE, ![c].again = TRUE] = [conn EXCEPT ![c] = y]
    BY <1>4, <2>1, <2>2, <2>3
  <2>5. PICK cs : cs = [conn EXCEPT ![c] = y]  OBVIOUS
  <2>6. cs \in [Conns -> Connection] /\ cs[c] = y
        /\ \A d \in Conns : d # c => cs[d] = conn[d]
    BY <1>4, <2>1, <2>5
  <2>7. cs = [conn EXCEPT ![c].inUse = TRUE, ![c].again = TRUE]  BY <2>4, <2>5, Zenon
  <2>8. /\ cs[c].inUse /\ cs[c].again /\ cs[c].open = conn[c].open
        /\ cs[c].shut = conn[c].shut /\ cs[c].stream = conn[c].stream
    BY <2>2, <2>3, <2>6, Zenon
  <2>9. QED  BY <2>6, <2>7, <2>8, Zenon
<1>8. PICK stage \in Stages : /\ stage = IF conn[c].open THEN "write" ELSE "resolve"
                              /\ stage # "connect"
  BY ConnectingFacts DEF Stages, Beginning
<1>9. Start(r, u, stage, cs)  BY <1>2, <1>5, <1>6, <1>7, <1>8, Zenon
<1>10. /\ session' \in [Requests -> Session]
       /\ conn' \in [Conns -> Connection]
       /\ sends' \in [Requests -> Nat]
       /\ Staged(u, session'[r], stage)
       /\ \A q \in Requests \ {r} : session'[q] = session[q] /\ sends'[q] = sends[q]
       /\ sends'[r] = IF stage = "write" THEN sends[r] + 1 ELSE sends[r]
       /\ \A d \in Conns : d # u.conn =>
             conn'[d] = IF d \in pool' \cup Held' THEN cs[d] ELSE NewConn
       /\ Timed(cs[u.conn], conn'[u.conn], cs[u.conn].open \/ stage = "connect")
  <2>1. u.conn \in Conns  BY <1>4, <1>6
  <2>2. QED  BY <1>3, <1>9, <2>1, StartStep
<1>11. Types'
  <2>1. pool' \in SUBSET Conns  BY <1>2, <1>3, <1>4 DEF Types
  <2>2. QED  BY <1>1, <1>3, <1>10, <2>1 DEF Types
<1>12. \A d \in Conns : NetInv(d)'  BY <1>1 DEF PoolIInv, NetInv
<1>13. \A d \in Conns : d # c => conn'[d] = conn[d]
  <2> TAKE d \in Conns
  <2>1. session[r].conn = None  BY <1>1 DEF PoolIInv, SessionInv, Active
  <2>2. None \notin Conns  BY ClientAssumption DEF ClientAssumption
  <2>3. d \in pool \cup Held => d \in pool' \cup Held'
    BY <1>2, <1>10, <2>1, <2>2 DEF Held
  <2>4. d \notin pool \cup Held => conn[d] = NewConn  BY DEF PoolIInv, ConnInv
  <2>5. QED  BY <1>6, <1>7, <1>10, <2>3, <2>4
<1>14. Asks(r, c)
  <2>1. LET t == session'[r] IN
          /\ t.stage = stage /\ t.from = from
          /\ t.conn = c /\ ~t.cut /\ t.head = None /\ t.buf = <<>> /\ t.held = 0 /\ t.got = 0
    BY <1>6, <1>10 DEF Staged
  <2>2. \A q \in Requests \ {r} : Same(q)  BY <1>1, <1>10 DEF Same
  <2>3. sends'[r] = IF session'[r].stage = "write" THEN sends[r] + 1 ELSE sends[r]
    BY <1>10, <2>1
  <2>4. /\ conn'[c].inUse /\ conn'[c].again
        /\ conn'[c].open = conn[c].open /\ conn'[c].shut = conn[c].shut
        /\ conn'[c].stream = conn[c].stream
    <3>1. Timed(cs[c], conn'[c], cs[c].open \/ stage = "connect")  BY <1>6, <1>10
    <3>2. (cs[c].open \/ stage = "connect") = cs[c].open
      BY <1>4, <1>8 DEF Connection
    <3>3. QED  BY <1>7, <3>1, <3>2 DEF Timed
  <2>5. pool' = pool \cup {c} /\ calls'[r] = calls[r]  BY <1>1, <1>2
  <2>6. session'[r].stage = IF conn[c].open THEN "write" ELSE "resolve"  BY <1>8, <2>1
  <2>7. session'[r].from = IF c \notin pool THEN "own"
                           ELSE IF c \in Held THEN "released" ELSE "idle"
    BY <1>5, <2>1
  <2>8. QED  BY <1>1, <1>4, <1>13, <2>1, <2>2, <2>3, <2>4, <2>5, <2>6, <2>7 DEF Asks
<1>15. QED  BY <1>4, <1>11, <1>12, <1>14 DEF Outcome, OfAKind

\* The pool is pruned, and the application told.
LEMMA PruneStep ==
    ASSUME PoolIInv, Prune
    PROVE  Outcome /\ \E r \in Requests : Prunes(r)
<1>1. Types /\ calling # None  BY DEF PoolIInv, Prune
<1>2. PICK m \in CallbackArgs : m = calling  BY <1>1 DEF Types
<1>3. PICK r \in Requests : r = m.req  BY DEF CallbackArgs
<1>4. PICK s \in Session : s = session[r]  BY <1>1 DEF Types
<1> DEFINE left == IF m.ec THEN pool \ {s.conn} ELSE pool
           unused == {c \in left : ~conn[c].inUse}
<1>5. PICK kept \in SUBSET unused : KeepsOne(unused, kept) /\ pool' = (left \ unused) \cup kept
  BY <1>2, <1>3, <1>4 DEF Prune
<1>6. PICK word \in {"part", "end", "error"} :
        /\ word = IF m.ec THEN "error" ELSE IF m.end THEN "end" ELSE "part"
        /\ calls' = [calls EXCEPT ![r] = Append(@, word)]
  BY <1>2, <1>3 DEF Prune
<1>7. calling' = None /\ UNCHANGED <<running, sends>>
  BY DEF Prune
<1>8. PICK t \in Session :
        /\ IF m.next = "done" THEN t = [NewSession EXCEPT !.stage = "done"]
           ELSE t = [s EXCEPT !.stage = m.next]
        /\ session' = [session EXCEPT ![r] = t]
  <2>1. m.next \in {"done", "events", "content", "rest", "data"}  BY DEF CallbackArgs
  <2>2. m.next \in Stages  BY <2>1 DEF Stages, Receiving
  <2>3. [NewSession EXCEPT !.stage = "done"] \in Session  BY NewTypes DEF Session, Stages
  <2>4. [s EXCEPT !.stage = m.next] \in Session  BY <2>2 DEF Session
  <2>5. session' = [session EXCEPT ![r] = IF m.next = "done"
                                          THEN [NewSession EXCEPT !.stage = "done"]
                                          ELSE [s EXCEPT !.stage = m.next]]
    BY <1>2, <1>3, <1>4 DEF Prune
  <2>6. QED  BY <2>3, <2>4, <2>5
<1>9. /\ pool' \subseteq left
      /\ \A c \in left : conn[c].inUse => c \in pool'
      /\ \A c, d \in pool' : ~conn[c].inUse /\ ~conn[d].inUse => c = d
  BY <1>5 DEF KeepsOne
<1> HIDE DEF left, unused
<1>10. session' \in [Requests -> Session] /\ session'[r] = t
       /\ \A q \in Requests \ {r} : session'[q] = session[q]
  BY <1>1, <1>8 DEF Types
<1>11. /\ calls' \in [Requests -> Seq({"part", "end", "error"})]
       /\ calls'[r] = Append(calls[r], word)
       /\ \A q \in Requests \ {r} : calls'[q] = calls[q]
  <2>1. calls[r] \in Seq({"part", "end", "error"})  BY <1>1 DEF Types
  <2>2. PICK told \in Seq({"part", "end", "error"}) : told = Append(calls[r], word)
    BY <2>1, AppendProperties
  <2>3. calls' = [calls EXCEPT ![r] = told]  BY <1>6, <2>2
  <2>4. QED  BY <1>1, <2>2, <2>3 DEF Types
<1>12. conn' \in [Conns -> Connection]
       /\ \A d \in Conns : conn'[d] = IF Alive(d) THEN conn[d] ELSE NewConn
  <2>1. conn' = [d \in Conns |-> IF Alive(d) THEN conn[d] ELSE NewConn]
    BY DEF Prune, Forget, Alive
  <2>2. QED  BY <1>1, <2>1, NewTypes DEF Types
<1>13. net' \in [Conns -> Device]
       /\ \A d \in Conns : net'[d] = IF Alive(d) THEN net[d] ELSE NoNet
  BY <1>1, ForgetNet DEF Prune
<1>14. pool' \in SUBSET Conns  BY <1>1, <1>9 DEF left, Types
<1>15. Types'  BY <1>1, <1>7, <1>10, <1>11, <1>12, <1>13, <1>14 DEF Types
<1>16. \A d \in Conns : NetInv(d)'  BY <1>13, ForgetNetInv
<1>17. Prunes(r)
  <2>1. \A q \in Requests \ {r} : Same(q)  BY <1>7, <1>10, <1>11 DEF Same
  <2>2. calls'[r] = Append(calls[r], IF m.ec THEN "error" ELSE IF m.end THEN "end" ELSE "part")
    BY <1>6, <1>11
  <2>3. IF m.next = "done" THEN session'[r] = [NewSession EXCEPT !.stage = "done"]
        ELSE session'[r] = [s EXCEPT !.stage = m.next]
    BY <1>8, <1>10
  <2>4. sends'[r] = sends[r] /\ running' = running  BY <1>7
  <2>5. QED
    BY <1>1, <1>2, <1>3, <1>4, <1>7, <1>9, <1>12, <1>13, <2>1, <2>2, <2>3, <2>4
    DEF Prunes, left
<1>18. QED  BY <1>15, <1>16, <1>17 DEF Outcome, OfAKind

\* Sockets are closed: connections are shut, what waits on them is cut.
LEMMA CloseStep ==
    ASSUME PoolIInv, NEW cs \in SUBSET Conns, NEW connections \in [Conns -> Connection],
           \A c \in Conns : /\ connections[c].open = conn[c].open
                            /\ connections[c].inUse = conn[c].inUse
                            /\ connections[c].again = conn[c].again
                            /\ connections[c].stream = conn[c].stream
                            /\ connections[c].shut = conn[c].shut,
           Close(cs, connections)
    PROVE  /\ session' \in [Requests -> Session] /\ conn' \in [Conns -> Connection]
           /\ Held' = Held
           /\ \A q \in Requests :
                LET s == session[q]
                    t == session'[q]
                IN  /\ t.stage = s.stage /\ t.conn = s.conn /\ t.buf = s.buf /\ t.head = s.head
                    /\ t.framing = s.framing /\ t.held = s.held /\ t.got = s.got
                    /\ t.left = s.left /\ t.from = s.from
                    /\ t.cut => s.cut \/ (q \in Active /\ conn'[s.conn].shut)
           /\ \A c \in Conns : Alive(c) =>
                /\ conn'[c].open = conn[c].open /\ conn'[c].inUse = conn[c].inUse
                /\ conn'[c].again = conn[c].again /\ conn'[c].stream = conn[c].stream
                /\ conn[c].shut => conn'[c].shut
                /\ c \in cs /\ conn[c].open => conn'[c].shut
           /\ \A c \in Conns : ~Alive(c) => conn'[c] = NewConn
<1> DEFINE opened == {c \in cs : conn[c].open}
           Cuts(q) == session[q].conn \in opened /\ session[q].stage # "callback"
           Shut(c) == [connections[c] EXCEPT !.shut = @ \/ c \in opened]
<1>1. Types  BY DEF PoolIInv
<1>2. session' = [q \in Requests |-> [session[q] EXCEPT !.cut = @ \/ Cuts(q)]]
  BY DEF Close
<1>3. conn' = Forget([c \in Conns |-> Shut(c)], NewConn)
  BY DEF Close
<1>4. ASSUME NEW q \in Requests
      PROVE  LET s == session[q]
                 t == session'[q]
             IN  /\ t \in Session
                 /\ t.stage = s.stage /\ t.conn = s.conn /\ t.buf = s.buf /\ t.head = s.head
                 /\ t.framing = s.framing /\ t.held = s.held /\ t.got = s.got
                 /\ t.left = s.left /\ t.from = s.from
                 /\ t.cut => s.cut \/ s.conn \in opened
  <2>1. PICK s \in Session : s = session[q]  BY <1>1 DEF Types
  <2>2. PICK b \in BOOLEAN : b = (s.cut \/ Cuts(q))  BY DEF Session
  <2>3. session'[q] = [s EXCEPT !.cut = b]
    <3> HIDE DEF opened, Cuts
    <3> QED  BY <1>2, <2>1, <2>2
  <2>4. /\ [s EXCEPT !.cut = b] \in Session
        /\ [s EXCEPT !.cut = b].cut = b /\ [s EXCEPT !.cut = b].stage = s.stage
        /\ [s EXCEPT !.cut = b].conn = s.conn /\ [s EXCEPT !.cut = b].buf = s.buf
        /\ [s EXCEPT !.cut = b].head = s.head /\ [s EXCEPT !.cut = b].framing = s.framing
        /\ [s EXCEPT !.cut = b].held = s.held /\ [s EXCEPT !.cut = b].got = s.got
        /\ [s EXCEPT !.cut = b].left = s.left /\ [s EXCEPT !.cut = b].from = s.from
    BY DEF Session
  <2>5. b => s.cut \/ s.conn \in opened  BY <2>1, <2>2
  <2> HIDE DEF opened, Cuts
  <2>6. QED  BY <2>1, <2>3, <2>4, <2>5
<1>5. session' \in [Requests -> Session]
  <2>1. \A q \in Requests : session'[q] \in Session  BY <1>4
  <2> HIDE DEF Cuts
  <2>2. QED  BY <1>2, <2>1
<1>6. Held' = Held  BY <1>4, HeldSame
<1>7. ASSUME NEW c \in Conns
      PROVE  /\ Shut(c) \in Connection
             /\ Shut(c).open = conn[c].open /\ Shut(c).inUse = conn[c].inUse
             /\ Shut(c).again = conn[c].again /\ Shut(c).stream = conn[c].stream
             /\ Shut(c).shut = (conn[c].shut \/ c \in opened)
  <2>1. PICK x \in Connection : x = connections[c]  OBVIOUS
  <2>2. PICK b \in BOOLEAN : b = (x.shut \/ c \in opened)
    BY DEF Connection
  <2>3. Shut(c) = [x EXCEPT !.shut = b]
    <3> HIDE DEF opened
    <3> QED  BY <2>1, <2>2
  <2>4. /\ [x EXCEPT !.shut = b] \in Connection
        /\ [x EXCEPT !.shut = b].open = x.open /\ [x EXCEPT !.shut = b].inUse = x.inUse
        /\ [x EXCEPT !.shut = b].again = x.again /\ [x EXCEPT !.shut = b].stream = x.stream
        /\ [x EXCEPT !.shut = b].shut = b
    BY DEF Connection
  <2> HIDE DEF opened, Shut
  <2>5. QED  BY <2>1, <2>2, <2>3, <2>4
<1> HIDE DEF Shut
<1>8. conn' = [c \in Conns |-> IF Alive(c) THEN Shut(c) ELSE NewConn]
  BY <1>3 DEF Forget, Alive
<1>9. conn' \in [Conns -> Connection]  BY <1>7, <1>8, NewTypes
<1>10. \A c \in Conns : conn'[c] = IF Alive(c) THEN Shut(c) ELSE NewConn  BY <1>8
<1>11. \A q \in Requests : session[q].conn \in opened =>
          q \in Active /\ conn'[session[q].conn].shut
  <2> TAKE q \in Requests
  <2> HAVE session[q].conn \in opened
  <2>1. session[q].conn \in Conns  OBVIOUS
  <2>2. session[q].conn # None  BY <2>1, ClientAssumption DEF ClientAssumption
  <2>3. q \in Active  BY <2>2 DEF PoolIInv, SessionInv
  <2>4. session[q].conn \in Held'  BY <1>6 DEF Held
  <2>5. Alive(session[q].conn)  BY <2>4 DEF Alive
  <2>6. QED  BY <1>7, <1>10, <2>1, <2>3, <2>5
<1>12. \A c \in Conns : Alive(c) =>
         /\ conn'[c].open = conn[c].open /\ conn'[c].inUse = conn[c].inUse
         /\ conn'[c].again = conn[c].again /\ conn'[c].stream = conn[c].stream
         /\ conn[c].shut => conn'[c].shut
         /\ c \in cs /\ conn[c].open => conn'[c].shut
  BY <1>7, <1>10
<1>13. \A c \in Conns : ~Alive(c) => conn'[c] = NewConn  BY <1>10
<1> HIDE DEF opened
<1>14. QED  BY <1>4, <1>5, <1>6, <1>9, <1>11, <1>12, <1>13

\* All connections of the pool are closed, and the pool is emptied.
LEMMA stopStep ==
    ASSUME PoolIInv, stop
    PROVE  Outcome /\ Changes
<1>1. Types  BY DEF PoolIInv
<1>2. pool' = {} /\ Close(pool, conn) /\ net' = Forget(net, NoNet)
      /\ UNCHANGED <<calling, running, calls, sends>>
  BY DEF stop
<1>3. pool \in SUBSET Conns /\ conn \in [Conns -> Connection]  BY <1>1 DEF Types
<1>4. /\ session' \in [Requests -> Session] /\ conn' \in [Conns -> Connection]
      /\ Held' = Held
      /\ \A q \in Requests :
           LET s == session[q]
               t == session'[q]
           IN  /\ t.stage = s.stage /\ t.conn = s.conn /\ t.buf = s.buf /\ t.head = s.head
               /\ t.framing = s.framing /\ t.held = s.held /\ t.got = s.got
               /\ t.left = s.left /\ t.from = s.from
               /\ t.cut => s.cut \/ (q \in Active /\ conn'[s.conn].shut)
      /\ \A c \in Conns : Alive(c) =>
           /\ conn'[c].open = conn[c].open /\ conn'[c].inUse = conn[c].inUse
           /\ conn'[c].again = conn[c].again /\ conn'[c].stream = conn[c].stream
           /\ conn[c].shut => conn'[c].shut
           /\ c \in pool /\ conn[c].open => conn'[c].shut
      /\ \A c \in Conns : ~Alive(c) => conn'[c] = NewConn
  BY <1>2, <1>3, CloseStep
<1>5. net' \in [Conns -> Device]
      /\ \A d \in Conns : net'[d] = IF Alive(d) THEN net[d] ELSE NoNet
  BY <1>1, <1>2, ForgetNet
<1>6. Types'  BY <1>1, <1>2, <1>4, <1>5 DEF Types
<1>7. \A d \in Conns : NetInv(d)'  BY <1>5, ForgetNetInv
<1>8. Changes
  <2>1. pool' = {} /\ \A c \in pool : conn[c].open /\ Alive(c) => conn'[c].shut
    BY <1>2, <1>3, <1>4
  <2>2. \A c \in Conns : net[c] = NoNet => net'[c] = NoNet  BY <1>5
  <2>3. \A c \in Conns : ~Alive(c) => net'[c] = NoNet  BY <1>5
  <2>4. QED  BY <1>2, <1>4, <2>1, <2>2, <2>3 DEF Changes
<1>9. QED  BY <1>6, <1>7, <1>8 DEF Outcome, OfAKind

\* A timeout closes a connection.
LEMMA TimeoutHandlerStep ==
    ASSUME PoolIInv, NEW c \in Conns, TimeoutHandler(c)
    PROVE  Outcome /\ Changes
<1>1. Types  BY DEF PoolIInv
<1>2. Close({c}, [conn EXCEPT ![c].expired = FALSE])
      /\ UNCHANGED <<pool, net, calling, running, calls, sends>> /\ running
  BY DEF TimeoutHandler, Free
<1>3. conn \in [Conns -> Connection]  BY <1>1 DEF Types
<1>4. PICK cs \in [Conns -> Connection] :
        /\ cs = [conn EXCEPT ![c].expired = FALSE]
        /\ \A d \in Conns : /\ cs[d].open = conn[d].open
                            /\ cs[d].inUse = conn[d].inUse
                            /\ cs[d].again = conn[d].again
                            /\ cs[d].stream = conn[d].stream
                            /\ cs[d].shut = conn[d].shut
  <2>1. PICK x \in Connection : x = conn[c]  BY <1>3
  <2>2. PICK y \in Connection : /\ y = [x EXCEPT !.expired = FALSE]
                                /\ y.again = x.again /\ y.inUse = x.inUse /\ y.open = x.open
                                /\ y.shut = x.shut /\ y.stream = x.stream
    <3> DEFINE y == [x EXCEPT !.expired = FALSE]
    <3>1. y \in Connection /\ y.again = x.again /\ y.open = x.open /\ y.inUse = x.inUse
          /\ y.shut = x.shut /\ y.stream = x.stream
      BY DEF Connection
    <3>2. QED  BY <3>1
  <2>3. [conn EXCEPT ![c].expired = FALSE] = [conn EXCEPT ![c] = y]  BY <1>3, <2>1, <2>2
  <2>4. PICK cs : cs = [conn EXCEPT ![c] = y]  OBVIOUS
  <2>5. cs \in [Conns -> Connection] /\ cs[c] = y
        /\ \A d \in Conns : d # c => cs[d] = conn[d]
    BY <1>3, <2>4
  <2>6. cs = [conn EXCEPT ![c].expired = FALSE]  BY <2>3, <2>4, Zenon
  <2>7. \A d \in Conns : /\ cs[d].open = conn[d].open
                         /\ cs[d].inUse = conn[d].inUse
                         /\ cs[d].again = conn[d].again
                         /\ cs[d].stream = conn[d].stream
                         /\ cs[d].shut = conn[d].shut
    BY <2>1, <2>2, <2>5, Zenon
  <2>8. QED  BY <2>5, <2>6, <2>7, Zenon
<1>5. /\ session' \in [Requests -> Session] /\ conn' \in [Conns -> Connection]
      /\ Held' = Held
      /\ \A q \in Requests :
           LET s == session[q]
               t == session'[q]
           IN  /\ t.stage = s.stage /\ t.conn = s.conn /\ t.buf = s.buf /\ t.head = s.head
               /\ t.framing = s.framing /\ t.held = s.held /\ t.got = s.got
               /\ t.left = s.left /\ t.from = s.from
               /\ t.cut => s.cut \/ (q \in Active /\ conn'[s.conn].shut)
      /\ \A d \in Conns : Alive(d) =>
           /\ conn'[d].open = conn[d].open /\ conn'[d].inUse = conn[d].inUse
           /\ conn'[d].again = conn[d].again /\ conn'[d].stream = conn[d].stream
           /\ conn[d].shut => conn'[d].shut
           /\ d \in {c} /\ conn[d].open => conn'[d].shut
      /\ \A d \in Conns : ~Alive(d) => conn'[d] = NewConn
  <2>1. Close({c}, cs) /\ {c} \in SUBSET Conns  BY <1>2, <1>4
  <2>2. QED  BY <1>4, <2>1, CloseStep
<1>6. Types'  BY <1>1, <1>2, <1>5 DEF Types
<1>7. \A d \in Conns : NetInv(d)'  BY <1>2 DEF PoolIInv, NetInv
<1>8. Changes
  <2>1. \A d \in Conns : ~Alive(d) => net'[d] = NoNet
    BY <1>2, <1>5 DEF PoolIInv, ConnInv, Alive
  <2>2. \A d \in Conns : net[d] = NoNet => net'[d] = NoNet  BY <1>2
  <2>3. QED  BY <1>2, <1>5, <2>1, <2>2 DEF Changes
<1>9. QED  BY <1>6, <1>7, <1>8 DEF Outcome, OfAKind

\* A wait of a timer ends.
LEMMA TimerExpiresStep ==
    ASSUME PoolIInv, NEW c \in Conns, TimerExpires(c)
    PROVE  Outcome /\ Changes
<1>1. Types  BY DEF PoolIInv
<1>2. /\ conn[c].timer /\ conn' = [conn EXCEPT ![c].timer = FALSE, ![c].expired = TRUE]
      /\ UNCHANGED <<pool, net, session, calling, running, calls, sends>>
  BY DEF TimerExpires
<1>3. PICK x \in Connection : x = conn[c]  BY <1>1 DEF Types
<1>4. PICK y \in Connection : /\ y = [x EXCEPT !.timer = FALSE, !.expired = TRUE]
                              /\ y.again = x.again /\ y.inUse = x.inUse /\ y.open = x.open
                              /\ y.shut = x.shut /\ y.stream = x.stream
  <2> DEFINE y == [x EXCEPT !.timer = FALSE, !.expired = TRUE]
  <2>1. y \in Connection /\ y.again = x.again /\ y.open = x.open /\ y.inUse = x.inUse
        /\ y.shut = x.shut /\ y.stream = x.stream
    BY DEF Connection
  <2>2. QED  BY <2>1
<1>5. conn' = [conn EXCEPT ![c] = y]  BY <1>1, <1>2, <1>3, <1>4 DEF Types
<1>6. conn' \in [Conns -> Connection] /\ conn'[c] = y
      /\ \A d \in Conns : d # c => conn'[d] = conn[d]
  BY <1>1, <1>5 DEF Types
<1>7. Types'  BY <1>1, <1>2, <1>6 DEF Types
<1>8. \A d \in Conns : NetInv(d)'  BY <1>2 DEF PoolIInv, NetInv
<1>9. Held' = Held  BY <1>2, HeldSame
<1>10. conn[c] # NewConn  BY <1>2 DEF NewConn
<1>11. Changes
  <2>1. \A d \in Conns : ~Alive(d) => conn'[d] = NewConn /\ (running => net'[d] = NoNet)
    BY <1>2, <1>6, <1>9, <1>10 DEF PoolIInv, ConnInv, Alive
  <2>2. \A d \in Conns : /\ conn'[d].open = conn[d].open /\ conn'[d].inUse = conn[d].inUse
                         /\ conn'[d].again = conn[d].again /\ conn'[d].stream = conn[d].stream
                         /\ conn[d].shut => conn'[d].shut
    BY <1>3, <1>4, <1>6
  <2>3. QED  BY <1>2, <2>1, <2>2 DEF Changes
<1>12. QED  BY <1>7, <1>8, <1>11 DEF Outcome, OfAKind

\* A device that is there does something.
LEMMA DeviceStep ==
    ASSUME PoolIInv, NEW c \in Conns, net[c].up,
           UNCHANGED <<pool, conn, session, calling, running, calls, sends>>,
           NEW d \in Device, net' = [net EXCEPT ![c] = d],
           ~d.up => d.asked = <<>> /\ d.out = <<>>
    PROVE  Outcome /\ Changes
<1>1. Types  BY DEF PoolIInv
<1>2. net' \in [Conns -> Device] /\ net'[c] = d /\ \A e \in Conns : e # c => net'[e] = net[e]
  BY <1>1 DEF Types
<1>3. Types'  BY <1>1, <1>2 DEF Types
<1>4. \A e \in Conns : NetInv(e)'
  <2> TAKE e \in Conns
  <2>1. NetInv(e)  BY DEF PoolIInv
  <2>2. QED  BY <1>2, <2>1 DEF NetInv
<1>5. net[c] # NoNet  BY DEF NoNet
<1>6. Held' = Held  BY HeldSame
<1>7. Changes
  <2>1. \A e \in Conns : ~Alive(e) => conn'[e] = NewConn /\ (running => net'[e] = NoNet)
    BY <1>2, <1>5, <1>6 DEF PoolIInv, ConnInv, Alive
  <2>2. QED  BY <1>2, <1>5, <2>1 DEF Changes
<1>8. QED  BY <1>3, <1>4, <1>7 DEF Outcome, OfAKind

\* A device answers the first request it has received.
LEMMA AnswerFacts ==
    ASSUME Types, NEW c \in Conns, Answer(c)
    PROVE  \E d \in Device, r \in Requests, f \in Framings :
              /\ net[c].up /\ net[c].out = <<>> /\ net[c].asked # <<>> /\ r = Head(net[c].asked)
              /\ f \in FramingsOf[r] /\ net' = [net EXCEPT ![c] = d]
              /\ d.up = net[c].up /\ d.asked = Tail(net[c].asked) /\ d.inbox = net[c].inbox
              /\ d.out = PartsOf(r, f)
<1>1. PICK x \in Device : x = net[c]  BY DEF Types
<1>2. x.up /\ x.out = <<>> /\ x.asked # <<>> /\ x.asked \in Seq(Requests)
  BY <1>1 DEF Answer, Device
<1>3. PICK r \in Requests : r = Head(x.asked)  BY <1>2, HeadTailProperties
<1>4. PICK asked \in Seq(Requests) : asked = Tail(x.asked)  BY <1>2, HeadTailProperties
<1>5. PICK f \in FramingsOf[r] :
        net' = [net EXCEPT ![c].out = PartsOf(r, f), ![c].asked = asked]
  BY <1>1, <1>3, <1>4 DEF Answer
<1>6. f \in Framings  BY ClientAssumption DEF ClientAssumption, Framings
<1>7. PICK out \in Seq(Part) : out = PartsOf(r, f)  BY <1>6, PartsOfType
<1>8. PICK d \in Device : /\ d = [x EXCEPT !.out = out, !.asked = asked]
                          /\ d.up = x.up /\ d.asked = asked /\ d.inbox = x.inbox /\ d.out = out
  <2> DEFINE d == [x EXCEPT !.out = out, !.asked = asked]
  <2>1. d \in Device /\ d.up = x.up /\ d.asked = asked /\ d.inbox = x.inbox /\ d.out = out
    BY DEF Device
  <2>2. QED  BY <2>1
<1>9. net' = [net EXCEPT ![c] = d]  BY <1>1, <1>5, <1>7, <1>8 DEF Types
<1>10. r = Head(net[c].asked) /\ d.asked = Tail(net[c].asked)
  BY <1>1, <1>3, <1>4, <1>8, Zenon
<1>11. net[c].up /\ net[c].out = <<>> /\ net[c].asked # <<>>  BY <1>1, <1>2
<1>12. d.up = net[c].up /\ d.inbox = net[c].inbox /\ d.out = PartsOf(r, f)
  BY <1>1, <1>7, <1>8, Zenon
<1> WITNESS d \in Device, r \in Requests, f \in Framings
<1>13. f \in FramingsOf[r]  BY <1>5
<1>14. QED  BY <1>9, <1>10, <1>11, <1>12, <1>13, Zenon

\* Parts get from a device into the socket: a prefix of what is on the way.
LEMMA DeliverFacts ==
    ASSUME Types, NEW c \in Conns, Deliver(c)
    PROVE  \E d \in Device, k \in Nat :
              /\ net[c].up /\ ~conn[c].shut /\ k <= Len(net[c].out)
              /\ net' = [net EXCEPT ![c] = d]
              /\ d.up = net[c].up /\ d.asked = net[c].asked
              /\ Len(d.inbox) = Len(net[c].inbox) + k
              /\ \A i \in 1..Len(net[c].inbox) : d.inbox[i] = net[c].inbox[i]
              /\ \A i \in 1..k : d.inbox[Len(net[c].inbox) + i] = net[c].out[i]
              /\ Len(d.out) = Len(net[c].out) - k
              /\ \A i \in 1..Len(net[c].out) - k : d.out[i] = net[c].out[k + i]
<1>1. PICK x \in Device : x = net[c]  BY DEF Types
<1>2. x.up /\ ~conn[c].shut /\ x.out \in Seq(Part) /\ x.inbox \in Seq(Part)
  BY <1>1 DEF Deliver, Device
<1>3. PICK o \in Seq(Part), n \in Seq(Part) : o = x.out /\ n = x.inbox  BY <1>2
<1>4. Len(o) \in Nat /\ Len(n) \in Nat  BY LenProperties
<1>5. PICK k \in 1..Len(o) :
        net' = [net EXCEPT ![c].inbox = @ \o SubSeq(o, 1, k), ![c].out = SubSeq(@, k + 1, Len(@))]
  BY <1>1, <1>3 DEF Deliver
<1>6. k \in Nat /\ k <= Len(o)  BY <1>4
<1>7. PICK out \in Seq(Part) : /\ out = SubSeq(o, k + 1, Len(o)) /\ Len(out) = Len(o) - k
                               /\ \A i \in 1..Len(o) - k : out[i] = o[k + i]
  BY <1>6, RestType
<1>8. PICK p \in Seq(Part) : p = SubSeq(o, 1, k) /\ Len(p) = k /\ \A i \in 1..k : p[i] = o[i]
  <2>1. \A i \in 1..k : o[i] \in Part  BY <1>4, <1>6, ElementOfSeq
  <2>2. /\ SubSeq(o, 1, k) \in Seq(Part)
        /\ Len(SubSeq(o, 1, k)) = IF 1 <= k THEN k - 1 + 1 ELSE 0
        /\ \A i \in 1..k - 1 + 1 : SubSeq(o, 1, k)[i] = o[1 + i - 1]
    BY <2>1, <1>6, SubSeqProperties
  <2>3. PICK q : q = SubSeq(o, 1, k)  OBVIOUS
  <2>4. /\ q \in Seq(Part) /\ Len(q) = (IF 1 <= k THEN k - 1 + 1 ELSE 0)
        /\ \A i \in 1..k - 1 + 1 : q[i] = o[1 + i - 1]
    BY <2>2, <2>3, Zenon
  <2>5. Len(q) = k /\ \A i \in 1..k : q[i] = o[i]
    <3> HIDE <2>2, <2>3
    <3> QED  BY <1>6, <2>4
  <2>6. QED  BY <2>3, <2>4, <2>5, Zenon
<1>9. PICK inbox \in Seq(Part) :
        /\ inbox = n \o p /\ Len(inbox) = Len(n) + k
        /\ \A i \in 1..Len(n) : inbox[i] = n[i]
        /\ \A i \in 1..k : inbox[Len(n) + i] = o[i]
  <2>1. PICK q : q = n \o p  OBVIOUS
  <2>2. /\ q \in Seq(Part) /\ Len(q) = Len(n) + Len(p)
        /\ \A i \in 1..Len(n) + Len(p) : q[i] = IF i <= Len(n) THEN n[i] ELSE p[i - Len(n)]
    BY <2>1, ConcatProperties, Zenon
  <2>3. PICK l \in Nat : l = Len(n) /\ Len(p) = k  BY <1>4, <1>8
  <2>4. /\ Len(q) = l + k
        /\ \A i \in 1..l + k : q[i] = IF i <= l THEN n[i] ELSE p[i - l]
    BY <2>2, <2>3, Zenon
  <2>5. \A i \in 1..l : q[i] = n[i]
    <3> TAKE i \in 1..l
    <3>1. i \in 1..l + k /\ i <= l  BY <1>6
    <3>2. QED  BY <2>4, <3>1, Zenon
  <2>6. \A i \in 1..k : q[l + i] = o[i]
    <3> TAKE i \in 1..k
    <3>1. l + i \in 1..l + k /\ ~(l + i <= l) /\ (l + i) - l = i  BY <1>6
    <3>2. q[l + i] = p[(l + i) - l]  BY <2>4, <3>1, Zenon
    <3>3. QED  BY <1>8, <3>1, <3>2, Zenon
  <2>7. QED  BY <2>1, <2>2, <2>3, <2>4, <2>5, <2>6, Zenon
<1>10. PICK d \in Device : /\ d = [x EXCEPT !.inbox = inbox, !.out = out]
                           /\ d.up = x.up /\ d.asked = x.asked /\ d.inbox = inbox /\ d.out = out
  <2> DEFINE d == [x EXCEPT !.inbox = inbox, !.out = out]
  <2>1. d \in Device /\ d.up = x.up /\ d.asked = x.asked /\ d.inbox = inbox /\ d.out = out
    BY DEF Device
  <2>2. QED  BY <2>1
<1>11. net' = [net EXCEPT ![c] = d]
  <2>1. net' = [net EXCEPT ![c] = [@ EXCEPT !.inbox = n \o p, !.out = SubSeq(o, k + 1, Len(o))]]
    BY <1>1, <1>3, <1>5, <1>8 DEF Types
  <2>2. net' = [net EXCEPT ![c] = [x EXCEPT !.inbox = inbox, !.out = out]]
    BY <1>1, <1>7, <1>9, <2>1
  <2>3. QED  BY <1>10, <2>2
<1>12. net[c].up /\ ~conn[c].shut /\ net[c].out = o /\ net[c].inbox = n
  BY <1>1, <1>2, <1>3
<1>13. d.up = net[c].up /\ d.asked = net[c].asked /\ d.inbox = inbox /\ d.out = out
  BY <1>1, <1>10, Zenon
<1> WITNESS d \in Device, k \in Nat
<1>14. QED  BY <1>6, <1>7, <1>9, <1>11, <1>12, <1>13, Zenon

\* Devices: they answer, parts are delivered, and they close the connection.
LEMMA DevicesStep ==
    ASSUME PoolIInv, NEW c \in Conns, Answer(c) \/ Deliver(c) \/ DeviceCloses(c)
    PROVE  Outcome /\ Changes
<1>0. Types  BY DEF PoolIInv
<1>1. CASE Answer(c)
  <2>1. PICK d \in Device : net[c].up /\ net' = [net EXCEPT ![c] = d] /\ d.up = net[c].up
    BY <1>0, <1>1, AnswerFacts
  <2>2. QED  BY <1>1, <2>1, DeviceStep DEF Answer
<1>2. CASE Deliver(c)
  <2>1. PICK d \in Device : net[c].up /\ net' = [net EXCEPT ![c] = d] /\ d.up = net[c].up
    BY <1>0, <1>2, DeliverFacts
  <2>2. QED  BY <1>2, <2>1, DeviceStep DEF Deliver
<1>3. CASE DeviceCloses(c)
  <2>1. PICK x \in Device : x = net[c]  BY <1>0 DEF Types
  <2>2. PICK d \in Device : /\ d = [x EXCEPT !.up = FALSE, !.asked = <<>>, !.out = <<>>]
                            /\ d.asked = <<>> /\ d.out = <<>>
    <3> DEFINE d == [x EXCEPT !.up = FALSE, !.asked = <<>>, !.out = <<>>]
    <3>1. d \in Device /\ d.asked = <<>> /\ d.out = <<>>  BY EmptySeq DEF Device
    <3>2. QED  BY <3>1
  <2>3. net' = [net EXCEPT ![c] = d] /\ net[c].up
    BY <1>0, <1>3, <2>1, <2>2 DEF DeviceCloses, Types
  <2>4. QED  BY <1>3, <2>2, <2>3, DeviceStep DEF DeviceCloses
<1>4. QED  BY <1>1, <1>2, <1>3

\* Every step is of a kind, or changes nothing.
LEMMA EveryStep ==
    ASSUME PoolIInv, [Next]_vars
    PROVE  Outcome \/ UNCHANGED vars
<1>1. ASSUME NEW r \in Requests, Request(r) \/ Handlers(r)
      PROVE  Outcome
  BY <1>1, RequestStep, EstablishedStep, EstablishFailsStep, WrittenStep, WriteOrReadFailsStep,
     ReadHeadStep, ReadContentStep, ReadRestStep, ReadSizeStep, ReadDataStep, ReadEventStep,
     ContentFailsStep
  DEF Handlers
<1>2. ASSUME NEW c \in Conns,
             TimerExpires(c) \/ TimeoutHandler(c) \/ Answer(c) \/ Deliver(c) \/ DeviceCloses(c)
      PROVE  Outcome
  BY <1>2, TimerExpiresStep, TimeoutHandlerStep, DevicesStep
<1>3. ASSUME Prune \/ stop
      PROVE  Outcome
  BY <1>3, PruneStep, stopStep
<1>4. QED  BY <1>1, <1>2, <1>3 DEF Next

-----------------------------------------------------------------------------
(* Steps keep what connects requests, connections and the callback.        *)

\* The stages, written out.
LEMMA StageFacts ==
    /\ Beginning \subseteq {"resolve", "connect", "ask_proxy", "proxy_answers", "handshake",
                            "write", "read"}
    /\ Connecting \subseteq Beginning
    /\ {"resolve", "write", "read"} \subseteq Beginning
    /\ "write" \notin Connecting /\ "read" \notin Connecting
    /\ Receiving = {"content", "rest", "size", "data"}
BY ConnectingFacts DEF Beginning, Receiving

\* A connection that is open or shut remains so.
Lasts(c) == (conn[c].open => conn'[c].open) /\ (conn[c].shut => conn'[c].shut)

\* The steps of others.
LEMMA OthersSession ==
    ASSUME PoolIInv, NEW q \in Requests, Same(q),
           q \in Active => Lasts(session[q].conn),
           session[q].stage = "callback" => calling' = calling
    PROVE  SessionInv(q)'
<1>1. SessionInv(q)  BY DEF PoolIInv
<1>2. session'[q] = session[q] /\ (q \in Active <=> q \in Active')  BY DEF Same, Active
<1>3. PICK s \in Session : s = session[q]  BY DEF PoolIInv, Types
<1>4. s.stage \notin {"idle", "done"} => Lasts(s.conn)  BY <1>3 DEF Active
<1>5. /\ s.cut => q \in Active' /\ conn'[s.conn].shut
      /\ s.stage \in (Beginning \ {"resolve"}) \cup Receiving \cup {"events"} => conn'[s.conn].open
  BY <1>1, <1>2, <1>3, <1>4, StageFacts DEF SessionInv, Lasts, Active
<1>6. s.stage = "callback" =>
         /\ calling' # None /\ calling'.req = q
         /\ ~calling'.ec => conn'[s.conn].open /\ s.head \in Requests
         /\ calling'.next = "data" => s.held < Limit
  BY <1>1, <1>3, <1>4 DEF SessionInv, Lasts
<1>7. /\ IF q \in Active' THEN s.conn \in Conns ELSE s.conn = None /\ s.head = None
      /\ s.stage \in Beginning => s.head = None /\ s.buf = <<>> /\ s.held = 0 /\ s.got = 0
      /\ s.stage \in Receiving \cup {"events"} => s.head \in Requests
      /\ s.stage = "data" => s.held < Limit
  BY <1>1, <1>2, <1>3 DEF SessionInv
<1>8. session'[q] = s  BY <1>2, <1>3
<1>9. QED  BY <1>5, <1>6, <1>7, <1>8 DEF SessionInv

\* What is to be kept.
PoolRest == CallInv /\ (\A r \in Requests : SessionInv(r)) /\ (\A c \in Conns : ConnInv(c))

\* Nobody else's callback is meant when the thread is free.
LEMMA FreeFacts ==
    ASSUME PoolIInv, calling = None
    PROVE  \A q \in Requests : session[q].stage # "callback"
BY DEF PoolIInv, SessionInv

\* A request gets its connection.
LEMMA AsksPool ==
    ASSUME PoolIInv, NEW r \in Requests, NEW c \in Conns, Asks(r, c)
    PROVE  PoolRest'
<1>1. PICK t : t = session'[r]  OBVIOUS
<1>2. /\ t.stage = (IF conn[c].open THEN "write" ELSE "resolve")
      /\ t.conn = c /\ ~t.cut /\ t.head = None /\ t.buf = <<>> /\ t.held = 0 /\ t.got = 0
      /\ \A q \in Requests \ {r} : Same(q)
      /\ conn'[c].open = conn[c].open /\ conn'[c].shut = conn[c].shut
      /\ conn'[c].stream = conn[c].stream
      /\ \A d \in Conns : d # c => conn'[d] = conn[d]
      /\ net' = net /\ calling' = calling /\ running' = running
      /\ session[r].stage = "idle" /\ pool' = pool \cup {c}
  BY <1>1 DEF Asks
<1>3. SessionInv(r)'
  <2>1. t.stage \in {"write", "resolve"}  BY <1>2
  <2>2. r \in Active'  BY <1>1, <2>1 DEF Active
  <2>3. t.stage \in Beginning \ {"resolve"} => conn'[c].open  BY <1>2
  <2>4. QED  BY <1>1, <1>2, <2>1, <2>2, <2>3, StageFacts DEF SessionInv
<1>4. ASSUME NEW q \in Requests \ {r}  PROVE SessionInv(q)'
  <2>1. \A d \in Conns : Lasts(d)  BY <1>2 DEF Lasts
  <2>2. q \in Active => session[q].conn \in Conns  BY DEF PoolIInv, SessionInv
  <2>3. QED  BY <1>2, <2>1, <2>2, OthersSession
<1>5. CallInv'
  <2>1. calling # None => calling.req \in Requests /\ calling.req # r
    BY <1>2 DEF PoolIInv, CallInv, Types, CallbackArgs
  <2>2. calling # None => session'[calling.req] = session[calling.req]
    BY <1>2, <2>1 DEF Same
  <2>3. QED  BY <1>2, <2>2 DEF PoolIInv, CallInv
<1>6. ASSUME NEW d \in Conns  PROVE ConnInv(d)'
  <2>1. ConnInv(d)  BY DEF PoolIInv
  <2>2. session[r].conn = None /\ None \notin Conns
    BY <1>2, ClientAssumption DEF PoolIInv, SessionInv, Active, ClientAssumption
  <2>3. d \in Held' <=> d \in Held \/ d = c
    BY <1>1, <1>2, <2>2 DEF Held, Same
  <2>4. CASE d = c  BY <1>2, <2>1, <2>3, <2>4 DEF ConnInv
  <2>5. CASE d # c  BY <1>2, <2>1, <2>3, <2>5 DEF ConnInv
  <2>6. QED  BY <2>4, <2>5
<1>7. QED  BY <1>3, <1>4, <1>5, <1>6 DEF PoolRest

\* A request goes on.
LEMMA GoesPool ==
    ASSUME PoolIInv, NEW r \in Requests, Goes(r)
    PROVE  PoolRest'
<1>0. PICK t : t = session'[r]  OBVIOUS
<1>1. PICK s \in Session, c \in Conns : t = session'[r] /\ s = session[r] /\ c = s.conn
  <2>1. session[r].stage \notin {"idle", "done"}  BY DEF Goes, Active
  <2>2. QED  BY <1>0, <2>1, OwnFacts
<1>2. /\ calling = None /\ r \in Active
      /\ \/ s.stage \in Connecting /\ t.stage = After(s.stage)
         \/ s.stage = "write" /\ t.stage = "read"
         \/ s.stage = "read" /\ t.stage \in Receiving
         \/ s.stage \in Receiving /\ t.stage \in Receiving
      /\ t.conn = c /\ ~t.cut
      /\ t.stage \in Beginning =>
            t.head = s.head /\ t.buf = s.buf /\ t.held = s.held /\ t.got = s.got
      /\ t.stage \in Receiving => t.head \in Requests
      /\ t.stage = "data" => t.held < Limit
      /\ \A q \in Requests \ {r} : Same(q)
      /\ conn'[c].shut = conn[c].shut /\ conn'[c].stream = conn[c].stream
      /\ conn'[c].open = (conn[c].open \/ t.stage = "connect")
      /\ \A d \in Conns : d # c => conn'[d] = conn[d] /\ net'[d] = net[d]
      /\ pool' = pool /\ calling' = calling /\ running' = running
  BY <1>1 DEF Goes
<1>3. conn[c].open \/ t.stage = "connect"
  <2>1. s.stage \in (Beginning \ {"resolve"}) \cup Receiving => conn[c].open
    BY <1>1 DEF PoolIInv, SessionInv
  <2>2. s.stage = "resolve" => t.stage = "connect"
    BY <1>2, ConnectingFacts, StageFacts
  <2>3. s.stage \in Beginning \cup Receiving  BY <1>2, StageFacts
  <2>4. QED  BY <2>1, <2>2, <2>3
<1>4. conn'[c].open  BY <1>2, <1>3
<1>5. SessionInv(r)'
  <2>1. t.stage \in Beginning \cup Receiving  BY <1>2, ConnectingFacts, StageFacts
  <2>2. t.stage \in Beginning => t.head = None /\ t.buf = <<>> /\ t.held = 0 /\ t.got = 0
    <3>1. s.stage \in Beginning => s.head = None /\ s.buf = <<>> /\ s.held = 0 /\ s.got = 0
      BY <1>1 DEF PoolIInv, SessionInv
    <3>2. t.stage \in Beginning => s.stage \in Beginning  BY <1>2, StageFacts
    <3>3. QED  BY <1>2, <3>1, <3>2
  <2>3. r \in Active'  BY <1>1, <2>1, StageFacts DEF Active
  <2>4. t.stage \notin {"callback", "events"}  BY <2>1, StageFacts
  <2>5. QED  BY <1>1, <1>2, <1>4, <2>1, <2>2, <2>3, <2>4 DEF SessionInv
<1>6. ASSUME NEW q \in Requests \ {r}  PROVE SessionInv(q)'
  <2>1. \A d \in Conns : Lasts(d)  BY <1>2, <1>4 DEF Lasts
  <2>2. q \in Active => session[q].conn \in Conns  BY DEF PoolIInv, SessionInv
  <2>3. QED  BY <1>2, <2>1, <2>2, OthersSession
<1>7. CallInv'  BY <1>2 DEF CallInv
<1>8. ASSUME NEW d \in Conns  PROVE ConnInv(d)'
  <2>1. ConnInv(d)  BY DEF PoolIInv
  <2>2. Held' = Held
    <3>1. \A q \in Requests : session'[q].conn = session[q].conn  BY <1>1, <1>2 DEF Same
    <3>2. QED  BY <3>1, HeldSame
  <2>3. c \in Held  BY <1>1 DEF Held
  <2>4. CASE d = c  BY <1>2, <1>4, <2>2, <2>3, <2>4 DEF ConnInv
  <2>5. CASE d # c  BY <1>2, <2>1, <2>2, <2>5 DEF ConnInv
  <2>6. QED  BY <2>4, <2>5
<1>9. QED  BY <1>5, <1>6, <1>7, <1>8 DEF PoolRest

\* A callback is called.
LEMMA CallsBackPool ==
    ASSUME PoolIInv, NEW r \in Requests, CallsBack(r)
    PROVE  PoolRest'
<1>0. PICK t : t = session'[r]  OBVIOUS
<1>1. PICK s \in Session, c \in Conns, m \in CallbackArgs :
         t = session'[r] /\ s = session[r] /\ c = s.conn /\ m = calling'
  <2>1. session[r].stage \notin {"idle", "done"} /\ calling' \in CallbackArgs
    BY DEF CallsBack, Active
  <2>2. QED  BY <1>0, <2>1, OwnFacts
<1>2. /\ running /\ calling = None /\ r \in Active
      /\ s.stage \in Beginning \cup Receiving \cup {"events"}
      /\ pool' = pool \/ pool' = pool \ {c}
      /\ t.stage = "callback" /\ t.conn = c /\ ~t.cut
      /\ m.req = r
      /\ m.ec => m.end /\ m.next = "done"
      /\ m.next = "done" => m.end
      /\ m.end => m.next = "done" \/ (m.next = "events" /\ s.stage = "read")
      /\ ~m.end => \/ s.stage = "events" /\ m.next = "events"
                   \/ s.stage \in Receiving /\ m.next \in {"content", "rest", "data"}
      /\ ~m.ec /\ m.next = "done" => s.stage \in {"read"} \cup Receiving
      /\ ~m.ec => t.head \in Requests
      /\ m.next = "data" => t.held < Limit
      /\ \A q \in Requests \ {r} : Same(q)
      /\ conn'[c].stream = (conn[c].stream \/ (m.end /\ m.next = "events"))
      /\ conn'[c].open = conn[c].open /\ conn'[c].shut = conn[c].shut
      /\ \A d \in Conns : d # c => conn'[d] = conn[d] /\ net'[d] = net[d]
      /\ ~conn[c].open => net'[c] = net[c]
      /\ running' = running
  BY <1>1 DEF CallsBack
<1>3. m # None  BY <1>1, ClientAssumption DEF ClientAssumption
<1>4. s.stage \in (Beginning \ {"resolve"}) \cup Receiving \cup {"events"} => conn[c].open
  BY <1>1 DEF PoolIInv, SessionInv
<1>5. ~m.ec => s.stage \in {"read", "events"} \cup Receiving
  BY <1>2
<1>6. ~m.ec => conn[c].open  BY <1>4, <1>5, StageFacts
<1>7. SessionInv(r)'
  <2>1. r \in Active'  BY <1>1, <1>2 DEF Active
  <2>2. t.stage = "callback" /\ "callback" \notin Beginning \cup Receiving \cup {"events"}
    BY <1>2, StageFacts
  <2>3. QED  BY <1>1, <1>2, <1>3, <1>6, <2>1, <2>2 DEF SessionInv
<1>8. ASSUME NEW q \in Requests \ {r}  PROVE SessionInv(q)'
  <2>1. \A d \in Conns : Lasts(d)  BY <1>2 DEF Lasts
  <2>2. q \in Active => session[q].conn \in Conns  BY DEF PoolIInv, SessionInv
  <2>3. session[q].stage # "callback"  BY <1>2, FreeFacts
  <2>4. QED  BY <1>2, <2>1, <2>2, <2>3, OthersSession
<1>9. CallInv'
  <2>1. m.end \in BOOLEAN  BY DEF CallbackArgs
  <2>2. m.end <=> m.next = "done" \/ (m.next = "events" /\ m.end)  BY <1>2, <2>1
  <2>3. QED  BY <1>1, <1>2, <2>2 DEF CallInv
<1>10. ASSUME NEW d \in Conns  PROVE ConnInv(d)'
  <2>1. ConnInv(d)  BY DEF PoolIInv
  <2>2. Held' = Held
    <3>1. \A q \in Requests : session'[q].conn = session[q].conn  BY <1>1, <1>2 DEF Same
    <3>2. QED  BY <3>1, HeldSame
  <2>3. c \in Held  BY <1>1 DEF Held
  <2>4. CASE d = c
    <3>1. m.end /\ m.next = "events" => conn[c].open  BY <1>2, <1>6
    <3>2. ~conn'[c].open => ~conn'[c].stream /\ net'[c] = net[c]  BY <1>2, <2>1, <2>4, <3>1 DEF ConnInv
    <3>3. QED  BY <1>2, <2>1, <2>2, <2>3, <2>4, <3>2 DEF ConnInv
  <2>5. CASE d # c  BY <1>2, <2>1, <2>2, <2>5 DEF ConnInv
  <2>6. QED  BY <2>4, <2>5
<1>11. QED  BY <1>7, <1>8, <1>9, <1>10 DEF PoolRest

\* A second attempt begins.
LEMMA RetriesPool ==
    ASSUME PoolIInv, NEW r \in Requests, NEW new \in Conns, Retries(r, new)
    PROVE  PoolRest'
<1>0. PICK t : t = session'[r]  OBVIOUS
<1>1. PICK s \in Session, old \in Conns : t = session'[r] /\ s = session[r] /\ old = s.conn
  <2>1. session[r].stage \notin {"idle", "done"}  BY DEF Retries, Active
  <2>2. QED  BY <1>0, <2>1, OwnFacts
<1>2. /\ calling = None /\ new \notin pool \cup Held
      /\ pool' = (pool \ {old}) \cup {new}
      /\ t.stage = "resolve" /\ t.conn = new
      /\ ~t.cut /\ t.head = None /\ t.buf = <<>> /\ t.held = 0 /\ t.got = 0
      /\ \A q \in Requests \ {r} : Same(q)
      /\ ~conn'[new].open /\ ~conn'[new].shut /\ ~conn'[new].stream
      /\ \A d \in Conns : d # new => conn'[d] = IF Alive(d) THEN conn[d] ELSE NewConn
      /\ \A d \in Conns : net'[d] = IF Alive(d) THEN net[d] ELSE NoNet
      /\ calling' = calling /\ running' = running
  BY <1>1 DEF Retries
<1>3. new \in Held'  BY <1>1, <1>2 DEF Held
<1>4. SessionInv(r)'
  <2>1. r \in Active'  BY <1>1, <1>2 DEF Active
  <2>2. QED  BY <1>1, <1>2, <2>1, StageFacts DEF SessionInv
<1>5. ASSUME NEW q \in Requests \ {r}  PROVE SessionInv(q)'
  <2>1. q \in Active => session[q].conn \in Conns  BY DEF PoolIInv, SessionInv
  <2>2. session[q].conn # new /\ session[q].conn \in Held'  BY <1>2 DEF Held, Same
  <2>3. q \in Active => Lasts(session[q].conn)  BY <1>2, <2>1, <2>2 DEF Lasts, Alive
  <2>4. QED  BY <1>2, <2>3, OthersSession
<1>6. CallInv'  BY <1>2 DEF CallInv
<1>7. ASSUME NEW d \in Conns  PROVE ConnInv(d)'
  <2>1. ConnInv(d)  BY DEF PoolIInv
  <2>2. CASE d = new
    <3>1. net[d] = NoNet \/ ~running  BY <1>2, <2>1, <2>2 DEF ConnInv
    <3>2. QED  BY <1>2, <1>3, <2>2, <3>1 DEF ConnInv
  <2>3. CASE d # new /\ Alive(d)
    <3>1. conn'[d] = conn[d] /\ net'[d] = net[d]  BY <1>2, <2>3
    <3>2. d \in pool' => d \in pool /\ d # old  BY <1>2, <2>3
    <3>3. d \in Held /\ d # old => d \in Held'
      <4> HAVE d \in Held /\ d # old
      <4>1. PICK q \in Requests : session[q].conn = d  BY DEF Held
      <4>2. q # r  BY <1>1, <4>1
      <4>3. session'[q].conn = d  BY <1>2, <4>1, <4>2 DEF Same
      <4>4. QED  BY <4>3 DEF Held
    <3>4. QED  BY <1>2, <2>1, <2>3, <3>1, <3>2, <3>3 DEF ConnInv, Alive
  <2>4. CASE d # new /\ ~Alive(d)
    <3>1. conn'[d] = NewConn /\ net'[d] = NoNet /\ d \notin pool'  BY <1>2, <2>4 DEF Alive
    <3>2. QED  BY <3>1 DEF ConnInv, NewConn
  <2>5. QED  BY <2>2, <2>3, <2>4
<1>8. QED  BY <1>4, <1>5, <1>6, <1>7 DEF PoolRest

\* Devices, timers and stop.
LEMMA ChangesPool ==
    ASSUME PoolIInv, Changes
    PROVE  PoolRest'
<1>1. /\ \A q \in Requests :
          LET s == session[q]
              t == session'[q]
          IN  /\ t.stage = s.stage /\ t.conn = s.conn /\ t.buf = s.buf /\ t.head = s.head
              /\ t.held = s.held /\ t.got = s.got
              /\ t.cut => s.cut \/ (q \in Active /\ conn'[s.conn].shut)
      /\ pool' \subseteq pool
      /\ \A c \in Conns : Alive(c) =>
            /\ conn'[c].open = conn[c].open /\ conn'[c].stream = conn[c].stream
            /\ conn[c].shut => conn'[c].shut
      /\ \A c \in Conns : ~Alive(c) => conn'[c] = NewConn /\ (running => net'[c] = NoNet)
      /\ \A c \in Conns : net[c] = NoNet => net'[c] = NoNet
      /\ calling' = calling /\ running' = running
  BY DEF Changes
<1>2. Held' = Held  BY <1>1, HeldSame
<1>3. ASSUME NEW q \in Requests  PROVE SessionInv(q)'
  <2>1. PICK t : t = session'[q]  OBVIOUS
  <2>2. PICK s \in Session : s = session[q]  BY DEF PoolIInv, Types
  <2>3. /\ t.stage = s.stage /\ t.conn = s.conn /\ t.buf = s.buf /\ t.head = s.head
        /\ t.held = s.held /\ t.got = s.got
        /\ t.cut => s.cut \/ (q \in Active /\ conn'[s.conn].shut)
    BY <1>1, <2>1, <2>2
  <2>4. q \in Active <=> q \in Active'  BY <2>1, <2>2, <2>3 DEF Active
  <2>5. SessionInv(q)  BY DEF PoolIInv
  <2>6. q \in Active => /\ s.conn \in Conns /\ conn'[s.conn].open = conn[s.conn].open
                        /\ conn[s.conn].shut => conn'[s.conn].shut
    <3> HAVE q \in Active
    <3>1. s.conn \in Conns  BY <2>2, <2>5 DEF SessionInv
    <3>2. Alive(s.conn)  BY <1>2, <2>2 DEF Alive, Held
    <3>3. QED  BY <1>1, <3>1, <3>2
  <2>7. s.stage \notin {"idle", "done"} => q \in Active  BY <2>2 DEF Active
  <2>8. t.cut => q \in Active' /\ conn'[t.conn].shut
    BY <2>2, <2>3, <2>4, <2>5, <2>6 DEF SessionInv
  <2>9. t.stage \in (Beginning \ {"resolve"}) \cup Receiving \cup {"events"} => conn'[t.conn].open
    BY <2>2, <2>3, <2>5, <2>6, <2>7, StageFacts DEF SessionInv
  <2>10. t.stage = "callback" =>
            /\ calling' # None /\ calling'.req = q
            /\ ~calling'.ec => conn'[t.conn].open /\ t.head \in Requests
            /\ calling'.next = "data" => t.held < Limit
    BY <1>1, <2>2, <2>3, <2>5, <2>6, <2>7 DEF SessionInv
  <2>11. /\ IF q \in Active' THEN t.conn \in Conns ELSE t.conn = None /\ t.head = None
         /\ t.stage \in Beginning => t.head = None /\ t.buf = <<>> /\ t.held = 0 /\ t.got = 0
         /\ t.stage \in Receiving \cup {"events"} => t.head \in Requests
         /\ t.stage = "data" => t.held < Limit
    BY <2>2, <2>3, <2>4, <2>5 DEF SessionInv
  <2>12. QED  BY <2>1, <2>8, <2>9, <2>10, <2>11 DEF SessionInv
<1>4. CallInv'
  <2>1. calling # None => calling.req \in Requests  BY DEF PoolIInv, Types, CallbackArgs
  <2>2. QED  BY <1>1, <2>1 DEF PoolIInv, CallInv
<1>5. ASSUME NEW d \in Conns  PROVE ConnInv(d)'
  <2>1. ConnInv(d)  BY DEF PoolIInv
  <2>2. CASE Alive(d)
    <3>1. d \in pool' => d \in pool  BY <1>1
    <3>2. QED  BY <1>1, <1>2, <2>1, <2>2, <3>1 DEF ConnInv, Alive
  <2>3. CASE ~Alive(d)
    <3>1. d \notin pool'  BY <2>3 DEF Alive
    <3>2. ~NewConn.open /\ ~NewConn.stream  BY DEF NewConn
    <3>3. QED  BY <1>1, <2>3, <3>1, <3>2 DEF ConnInv
  <2>4. QED  BY <2>2, <2>3
<1>6. QED  BY <1>3, <1>4, <1>5 DEF PoolRest

\* What the session of a request becomes that is done.
LEMMA DoneFacts ==
    LET t == [NewSession EXCEPT !.stage = "done"]
    IN  t.stage = "done" /\ t.conn = None /\ t.head = None /\ ~t.cut
BY DEF NewSession

\* The pool is pruned.
LEMMA PrunesPool ==
    ASSUME PoolIInv, NEW r \in Requests, Prunes(r)
    PROVE  PoolRest'
<1>1. PICK m \in CallbackArgs : m = calling  BY DEF Prunes, PoolIInv, Types
<1>2. session[r].stage = "callback" /\ m.req = r
  BY <1>1 DEF Prunes, PoolIInv, CallInv
<1>3. PICK s \in Session, c \in Conns : s = session[r] /\ c = s.conn
  <2>1. session[r].stage \notin {"idle", "done"}  BY <1>2
  <2>2. QED  BY <2>1, OwnFacts
<1>4. PICK t : t = session'[r]  OBVIOUS
<1>5. /\ calling # None /\ calling' = None
      /\ pool' \subseteq (IF m.ec THEN pool \ {c} ELSE pool)
      /\ m.next = "done" => t = [NewSession EXCEPT !.stage = "done"]
      /\ m.next # "done" => t = [s EXCEPT !.stage = m.next]
      /\ \A q \in Requests \ {r} : Same(q)
      /\ \A d \in Conns : conn'[d] = IF Alive(d) THEN conn[d] ELSE NewConn
      /\ \A d \in Conns : net'[d] = IF Alive(d) THEN net[d] ELSE NoNet
      /\ running' = running
  BY <1>1, <1>3, <1>4 DEF Prunes
<1>6. m.ec => m.next = "done"  BY <1>1, <1>5 DEF PoolIInv, CallInv
<1>7. /\ s.cut => conn[c].shut
      /\ ~m.ec => conn[c].open /\ s.head \in Requests
      /\ m.next = "data" => s.held < Limit
  BY <1>1, <1>2, <1>3 DEF PoolIInv, SessionInv
<1>8. m.next # "done" => /\ t.stage = m.next /\ t.conn = c /\ t.head = s.head /\ t.cut = s.cut
                         /\ t.held = s.held
  BY <1>3, <1>5 DEF Session
<1>9. m.next \in {"done", "events"} \cup Receiving
  BY StageFacts DEF CallbackArgs
<1>10. SessionInv(r)'
  <2>1. CASE m.next = "done"
    <3>1. t.stage = "done" /\ t.conn = None /\ t.head = None /\ ~t.cut
      BY <1>5, <2>1, DoneFacts
    <3>2. r \notin Active'  BY <1>4, <3>1 DEF Active
    <3>3. QED  BY <1>4, <3>1, <3>2, StageFacts DEF SessionInv
  <2>2. CASE m.next # "done"
    <3>1. c \in Held'  BY <1>4, <1>8, <2>2 DEF Held
    <3>2. conn'[c] = conn[c]  BY <1>5, <3>1 DEF Alive
    <3>3. r \in Active'  BY <1>4, <1>8, <1>9, <2>2, StageFacts DEF Active
    <3>4. t.stage \in {"events"} \cup Receiving /\ t.stage \notin Beginning \cup {"callback"}
      BY <1>8, <1>9, <2>2, StageFacts
    <3>5. QED  BY <1>4, <1>6, <1>7, <1>8, <2>2, <3>2, <3>3, <3>4 DEF SessionInv
  <2>3. QED  BY <2>1, <2>2
<1>11. ASSUME NEW q \in Requests \ {r}  PROVE SessionInv(q)'
  <2>1. q \in Active => session[q].conn \in Conns  BY DEF PoolIInv, SessionInv
  <2>2. session[q].conn \in Held'  BY <1>5 DEF Held, Same
  <2>3. q \in Active => Lasts(session[q].conn)  BY <1>5, <2>1, <2>2 DEF Lasts, Alive
  <2>4. session[q].stage # "callback"  BY <1>1, <1>2 DEF PoolIInv, SessionInv
  <2>5. QED  BY <1>5, <2>3, <2>4, OthersSession
<1>12. CallInv'  BY <1>5 DEF CallInv
<1>13. ASSUME NEW d \in Conns  PROVE ConnInv(d)'
  <2>1. ConnInv(d)  BY DEF PoolIInv
  <2>2. CASE Alive(d)
    <3>1. conn'[d] = conn[d] /\ net'[d] = net[d]  BY <1>5, <2>2
    <3>2. d \in pool' => d \in pool /\ (m.ec => d # c)  BY <1>5
    <3>3. d \in Held /\ d # c => d \in Held'
      <4> HAVE d \in Held /\ d # c
      <4>1. PICK q \in Requests : session[q].conn = d  BY DEF Held
      <4>2. q # r  BY <1>3, <4>1
      <4>3. session'[q].conn = d  BY <1>5, <4>1, <4>2 DEF Same
      <4>4. QED  BY <4>3 DEF Held
    <3>4. ~conn[d].open /\ d \in pool' => d # c  BY <1>7, <3>2
    <3>5. QED  BY <1>5, <2>1, <2>2, <3>1, <3>2, <3>3, <3>4 DEF ConnInv, Alive
  <2>3. CASE ~Alive(d)
    <3>1. conn'[d] = NewConn /\ net'[d] = NoNet /\ d \notin pool'  BY <1>5, <2>3 DEF Alive
    <3>2. QED  BY <3>1 DEF ConnInv, NewConn
  <2>4. QED  BY <2>2, <2>3
<1>14. QED  BY <1>10, <1>11, <1>12, <1>13 DEF PoolRest

\* A handler throws.
LEMMA ThrowsPool ==
    ASSUME PoolIInv, NEW r \in Requests, Throws(r)
    PROVE  PoolRest'
<1>1. PICK t : t = session'[r]  OBVIOUS
<1>2. PICK s \in Session, c \in Conns : s = session[r] /\ c = s.conn
  <2>1. session[r].stage \notin {"idle", "done"}  BY DEF Throws, Active
  <2>2. QED  BY <2>1, OwnFacts
<1>3. /\ calling = None /\ calling' = None /\ ~running'
      /\ t = [NewSession EXCEPT !.stage = "done"]
      /\ \A q \in Requests \ {r} : Same(q)
      /\ \A d \in Conns : d # c => conn'[d] = IF Alive(d) THEN conn[d] ELSE NewConn
      /\ IF Alive(c) THEN /\ conn'[c].open = conn[c].open /\ conn'[c].shut = conn[c].shut
                          /\ conn'[c].stream = conn[c].stream
         ELSE conn'[c] = NewConn
  BY <1>1, <1>2 DEF Throws
<1>4. SessionInv(r)'
  <2>1. t.stage = "done" /\ t.conn = None /\ t.head = None /\ ~t.cut
    BY <1>3, DoneFacts
  <2>2. r \notin Active'  BY <1>1, <2>1 DEF Active
  <2>3. QED  BY <1>1, <2>1, <2>2, StageFacts DEF SessionInv
<1>5. ASSUME NEW q \in Requests \ {r}  PROVE SessionInv(q)'
  <2>1. q \in Active => session[q].conn \in Conns  BY DEF PoolIInv, SessionInv
  <2>2. session[q].conn \in Held'  BY <1>3 DEF Held, Same
  <2>3. q \in Active => Lasts(session[q].conn)  BY <1>3, <2>1, <2>2 DEF Lasts, Alive
  <2>4. QED  BY <1>3, <2>3, OthersSession
<1>6. CallInv'  BY <1>3 DEF CallInv
<1>7. ASSUME NEW d \in Conns  PROVE ConnInv(d)'
  <2>1. ConnInv(d)  BY DEF PoolIInv
  <2>2. ~NewConn.stream  BY DEF NewConn
  <2>3. ~Alive(d) => conn'[d] = NewConn  BY <1>3
  <2>4. ~conn'[d].open => ~conn'[d].stream  BY <1>3, <2>1, <2>2 DEF ConnInv
  <2>5. QED  BY <1>3, <2>3, <2>4 DEF ConnInv, Alive
<1>8. QED  BY <1>4, <1>5, <1>6, <1>7 DEF PoolRest

\* The first half of the invariant is inductive.
LEMMA PoolIInvStep ==
    ASSUME PoolIInv, [Next]_vars
    PROVE  PoolIInv'
<1>1. CASE Outcome
  <2>1. PoolRest'
    BY <1>1, AsksPool, GoesPool, CallsBackPool, RetriesPool, ChangesPool, PrunesPool, ThrowsPool
    DEF Outcome, OfAKind
  <2>2. QED  BY <1>1, <2>1 DEF Outcome, PoolRest, PoolIInv
<1>2. CASE UNCHANGED vars
  BY <1>2 DEF vars, PoolIInv, Types, CallInv, SessionInv, ConnInv, NetInv, Held, Active
<1>3. QED  BY <1>1, <1>2, EveryStep

-----------------------------------------------------------------------------
(* Steps keep connections apart, and what each request has done and said.  *)

\* A request at work uses its connection.
LEMMA WorkFacts ==
    ASSUME PoolIInv, NEW q \in Requests, session[q].stage \notin {"idle", "done", "callback"}
    PROVE  Uses(q) /\ session[q].conn \in Conns /\ session[q].conn \in Held
<1>1. q \in Active /\ session[q].conn \in Conns /\ session[q].conn \in Held  BY OwnFacts
<1>2. ~Ending(q)  BY DEF PoolIInv, CallInv, Ending
<1>3. QED  BY <1>1, <1>2 DEF Uses

\* The connection of a second attempt, or one taken idle, has no other user.
LEMMA AloneFacts ==
    ASSUME PoolIInv, UseIInv, NEW q \in Requests, session[q].stage \in Beginning,
           ~conn[session[q].conn].again \/ session[q].from = "idle"
    PROVE  /\ conn[session[q].conn].inUse /\ ~conn[session[q].conn].stream
           /\ \A p \in Requests : p # q /\ Uses(p) => session[p].conn # session[q].conn
<1>1. Uses(q)  BY WorkFacts, StageFacts
<1>2. ~conn[session[q].conn].stream  BY DEF UseIInv, AttemptInv, IdleTakenInv
<1>3. QED  BY <1>1, <1>2 DEF UseIInv, SharingInv

\* The steps of others.
LEMMA OthersUse ==
    ASSUME PoolIInv, UseIInv, NEW q \in Requests, Same(q), running' => running,
           session[q].stage = "callback" => calling' = calling,
           session[q].stage \in Beginning =>
               /\ conn'[session[q].conn].again = conn[session[q].conn].again
               /\ ~conn[session[q].conn].again \/ session[q].from = "idle" =>
                      ~conn'[session[q].conn].stream,
           session[q].stage \in Beginning /\ session[q].from = "idle" =>
               /\ \A p \in Requests : p # q => session'[p].conn # session[q].conn
               /\ running' => session[q].conn \in pool' \/ conn'[session[q].conn].shut
    PROVE  AttemptInv(q)' /\ IdleTakenInv(q)' /\ SendsInv(q)' /\ TalkInv(q)'
<1>1. PICK s : s = session[q] /\ session'[q] = s  BY DEF Same
<1>2. sends'[q] = sends[q] /\ calls'[q] = calls[q]  BY DEF Same
<1>3. AttemptInv(q) /\ IdleTakenInv(q) /\ SendsInv(q) /\ TalkInv(q)  BY DEF UseIInv
<1>4. AttemptInv(q)'  BY <1>1, <1>3 DEF AttemptInv
<1>5. IdleTakenInv(q)'  BY <1>1, <1>3 DEF IdleTakenInv
<1>6. SendsInv(q)'
  <2>1. s.stage \in Connecting \/ s.stage \in {"write", "read"} => s.stage \in Beginning
    BY StageFacts
  <2>2. PICK a : a = conn[s.conn].again /\ (s.stage \in Beginning => conn'[s.conn].again = a)
    BY <1>1
  <2>3. QED  BY <1>1, <1>2, <1>3, <2>1, <2>2 DEF SendsInv
<1>7. TalkInv(q)'
  <2>1. TalkInv(q)  BY <1>3
  <2>2. s.stage = "callback" => calling' = calling  BY <1>1
  <2>3. PICK told : told = calls[q] /\ calls'[q] = told  BY <1>2
  <2>4. /\ s.stage \in {"idle"} \cup Beginning => told = <<>>
        /\ s.stage \in Receiving => InParts(told)
        /\ s.stage = "events" => Opened(told)
    BY <1>1, <2>1, <2>3 DEF TalkInv
  <2>5. s.stage = "callback" =>
          IF calling.next = "events"
          THEN IF calling.end THEN told = <<>> ELSE Opened(told)
          ELSE InParts(told) \/ (calling.ec /\ Opened(told))
    BY <1>1, <2>1, <2>3 DEF TalkInv
  <2>6. s.stage = "callback" =>
          IF calling'.next = "events"
          THEN IF calling'.end THEN told = <<>> ELSE Opened(told)
          ELSE InParts(told) \/ (calling'.ec /\ Opened(told))
    BY <2>2, <2>5
  <2>7. s.stage = "done" =>
          /\ \A i \in 1..(Len(told) - 1) :
                /\ told[i] # "error"
                /\ told[i] = "end" => i = 1 /\ told[Len(told)] # "end"
          /\ running => told # <<>> /\ told[Len(told)] # "part"
    BY <1>1, <2>1, <2>3 DEF TalkInv
  <2>8. QED  BY <1>1, <2>3, <2>4, <2>6, <2>7 DEF TalkInv, InParts, Opened
<1>8. QED  BY <1>4, <1>5, <1>6, <1>7

\* Who uses what, for a request that does not move.
LEMMA SameUses ==
    ASSUME NEW q \in Requests, session'[q] = session[q],
           calling' = calling \/
               /\ calling # None => calling.req # q
               /\ calling' # None => calling'.req # q
    PROVE  (Uses(q)' <=> Uses(q)) /\ (Streams(q)' <=> Streams(q)) /\ (Reads(q)' <=> Reads(q))
BY DEF Uses, Ending, Streams, Reads, Active

\* A request gets its connection.
LEMMA AsksUse ==
    ASSUME PoolIInv, UseIInv, FailsForCause, NEW r \in Requests, NEW c \in Conns, Asks(r, c)
    PROVE  UseIInv' /\ FailsForCause'
<1>1. PICK t : t = session'[r]  OBVIOUS
<1>2. /\ running /\ session[r].stage = "idle"
      /\ (c \in pool /\ ~conn[c].inUse) \/ c \notin pool \cup Held
      /\ pool' = pool \cup {c}
      /\ t.stage = (IF conn[c].open THEN "write" ELSE "resolve")
      /\ t.from = (IF c \notin pool THEN "own" ELSE IF c \in Held THEN "released" ELSE "idle")
      /\ t.conn = c /\ t.head = None
      /\ \A q \in Requests \ {r} : Same(q)
      /\ calls'[r] = calls[r]
      /\ sends'[r] = (IF t.stage = "write" THEN sends[r] + 1 ELSE sends[r])
      /\ conn'[c].inUse /\ conn'[c].again /\ conn'[c].shut = conn[c].shut
      /\ conn'[c].stream = conn[c].stream
      /\ \A d \in Conns : d # c => conn'[d] = conn[d]
      /\ calling' = calling /\ running' = running
  BY <1>1 DEF Asks
<1>3. t.stage \in {"write", "resolve"}  BY <1>2
<1>4. session[r].conn = None /\ None \notin Conns /\ r \notin Active
  BY <1>2, ClientAssumption DEF PoolIInv, SessionInv, Active, ClientAssumption
<1>5. calling # None => calling.req # r
  BY <1>2 DEF PoolIInv, CallInv
<1>6. \A q \in Requests \ {r} :
         /\ session'[q] = session[q]
         /\ (Uses(q)' <=> Uses(q)) /\ (Streams(q)' <=> Streams(q)) /\ (Reads(q)' <=> Reads(q))
  BY <1>2, SameUses DEF Same
<1>7. ~Uses(r) /\ Uses(r)' /\ ~Streams(r)' /\ ~Reads(r)
  BY <1>1, <1>2, <1>3, <1>4, <1>5 DEF Uses, Ending, Streams, Reads, Active
<1>8. c \notin pool \cup Held => ~conn[c].stream /\ \A q \in Requests : session[q].conn # c
  BY DEF PoolIInv, ConnInv, NewConn, Held
<1>9. pool \subseteq Conns  BY DEF PoolIInv, Types
<1>10. IdleInv'
  BY <1>2, <1>9 DEF UseIInv, IdleInv
<1>11. SharingInv'
  <2>1. \A q \in Requests : Streams(q)' => conn'[session'[q].conn].stream
    <3> TAKE q \in Requests
    <3>1. CASE q = r  BY <1>7, <3>1
    <3>2. CASE q # r
      <4>1. Streams(q) => q \in Active  BY DEF Streams, Active, PoolIInv, CallInv
      <4>2. q \in Active => session[q].conn \in Conns  BY DEF PoolIInv, SessionInv
      <4>3. QED  BY <1>2, <1>6, <3>2, <4>1, <4>2 DEF UseIInv, SharingInv
    <3>3. QED  BY <3>1, <3>2
  <2>2. \A q \in Requests : Uses(q)' => conn'[session'[q].conn].inUse \/ conn'[session'[q].conn].stream
    <3> TAKE q \in Requests
    <3>1. CASE q = r  BY <1>1, <1>2, <3>1
    <3>2. CASE q # r
      <4>1. Uses(q) => session[q].conn \in Conns  BY DEF PoolIInv, SessionInv, Uses
      <4>2. QED  BY <1>2, <1>6, <3>2, <4>1 DEF UseIInv, SharingInv
    <3>3. QED  BY <3>1, <3>2
  <2>3. ASSUME NEW q \in Requests, q # r, Uses(q), session[q].conn = c
        PROVE  conn'[c].stream
    BY <1>2, <1>8, <2>3 DEF UseIInv, SharingInv
  <2>4. \A p, q \in Requests :
           Uses(p)' /\ Uses(q)' /\ p # q /\ session'[p].conn = session'[q].conn =>
               conn'[session'[q].conn].stream
    <3> TAKE p, q \in Requests
    <3> HAVE Uses(p)' /\ Uses(q)' /\ p # q /\ session'[p].conn = session'[q].conn
    <3>1. CASE p = r  BY <1>1, <1>2, <1>6, <2>3, <3>1
    <3>2. CASE q = r  BY <1>1, <1>2, <1>6, <2>3, <3>2
    <3>3. CASE p # r /\ q # r
      <4>1. Uses(q) => session[q].conn \in Conns  BY DEF PoolIInv, SessionInv, Uses
      <4>2. QED  BY <1>2, <1>6, <3>3, <4>1 DEF UseIInv, SharingInv
    <3>4. QED  BY <3>1, <3>2, <3>3
  <2>5. \A d \in pool' : running' /\ conn'[d].inUse =>
           \E q \in Requests : Uses(q)' /\ session'[q].conn = d
    <3> TAKE d \in pool'
    <3> HAVE running' /\ conn'[d].inUse
    <3>1. CASE d = c  BY <1>1, <1>2, <1>7, <3>1
    <3>2. CASE d # c
      <4>1. d \in pool /\ conn[d].inUse  BY <1>2, <1>9, <3>2
      <4>2. PICK q \in Requests : Uses(q) /\ session[q].conn = d
        BY <1>2, <4>1 DEF UseIInv, SharingInv
      <4>3. q # r  BY <1>7, <4>2
      <4>4. QED  BY <1>6, <4>2, <4>3
    <3>3. QED  BY <3>1, <3>2
  <2>6. QED  BY <2>1, <2>2, <2>4, <2>5 DEF SharingInv
<1>12. StreamInv'
  <2> SUFFICES ASSUME NEW d \in pool', conn'[d].stream
               PROVE  \E q \in Requests : session'[q].conn = d /\ Reads(q)'
    BY DEF StreamInv
  <2>1. d \in pool /\ conn[d].stream  BY <1>2, <1>8, <1>9
  <2>2. PICK q \in Requests : session[q].conn = d /\ Reads(q)
    BY <1>2, <2>1 DEF UseIInv, StreamInv
  <2>3. q # r  BY <1>7, <2>2
  <2>4. QED  BY <1>6, <2>2, <2>3
<1>13. ASSUME NEW q \in Requests \ {r}
       PROVE  AttemptInv(q)' /\ IdleTakenInv(q)' /\ SendsInv(q)' /\ TalkInv(q)'
  <2>1. CASE session[q].stage \in Beginning
    <3>1. Uses(q) /\ session[q].conn \in Conns /\ session[q].conn \in Held
      BY <2>1, WorkFacts, StageFacts
    <3>2. ~conn[session[q].conn].again \/ session[q].from = "idle" => session[q].conn # c
      BY <1>2, <2>1, <3>1, AloneFacts
    <3>3. conn[session[q].conn] \in Connection  BY <3>1 DEF PoolIInv, Types
    <3>4. conn'[session[q].conn].again = conn[session[q].conn].again
      BY <1>2, <3>1, <3>2, <3>3 DEF PoolIInv, Types, Connection
    <3>5. ~conn[session[q].conn].again \/ session[q].from = "idle" =>
             ~conn'[session[q].conn].stream
      BY <1>2, <2>1, <3>1, <3>2, AloneFacts
    <3>6. session[q].from = "idle" =>
             /\ \A p \in Requests : p # q => session'[p].conn # session[q].conn
             /\ running' => session[q].conn \in pool' \/ conn'[session[q].conn].shut
      <4> HAVE session[q].from = "idle"
      <4>1. IdleTakenInv(q)  BY DEF UseIInv
      <4>2. QED  BY <1>1, <1>2, <1>6, <2>1, <3>1, <3>2, <4>1 DEF IdleTakenInv
    <3>7. Same(q) /\ calling' = calling /\ (running' => running)  BY <1>2
    <3>8. QED  BY <3>4, <3>5, <3>6, <3>7, OthersUse
  <2>2. CASE session[q].stage \notin Beginning  BY <1>2, <2>2, OthersUse
  <2>3. QED  BY <2>1, <2>2
<1>14. AttemptInv(r)'  BY <1>1, <1>2 DEF AttemptInv
<1>15. IdleTakenInv(r)'
  <2>1. CASE t.from = "idle"
    <3>1. c \in pool /\ c \notin Held  BY <1>2, <2>1
    <3>2. conn[c].open  BY <1>2, <3>1 DEF PoolIInv, ConnInv
    <3>3. ~conn[c].stream
      <4>1. conn[c].stream => \E q \in Requests : session[q].conn = c
        BY <1>2, <3>1 DEF UseIInv, StreamInv
      <4>2. QED  BY <3>1, <4>1 DEF Held
    <3>4. \A q \in Requests : q # r => session'[q].conn # c  BY <1>6, <3>1 DEF Held
    <3>5. QED  BY <1>1, <1>2, <3>2, <3>3, <3>4 DEF IdleTakenInv
  <2>2. CASE t.from # "idle"  BY <1>1, <2>2 DEF IdleTakenInv
  <2>3. QED  BY <2>1, <2>2
<1>16. SendsInv(r)'
  <2>1. sends[r] = 0  BY <1>2 DEF UseIInv, SendsInv
  <2>2. t.stage = "resolve" => sends'[r] = 0  BY <1>2, <2>1
  <2>3. t.stage = "write" => sends'[r] = 1  BY <1>2, <2>1
  <2>4. QED  BY <1>1, <1>3, <2>2, <2>3, StageFacts DEF SendsInv
<1>17. TalkInv(r)'
  <2>1. calls[r] = <<>>  BY <1>2 DEF UseIInv, TalkInv
  <2>2. QED  BY <1>1, <1>2, <1>3, <2>1, StageFacts DEF TalkInv
<1>18. FailsForCause'
  <2> SUFFICES ASSUME calling # None, calling.ec
               PROVE  LET s == session'[calling.req]
                      IN  s.from \in {"own", "released"} \/ s.head # None \/ conn'[s.conn].shut
    BY <1>2 DEF FailsForCause
  <2>1. calling.req \in Requests \ {r}  BY <1>5 DEF PoolIInv, Types, CallbackArgs
  <2>2. session[calling.req].conn \in Conns
    BY <2>1, OwnFacts DEF PoolIInv, CallInv
  <2>3. conn'[session[calling.req].conn].shut = conn[session[calling.req].conn].shut
    BY <1>2, <2>2
  <2>4. QED  BY <1>6, <2>1, <2>3 DEF FailsForCause
<1>19. QED
  <2>1. \A q \in Requests : AttemptInv(q)' /\ IdleTakenInv(q)' /\ SendsInv(q)' /\ TalkInv(q)'
    BY <1>13, <1>14, <1>15, <1>16, <1>17
  <2>2. QED  BY <1>10, <1>11, <1>12, <1>18, <2>1 DEF UseIInv

\* Steps that leave requests with their connections and their use of them.
LEMMA SameSharing ==
    ASSUME PoolIInv, UseIInv, pool' \subseteq pool, calling' = calling, running' = running,
           \A q \in Requests : /\ session'[q].conn = session[q].conn
                               /\ Uses(q)' <=> Uses(q)
                               /\ Streams(q)' <=> Streams(q)
                               /\ Reads(q)' <=> Reads(q),
           \A d \in Conns : Alive(d) =>
               conn'[d].inUse = conn[d].inUse /\ conn'[d].stream = conn[d].stream
    PROVE  IdleInv' /\ SharingInv' /\ StreamInv'
<1>1. pool \subseteq Conns  BY DEF PoolIInv, Types
<1>2. \A d \in pool' : conn'[d].inUse = conn[d].inUse /\ conn'[d].stream = conn[d].stream
  BY <1>1 DEF Alive
<1>3. \A q \in Requests : Uses(q) \/ Streams(q) =>
         /\ conn'[session[q].conn].inUse = conn[session[q].conn].inUse
         /\ conn'[session[q].conn].stream = conn[session[q].conn].stream
  <2> TAKE q \in Requests
  <2> HAVE Uses(q) \/ Streams(q)
  <2>1. q \in Active  BY DEF Uses, Streams, Active, PoolIInv, CallInv
  <2>2. session[q].conn \in Conns  BY <2>1 DEF PoolIInv, SessionInv
  <2>3. session[q].conn \in Held'  BY DEF Held
  <2>4. QED  BY <2>2, <2>3 DEF Alive
<1>4. IdleInv'  BY <1>2 DEF UseIInv, IdleInv
<1>5. SharingInv'
  <2>1. \A q \in Requests : Streams(q)' => conn'[session'[q].conn].stream
    BY <1>3 DEF UseIInv, SharingInv
  <2>2. \A q \in Requests : Uses(q)' => conn'[session'[q].conn].inUse \/ conn'[session'[q].conn].stream
    BY <1>3 DEF UseIInv, SharingInv
  <2>3. \A p, q \in Requests :
           Uses(p)' /\ Uses(q)' /\ p # q /\ session'[p].conn = session'[q].conn =>
               conn'[session'[q].conn].stream
    BY <1>3 DEF UseIInv, SharingInv
  <2>4. \A d \in pool' : running' /\ conn'[d].inUse =>
           \E q \in Requests : Uses(q)' /\ session'[q].conn = d
    BY <1>2 DEF UseIInv, SharingInv
  <2>5. QED  BY <2>1, <2>2, <2>3, <2>4 DEF SharingInv
<1>6. StreamInv'
  <2> SUFFICES ASSUME NEW d \in pool', running', conn'[d].stream
               PROVE  \E q \in Requests : session'[q].conn = d /\ Reads(q)'
    BY DEF StreamInv
  <2>1. PICK q \in Requests : session[q].conn = d /\ Reads(q)
    BY <1>2 DEF UseIInv, StreamInv
  <2>2. QED  BY <2>1
<1>7. QED  BY <1>4, <1>5, <1>6

\* A request goes on.
LEMMA GoesUse ==
    ASSUME PoolIInv, UseIInv, FailsForCause, PoolIInv', NEW r \in Requests, Goes(r)
    PROVE  UseIInv' /\ FailsForCause'
<1>0. PICK t : t = session'[r]  OBVIOUS
<1>1. PICK s \in Session, c \in Conns : t = session'[r] /\ s = session[r] /\ c = s.conn
  <2>1. session[r].stage \notin {"idle", "done"}  BY DEF Goes, Active
  <2>2. QED  BY <1>0, <2>1, OwnFacts
<1>2. /\ calling = None /\ r \in Active
      /\ \/ s.stage \in Connecting /\ t.stage = After(s.stage)
         \/ s.stage = "write" /\ t.stage = "read"
         \/ s.stage = "read" /\ t.stage \in Receiving
         \/ s.stage \in Receiving /\ t.stage \in Receiving
      /\ t.conn = c /\ t.from = s.from
      /\ t.stage \in Beginning => conn'[c].again = conn[c].again
      /\ \A q \in Requests \ {r} : Same(q)
      /\ calls'[r] = calls[r]
      /\ sends'[r] = (IF t.stage = "write" THEN sends[r] + 1 ELSE sends[r])
      /\ conn'[c].inUse = conn[c].inUse /\ conn'[c].shut = conn[c].shut
      /\ conn'[c].stream = conn[c].stream
      /\ conn[c].again => conn'[c].again
      /\ \A d \in Conns : d # c => conn'[d] = conn[d]
      /\ pool' = pool /\ calling' = calling /\ running' = running
  BY <1>1 DEF Goes
<1>3. /\ s.stage \in Beginning \cup Receiving /\ t.stage \in Beginning \cup Receiving
      /\ t.stage \in Beginning => s.stage \in Beginning
  BY <1>2, ConnectingFacts, StageFacts
<1>4. s.stage \notin {"idle", "done", "callback", "events"}
      /\ t.stage \notin {"idle", "done", "callback", "events"}
  BY <1>3, StageFacts
<1>5. \A q \in Requests : /\ session'[q].conn = session[q].conn
                          /\ Uses(q)' <=> Uses(q)
                          /\ Streams(q)' <=> Streams(q)
                          /\ Reads(q)' <=> Reads(q)
  <2> TAKE q \in Requests
  <2>1. CASE q = r
    BY <1>1, <1>2, <1>4, <2>1 DEF Uses, Ending, Streams, Reads, Active
  <2>2. CASE q # r  BY <1>2, <2>2, SameUses DEF Same
  <2>3. QED  BY <2>1, <2>2
<1>6. IdleInv' /\ SharingInv' /\ StreamInv'
  <2>1. pool' \subseteq pool
        /\ \A d \in Conns : conn'[d].inUse = conn[d].inUse /\ conn'[d].stream = conn[d].stream
    BY <1>2
  <2>2. QED  BY <1>2, <1>5, <2>1, SameSharing
<1>7. Uses(r)  BY <1>1, <1>4, WorkFacts
<1>8. ASSUME NEW q \in Requests \ {r}
      PROVE  AttemptInv(q)' /\ IdleTakenInv(q)' /\ SendsInv(q)' /\ TalkInv(q)'
  <2>1. Same(q) /\ (running' => running)  BY <1>2
  <2>2. CASE session[q].stage \in Beginning
    <3>1. session[q].conn \in Conns  BY <2>2, WorkFacts, StageFacts
    <3>2. conn[session[q].conn].again \in BOOLEAN /\ conn'[session[q].conn].again \in BOOLEAN
      BY <3>1 DEF PoolIInv, Types, Connection
    <3>3. ~conn[session[q].conn].again \/ session[q].from = "idle" =>
             session[q].conn # c /\ ~conn[session[q].conn].stream
      BY <1>1, <1>7, <2>2, AloneFacts
    <3>4. conn'[session[q].conn].again = conn[session[q].conn].again
      BY <1>2, <3>1, <3>2, <3>3
    <3>5. ~conn[session[q].conn].again \/ session[q].from = "idle" =>
             ~conn'[session[q].conn].stream
      BY <1>2, <3>1, <3>3
    <3>6. session[q].from = "idle" =>
             /\ \A p \in Requests : p # q => session'[p].conn # session[q].conn
             /\ running' => session[q].conn \in pool' \/ conn'[session[q].conn].shut
      <4> HAVE session[q].from = "idle"
      <4>1. IdleTakenInv(q)  BY DEF UseIInv
      <4>2. QED  BY <1>2, <1>5, <2>2, <3>1, <3>3, <4>1 DEF IdleTakenInv
    <3>7. QED  BY <1>2, <2>1, <3>4, <3>5, <3>6, OthersUse
  <2>3. CASE session[q].stage \notin Beginning  BY <1>2, <2>1, <2>3, OthersUse
  <2>4. QED  BY <2>2, <2>3
<1>9. AttemptInv(r)'
  <2>1. AttemptInv(r)  BY DEF UseIInv
  <2>2. QED  BY <1>1, <1>2, <1>3, <2>1 DEF AttemptInv
<1>10. IdleTakenInv(r)'
  <2>1. IdleTakenInv(r)  BY DEF UseIInv
  <2>2. s.stage \in {"write", "read"} /\ t.stage \in Beginning => t.stage = "read"
    BY <1>2, StageFacts
  <2>3. t.stage \in Beginning /\ t.from = "idle" => t.stage = "read" /\ s.stage \in Beginning
    BY <1>1, <1>2, <1>3, <2>1, <2>2 DEF IdleTakenInv
  <2>4. QED  BY <1>1, <1>2, <1>5, <2>1, <2>3 DEF IdleTakenInv
<1>11. SendsInv(r)'
  <2>1. SendsInv(r) /\ sends[r] \in Nat  BY DEF UseIInv, PoolIInv, Types
  <2>2. PICK n, a : n \in Nat /\ n = sends[r] /\ a = conn[c].again  BY <2>1
  <2>3. /\ s.stage \in Connecting => n = 0 \/ (~a /\ n <= 1)
        /\ s.stage \in {"write", "read"} => n <= 1 \/ ~a
        /\ n <= 2
    BY <1>1, <2>1, <2>2 DEF SendsInv
  <2>4. t.stage \in Beginning => conn'[c].again = a  BY <1>2, <2>2
  <2>5. CASE s.stage \in Connecting /\ t.stage = "write"
    <3>1. sends'[r] = n + 1 /\ (n + 1 <= 1 \/ ~a) /\ n + 1 <= 2  BY <1>2, <2>2, <2>3, <2>5
    <3>2. QED  BY <1>1, <1>2, <2>4, <2>5, <3>1, StageFacts DEF SendsInv
  <2>6. CASE s.stage \in Connecting /\ t.stage \in Connecting
    <3>1. sends'[r] = n  BY <1>2, <2>2, <2>6, StageFacts
    <3>2. QED  BY <1>1, <1>2, <2>3, <2>4, <2>6, <3>1, StageFacts DEF SendsInv
  <2>7. CASE s.stage = "write" /\ t.stage = "read"
    <3>1. sends'[r] = n  BY <1>2, <2>2, <2>7
    <3>2. QED  BY <1>1, <1>2, <2>3, <2>4, <2>7, <3>1, StageFacts DEF SendsInv
  <2>8. CASE t.stage \in Receiving
    <3>1. sends'[r] = n  BY <1>2, <2>2, <2>8, StageFacts
    <3>2. QED  BY <1>1, <1>2, <2>3, <2>8, <3>1, StageFacts DEF SendsInv
  <2>9. QED  BY <1>2, <2>5, <2>6, <2>7, <2>8, ConnectingFacts
<1>12. TalkInv(r)'
  <2>1. TalkInv(r)  BY DEF UseIInv
  <2>2. t.stage \in Beginning => calls[r] = <<>>  BY <1>1, <1>3, <2>1 DEF TalkInv
  <2>3. t.stage \in Receiving => InParts(calls[r])
    <3>1. s.stage \in Beginning => InParts(calls[r])  BY <1>1, <2>1 DEF TalkInv, InParts
    <3>2. QED  BY <1>1, <1>3, <2>1, <3>1 DEF TalkInv
  <2>4. calls'[r] = calls[r]  BY <1>2
  <2>5. QED  BY <1>1, <1>3, <1>4, <2>2, <2>3, <2>4 DEF TalkInv, InParts
<1>13. FailsForCause'  BY <1>2 DEF FailsForCause
<1>14. QED
  <2>1. \A q \in Requests : AttemptInv(q)' /\ IdleTakenInv(q)' /\ SendsInv(q)' /\ TalkInv(q)'
    BY <1>8, <1>9, <1>10, <1>11, <1>12
  <2>2. QED  BY <1>6, <1>13, <2>1 DEF UseIInv

\* Devices, timers and stop.
LEMMA ChangesUse ==
    ASSUME PoolIInv, UseIInv, FailsForCause, PoolIInv', Changes
    PROVE  UseIInv' /\ FailsForCause'
<1>1. /\ \A q \in Requests :
           /\ session'[q].stage = session[q].stage /\ session'[q].conn = session[q].conn
           /\ session'[q].head = session[q].head /\ session'[q].from = session[q].from
      /\ pool' = pool \/ (pool' = {} /\ \A c \in pool : conn[c].open /\ Alive(c) => conn'[c].shut)
      /\ \A c \in Conns : Alive(c) =>
            /\ conn'[c].inUse = conn[c].inUse /\ conn'[c].again = conn[c].again
            /\ conn'[c].stream = conn[c].stream /\ (conn[c].shut => conn'[c].shut)
      /\ calling' = calling /\ running' = running /\ calls' = calls /\ sends' = sends
  BY DEF Changes
<1>2. \A q \in Requests : (Uses(q)' <=> Uses(q)) /\ (Streams(q)' <=> Streams(q))
                          /\ (Reads(q)' <=> Reads(q))
  BY <1>1 DEF Uses, Ending, Streams, Reads, Active
<1>3. IdleInv' /\ SharingInv' /\ StreamInv'
  <2>1. pool' \subseteq pool  BY <1>1
  <2>2. QED  BY <1>1, <1>2, <2>1, SameSharing
<1>4. \A q \in Requests : session[q].stage \notin {"idle", "done"} =>
         session[q].conn \in Conns /\ Alive(session[q].conn)
  <2> TAKE q \in Requests
  <2> HAVE session[q].stage \notin {"idle", "done"}
  <2>1. session[q].conn \in Conns  BY OwnFacts
  <2>2. session'[q].conn \in Held'  BY DEF Held
  <2>3. QED  BY <1>1, <2>1, <2>2 DEF Alive
<1>5. ASSUME NEW q \in Requests
      PROVE  AttemptInv(q)' /\ IdleTakenInv(q)' /\ SendsInv(q)' /\ TalkInv(q)'
  <2>1. PICK s : s = session[q]  OBVIOUS
  <2>2. PICK t : t = session'[q]  OBVIOUS
  <2>3. t.stage = s.stage /\ t.conn = s.conn /\ t.from = s.from
    BY <1>1, <2>1, <2>2
  <2>4. s.stage \in Beginning => s.conn \in Conns /\ Alive(s.conn)
    BY <1>4, <2>1, StageFacts
  <2>5. s.stage \in Beginning =>
           /\ conn'[s.conn].again = conn[s.conn].again /\ conn'[s.conn].stream = conn[s.conn].stream
           /\ conn[s.conn].shut => conn'[s.conn].shut
    BY <1>1, <2>4
  <2>6. AttemptInv(q)'
    <3>1. AttemptInv(q)  BY DEF UseIInv
    <3>2. QED  BY <2>1, <2>2, <2>3, <2>5, <3>1 DEF AttemptInv
  <2>7. IdleTakenInv(q)'
    <3>1. IdleTakenInv(q)  BY DEF UseIInv
    <3>2. s.stage \in {"write", "read"} => conn[s.conn].open
      BY <2>1, StageFacts DEF PoolIInv, SessionInv
    <3>3. s.stage \in Beginning /\ s.from = "idle" /\ running' =>
             s.conn \in pool' \/ conn'[s.conn].shut
      BY <1>1, <2>1, <2>4, <2>5, <3>1, <3>2 DEF IdleTakenInv
    <3>4. \A p \in Requests : session'[p].conn = session[p].conn  BY <1>1
    <3>5. QED  BY <2>1, <2>2, <2>3, <2>5, <3>1, <3>3, <3>4 DEF IdleTakenInv
  <2>8. SendsInv(q)'
    <3>1. SendsInv(q) /\ sends'[q] = sends[q]  BY <1>1 DEF UseIInv
    <3>2. s.stage \in Connecting \/ s.stage \in {"write", "read"} => s.stage \in Beginning
      BY StageFacts
    <3>3. PICK a : a = conn[s.conn].again /\ (s.stage \in Beginning => conn'[s.conn].again = a)
      BY <2>5
    <3>4. QED  BY <2>1, <2>2, <2>3, <3>1, <3>2, <3>3 DEF SendsInv
  <2>9. TalkInv(q)'
    <3>1. TalkInv(q)  BY DEF UseIInv
    <3>2. PICK told, m, run : /\ told = calls[q] /\ m = calling /\ run = running
                              /\ calls'[q] = told /\ calling' = m /\ running' = run
      BY <1>1
    <3>3. QED  BY <2>1, <2>2, <2>3, <3>1, <3>2 DEF TalkInv, InParts, Opened
  <2>10. QED  BY <2>6, <2>7, <2>8, <2>9
<1>6. FailsForCause'
  <2> SUFFICES ASSUME calling # None, calling.ec
               PROVE  LET s == session'[calling.req]
                      IN  s.from \in {"own", "released"} \/ s.head # None \/ conn'[s.conn].shut
    BY <1>1 DEF FailsForCause
  <2>1. calling.req \in Requests  BY DEF PoolIInv, Types, CallbackArgs
  <2>2. session[calling.req].stage \notin {"idle", "done"}  BY DEF PoolIInv, CallInv
  <2>3. conn[session[calling.req].conn].shut => conn'[session[calling.req].conn].shut
    BY <1>1, <1>4, <2>1, <2>2
  <2>4. QED  BY <1>1, <2>1, <2>3 DEF FailsForCause
<1>7. QED  BY <1>3, <1>5, <1>6 DEF UseIInv

\* A callback is called.
LEMMA CallsBackUse ==
    ASSUME PoolIInv, UseIInv, FailsForCause, PoolIInv', NEW r \in Requests, CallsBack(r)
    PROVE  UseIInv' /\ FailsForCause'
<1>0. PICK t : t = session'[r]  OBVIOUS
<1>1. PICK s \in Session, c \in Conns, m \in CallbackArgs :
         t = session'[r] /\ s = session[r] /\ c = s.conn /\ m = calling'
  <2>1. session[r].stage \notin {"idle", "done"} /\ calling' \in CallbackArgs
    BY DEF CallsBack, Active
  <2>2. QED  BY <1>0, <2>1, OwnFacts
<1>2. /\ running /\ calling = None /\ r \in Active
      /\ s.stage \in Beginning \cup Receiving \cup {"events"}
      /\ pool' = pool \/ pool' = pool \ {c}
      /\ t.stage = "callback" /\ t.conn = c /\ t.from = s.from
      /\ m.req = r
      /\ m.ec => m.end /\ m.next = "done"
      /\ m.next = "done" => m.end
      /\ m.end => m.next = "done" \/ (m.next = "events" /\ s.stage = "read")
      /\ ~m.end => \/ s.stage = "events" /\ m.next = "events"
                   \/ s.stage \in Receiving /\ m.next \in {"content", "rest", "data"}
      /\ ~m.ec /\ m.next = "done" => s.stage \in {"read"} \cup Receiving
      /\ m.ec => \/ t.head # None \/ conn[c].shut \/ s.stage \in Connecting
                 \/ s.stage \in {"write", "read"} /\ (~conn[c].again \/ c \notin pool)
      /\ \A q \in Requests \ {r} : Same(q)
      /\ calls'[r] = calls[r] /\ sends'[r] = sends[r]
      /\ conn'[c].inUse = (conn[c].inUse /\ ~m.end)
      /\ conn'[c].stream = (conn[c].stream \/ (m.end /\ m.next = "events"))
      /\ conn'[c].again = conn[c].again /\ conn'[c].shut = conn[c].shut
      /\ \A d \in Conns : d # c => conn'[d] = conn[d]
      /\ running' = running
  BY <1>1 DEF CallsBack
<1>3. m # None /\ m.end \in BOOLEAN /\ m.ec \in BOOLEAN
  BY <1>1, ClientAssumption DEF ClientAssumption, CallbackArgs
<1>4. s.stage \notin {"idle", "done", "callback"} /\ "callback" \notin Beginning \cup Receiving
  BY <1>2, StageFacts
<1>5. Uses(r)  BY <1>1, <1>4, WorkFacts
<1>6. /\ Uses(r)' <=> ~m.end
      /\ Streams(r)' <=> m.next = "events"
      /\ Reads(r)' <=> m.next = "events" \/ m.ec
  <2>1. r \in Active'  BY <1>1, <1>2 DEF Active
  <2>2. Uses(r)' <=> ~m.end  BY <1>1, <1>2, <1>3, <2>1 DEF Uses, Ending
  <2>3. Streams(r)' <=> m.next = "events"  BY <1>1, <1>2, <1>3 DEF Streams
  <2>4. QED  BY <1>1, <1>2, <1>3, <2>2, <2>3 DEF Reads
<1>7. \A q \in Requests \ {r} :
         /\ session'[q] = session[q]
         /\ (Uses(q)' <=> Uses(q)) /\ (Streams(q)' <=> Streams(q)) /\ (Reads(q)' <=> Reads(q))
  BY <1>1, <1>2, SameUses DEF Same
<1>8. \A q \in Requests : session'[q].conn = session[q].conn /\ (Uses(q)' => Uses(q))
  BY <1>1, <1>2, <1>5, <1>7
<1>9. \A d \in Conns : /\ conn[d].stream => conn'[d].stream
                       /\ conn'[d].again = conn[d].again /\ conn'[d].shut = conn[d].shut
  BY <1>2
<1>10. \A q \in Requests : Uses(q) \/ Streams(q) => session[q].conn \in Conns
  BY OwnFacts DEF PoolIInv, CallInv, Uses, Streams, Active
<1>11. pool \subseteq Conns /\ pool' \subseteq pool
  BY <1>2 DEF PoolIInv, Types
<1>12. IdleInv'  BY <1>1, <1>3 DEF IdleInv
<1>13. SharingInv'
  <2>1. \A q \in Requests : Streams(q)' => conn'[session'[q].conn].stream
    <3> TAKE q \in Requests
    <3>1. CASE q = r
      <4>1. ~m.end /\ m.next = "events" => Streams(r)
        BY <1>1, <1>2, StageFacts DEF Streams
      <4>2. ~m.end /\ m.next = "events" => conn[c].stream
        BY <1>1, <4>1 DEF UseIInv, SharingInv
      <4>3. QED  BY <1>1, <1>2, <1>3, <1>6, <3>1, <4>2
    <3>2. CASE q # r  BY <1>7, <1>9, <1>10, <3>2 DEF UseIInv, SharingInv
    <3>3. QED  BY <3>1, <3>2
  <2>2. \A q \in Requests : Uses(q)' => conn'[session'[q].conn].inUse \/ conn'[session'[q].conn].stream
    <3> TAKE q \in Requests
    <3> HAVE Uses(q)'
    <3>1. Uses(q) /\ session[q].conn \in Conns /\ session'[q].conn = session[q].conn
      BY <1>8, <1>10
    <3>2. conn[session[q].conn].inUse \/ conn[session[q].conn].stream
      BY <3>1 DEF UseIInv, SharingInv
    <3>3. CASE q = r
      <4>1. ~m.end  BY <1>6, <3>3
      <4>2. QED  BY <1>1, <1>2, <1>3, <3>1, <3>2, <3>3, <4>1
    <3>4. CASE q # r /\ session[q].conn = c
      BY <1>1, <1>5, <1>9, <3>1, <3>4 DEF UseIInv, SharingInv
    <3>5. CASE session[q].conn # c  BY <1>2, <3>1, <3>2, <3>5
    <3>6. QED  BY <3>3, <3>4, <3>5
  <2>3. \A p, q \in Requests :
           Uses(p)' /\ Uses(q)' /\ p # q /\ session'[p].conn = session'[q].conn =>
               conn'[session'[q].conn].stream
    <3> TAKE p, q \in Requests
    <3> HAVE Uses(p)' /\ Uses(q)' /\ p # q /\ session'[p].conn = session'[q].conn
    <3>1. Uses(p) /\ Uses(q) /\ session[p].conn = session[q].conn /\ session[q].conn \in Conns
      BY <1>8, <1>10
    <3>2. conn[session[q].conn].stream  BY <3>1 DEF UseIInv, SharingInv
    <3>3. QED  BY <1>8, <1>9, <3>1, <3>2
  <2>4. \A d \in pool' : running' /\ conn'[d].inUse =>
           \E q \in Requests : Uses(q)' /\ session'[q].conn = d
    <3> TAKE d \in pool'
    <3> HAVE running' /\ conn'[d].inUse
    <3>1. CASE d = c
      <4>1. Uses(r)'  BY <1>2, <1>6, <3>1
      <4>2. QED  BY <1>1, <1>2, <3>1, <4>1
    <3>2. CASE d # c
      <4>1. d \in pool /\ conn[d].inUse  BY <1>2, <1>11, <3>2
      <4>2. PICK q \in Requests : Uses(q) /\ session[q].conn = d
        BY <1>2, <4>1 DEF UseIInv, SharingInv
      <4>3. q # r  BY <1>1, <3>2, <4>2
      <4>4. QED  BY <1>7, <4>2, <4>3
    <3>3. QED  BY <3>1, <3>2
  <2>5. QED  BY <2>1, <2>2, <2>3, <2>4 DEF SharingInv
<1>14. StreamInv'
  <2> SUFFICES ASSUME NEW d \in pool', conn'[d].stream
               PROVE  \E q \in Requests : session'[q].conn = d /\ Reads(q)'
    BY DEF StreamInv
  <2>1. CASE d = c /\ m.end /\ m.next = "events"
    BY <1>1, <1>2, <1>6, <2>1
  <2>2. CASE ~(d = c /\ m.end /\ m.next = "events")
    <3>1. d \in pool /\ conn[d].stream  BY <1>2, <1>3, <1>11, <2>2
    <3>2. PICK q \in Requests : session[q].conn = d /\ Reads(q)
      BY <1>2, <3>1 DEF UseIInv, StreamInv
    <3>3. CASE q = r
      <4>1. s.stage = "events"  BY <1>1, <1>2, <3>2, <3>3 DEF Reads, Streams
      <4>2. m.next = "events" \/ m.ec  BY <1>2, <1>3, <4>1, StageFacts
      <4>3. QED  BY <1>6, <1>8, <3>2, <3>3, <4>2
    <3>4. CASE q # r  BY <1>7, <3>2, <3>4
    <3>5. QED  BY <3>3, <3>4
  <2>3. QED  BY <2>1, <2>2
<1>15. ASSUME NEW q \in Requests \ {r}
       PROVE  AttemptInv(q)' /\ IdleTakenInv(q)' /\ SendsInv(q)' /\ TalkInv(q)'
  <2>1. Same(q) /\ (running' => running)  BY <1>2
  <2>2. session[q].stage # "callback"  BY <1>2, FreeFacts
  <2>3. CASE session[q].stage \in Beginning
    <3>1. session[q].conn \in Conns  BY <2>3, WorkFacts, StageFacts
    <3>2. ~conn[session[q].conn].again \/ session[q].from = "idle" =>
             session[q].conn # c /\ ~conn[session[q].conn].stream
      BY <1>1, <1>5, <2>3, AloneFacts
    <3>3. ~conn[session[q].conn].again \/ session[q].from = "idle" =>
             ~conn'[session[q].conn].stream
      BY <1>2, <3>1, <3>2
    <3>4. session[q].from = "idle" =>
             /\ \A p \in Requests : p # q => session'[p].conn # session[q].conn
             /\ running' => session[q].conn \in pool' \/ conn'[session[q].conn].shut
      <4> HAVE session[q].from = "idle"
      <4>1. IdleTakenInv(q)  BY DEF UseIInv
      <4>2. QED  BY <1>2, <1>8, <1>9, <2>3, <3>1, <3>2, <4>1 DEF IdleTakenInv
    <3>5. QED  BY <1>9, <2>1, <2>2, <3>1, <3>3, <3>4, OthersUse
  <2>4. CASE session[q].stage \notin Beginning  BY <2>1, <2>2, <2>4, OthersUse
  <2>5. QED  BY <2>3, <2>4
<1>16. AttemptInv(r)' /\ IdleTakenInv(r)'
  BY <1>1, <1>2, <1>4 DEF AttemptInv, IdleTakenInv
<1>17. SendsInv(r)'
  <2>1. sends[r] <= 2  BY DEF UseIInv, SendsInv
  <2>2. QED  BY <1>1, <1>2, <1>4, <2>1, StageFacts DEF SendsInv
<1>18. TalkInv(r)'
  <2>1. TalkInv(r)  BY DEF UseIInv
  <2>2. PICK told : told = calls[r] /\ calls'[r] = told  BY <1>2
  <2>3. /\ s.stage \in Beginning => told = <<>>
        /\ s.stage \in Receiving => InParts(told)
        /\ s.stage = "events" => Opened(told)
    BY <1>1, <2>1, <2>2 DEF TalkInv
  <2>4. s.stage \in Beginning => InParts(told)  BY <2>3 DEF InParts
  <2>5. m.next = "events" => IF m.end THEN told = <<>> ELSE Opened(told)
    BY <1>2, <2>3, StageFacts
  <2>6. m.next # "events" => InParts(told) \/ (m.ec /\ Opened(told))
    BY <1>2, <1>3, <2>3, <2>4, StageFacts
  <2>7. QED  BY <1>1, <1>2, <1>4, <2>2, <2>5, <2>6 DEF TalkInv, InParts, Opened
<1>19. FailsForCause'
  <2>1. s.from \in {"own", "idle", "released"}  BY DEF Session
  <2>2. AttemptInv(r) /\ IdleTakenInv(r)  BY DEF UseIInv
  <2>3. m.ec => s.from \in {"own", "released"} \/ t.head # None \/ conn'[c].shut
    BY <1>1, <1>2, <2>1, <2>2, StageFacts DEF AttemptInv, IdleTakenInv
  <2>4. QED  BY <1>1, <1>2, <2>3 DEF FailsForCause
<1>20. QED
  <2>1. \A q \in Requests : AttemptInv(q)' /\ IdleTakenInv(q)' /\ SendsInv(q)' /\ TalkInv(q)'
    BY <1>15, <1>16, <1>17, <1>18
  <2>2. QED  BY <1>12, <1>13, <1>14, <1>19, <2>1 DEF UseIInv

\* A second attempt begins.
LEMMA RetriesUse ==
    ASSUME PoolIInv, UseIInv, FailsForCause, PoolIInv', NEW r \in Requests, NEW new \in Conns,
           Retries(r, new)
    PROVE  UseIInv' /\ FailsForCause'
<1>0. PICK t : t = session'[r]  OBVIOUS
<1>1. PICK s \in Session, old \in Conns : t = session'[r] /\ s = session[r] /\ old = s.conn
  <2>1. session[r].stage \notin {"idle", "done"}  BY DEF Retries, Active
  <2>2. QED  BY <1>0, <2>1, OwnFacts
<1>2. /\ running /\ calling = None
      /\ s.stage \in {"write", "read"} /\ conn[old].again
      /\ new \notin pool \cup Held
      /\ pool' = (pool \ {old}) \cup {new}
      /\ t.stage = "resolve" /\ t.conn = new /\ t.from = "own"
      /\ \A q \in Requests \ {r} : Same(q)
      /\ calls'[r] = calls[r] /\ sends'[r] = sends[r]
      /\ conn'[new].inUse /\ ~conn'[new].again /\ ~conn'[new].stream
      /\ \A d \in Conns : d # new => conn'[d] = IF Alive(d) THEN conn[d] ELSE NewConn
      /\ calling' = None /\ running' = running
  BY <1>1 DEF Retries
<1>3. \A q \in Requests \ {r} :
         /\ session'[q] = session[q]
         /\ (Uses(q)' <=> Uses(q)) /\ (Streams(q)' <=> Streams(q)) /\ (Reads(q)' <=> Reads(q))
  BY <1>2, SameUses DEF Same
<1>4. Uses(r)' /\ ~Streams(r)' /\ t.conn = new
  BY <1>1, <1>2 DEF Uses, Ending, Streams, Active
<1>5. \A q \in Requests : session[q].conn # new  BY <1>2 DEF Held
<1>6. \A q \in Requests \ {r} : session[q].conn \in Conns =>
         conn'[session[q].conn] = conn[session[q].conn]
  <2> TAKE q \in Requests \ {r}
  <2>1. session[q].conn \in Held'  BY <1>3 DEF Held
  <2>2. QED  BY <1>2, <1>5, <2>1 DEF Alive
<1>7. \A q \in Requests : Uses(q) \/ Streams(q) => session[q].conn \in Conns
  BY OwnFacts DEF PoolIInv, CallInv, Uses, Streams, Active
<1>8. \A d \in pool' : d # new => d \in pool /\ d # old /\ d \in Conns /\ conn'[d] = conn[d]
  BY <1>2 DEF PoolIInv, Types, Alive
<1>9. IdleInv'  BY <1>2, <1>8 DEF UseIInv, IdleInv
<1>10. SharingInv'
  <2>1. \A q \in Requests : Streams(q)' => conn'[session'[q].conn].stream
    <3> TAKE q \in Requests
    <3> HAVE Streams(q)'
    <3>1. q # r /\ Streams(q)  BY <1>3, <1>4
    <3>2. conn[session[q].conn].stream  BY <3>1 DEF UseIInv, SharingInv
    <3>3. QED  BY <1>3, <1>6, <1>7, <3>1, <3>2
  <2>2. \A q \in Requests : Uses(q)' => conn'[session'[q].conn].inUse \/ conn'[session'[q].conn].stream
    <3> TAKE q \in Requests
    <3> HAVE Uses(q)'
    <3>1. CASE q = r  BY <1>1, <1>2, <3>1
    <3>2. CASE q # r
      <4>1. Uses(q)  BY <1>3, <3>2
      <4>2. conn[session[q].conn].inUse \/ conn[session[q].conn].stream
        BY <4>1 DEF UseIInv, SharingInv
      <4>3. QED  BY <1>3, <1>6, <1>7, <3>2, <4>1, <4>2
    <3>3. QED  BY <3>1, <3>2
  <2>3. \A p, q \in Requests :
           Uses(p)' /\ Uses(q)' /\ p # q /\ session'[p].conn = session'[q].conn =>
               conn'[session'[q].conn].stream
    <3> TAKE p, q \in Requests
    <3> HAVE Uses(p)' /\ Uses(q)' /\ p # q /\ session'[p].conn = session'[q].conn
    <3>1. p # r /\ q # r  BY <1>1, <1>2, <1>3, <1>5
    <3>2. Uses(p) /\ Uses(q) /\ session[p].conn = session[q].conn  BY <1>3, <3>1
    <3>3. conn[session[q].conn].stream  BY <3>2 DEF UseIInv, SharingInv
    <3>4. QED  BY <1>3, <1>6, <1>7, <3>1, <3>2, <3>3
  <2>4. \A d \in pool' : running' /\ conn'[d].inUse =>
           \E q \in Requests : Uses(q)' /\ session'[q].conn = d
    <3> TAKE d \in pool'
    <3> HAVE running' /\ conn'[d].inUse
    <3>1. CASE d = new  BY <1>1, <1>4, <3>1
    <3>2. CASE d # new
      <4>1. PICK q \in Requests : Uses(q) /\ session[q].conn = d
        BY <1>2, <1>8, <3>2 DEF UseIInv, SharingInv
      <4>2. q # r  BY <1>1, <1>8, <3>2, <4>1
      <4>3. QED  BY <1>3, <4>1, <4>2
    <3>3. QED  BY <3>1, <3>2
  <2>5. QED  BY <2>1, <2>2, <2>3, <2>4 DEF SharingInv
<1>11. StreamInv'
  <2> SUFFICES ASSUME NEW d \in pool', conn'[d].stream
               PROVE  \E q \in Requests : session'[q].conn = d /\ Reads(q)'
    BY DEF StreamInv
  <2>1. d # new  BY <1>2
  <2>2. PICK q \in Requests : session[q].conn = d /\ Reads(q)
    BY <1>2, <1>8, <2>1 DEF UseIInv, StreamInv
  <2>3. q # r  BY <1>1, <1>8, <2>1, <2>2
  <2>4. QED  BY <1>3, <2>2, <2>3
<1>12. ASSUME NEW q \in Requests \ {r}
       PROVE  AttemptInv(q)' /\ IdleTakenInv(q)' /\ SendsInv(q)' /\ TalkInv(q)'
  <2>1. Same(q) /\ (running' => running)  BY <1>2
  <2>2. session[q].stage # "callback"  BY <1>2, FreeFacts
  <2>3. CASE session[q].stage \in Beginning
    <3>1. session[q].conn \in Conns  BY <2>3, WorkFacts, StageFacts
    <3>2. ~conn[session[q].conn].again \/ session[q].from = "idle" =>
             ~conn[session[q].conn].stream
      BY <2>3, AloneFacts
    <3>3. session[q].from = "idle" =>
             /\ \A p \in Requests : p # q => session'[p].conn # session[q].conn
             /\ running' => session[q].conn \in pool' \/ conn'[session[q].conn].shut
      <4> HAVE session[q].from = "idle"
      <4>1. IdleTakenInv(q)  BY DEF UseIInv
      <4>2. \A p \in Requests : p # q => session[p].conn # session[q].conn
        BY <2>3, <4>1 DEF IdleTakenInv
      <4>3. \A p \in Requests : p # q => session'[p].conn # session[q].conn
        <5> TAKE p \in Requests
        <5>1. CASE p = r  BY <1>1, <1>2, <1>5, <5>1
        <5>2. CASE p # r  BY <1>3, <4>2, <5>2
        <5>3. QED  BY <5>1, <5>2
      <4>4. session[q].conn # old  BY <1>1, <4>2
      <4>5. QED  BY <1>2, <1>6, <2>3, <3>1, <4>1, <4>3, <4>4 DEF IdleTakenInv
    <3>4. QED  BY <1>6, <2>1, <2>2, <3>1, <3>2, <3>3, OthersUse
  <2>4. CASE session[q].stage \notin Beginning  BY <2>1, <2>2, <2>4, OthersUse
  <2>5. QED  BY <2>3, <2>4
<1>13. AttemptInv(r)' /\ IdleTakenInv(r)'
  BY <1>1, <1>2 DEF AttemptInv, IdleTakenInv
<1>14. SendsInv(r)'
  <2>1. SendsInv(r) /\ sends[r] \in Nat  BY DEF UseIInv, PoolIInv, Types
  <2>2. sends[r] <= 1  BY <1>1, <1>2, <2>1 DEF SendsInv
  <2>3. QED  BY <1>1, <1>2, <2>1, <2>2, StageFacts DEF SendsInv
<1>15. TalkInv(r)'
  <2>1. calls[r] = <<>>  BY <1>1, <1>2, StageFacts DEF UseIInv, TalkInv
  <2>2. QED  BY <1>1, <1>2, <2>1, StageFacts DEF TalkInv
<1>16. FailsForCause'  BY <1>2 DEF FailsForCause
<1>17. QED
  <2>1. \A q \in Requests : AttemptInv(q)' /\ IdleTakenInv(q)' /\ SendsInv(q)' /\ TalkInv(q)'
    BY <1>12, <1>13, <1>14, <1>15
  <2>2. QED  BY <1>9, <1>10, <1>11, <1>16, <2>1 DEF UseIInv

\* A handler throws.
LEMMA ThrowsUse ==
    ASSUME PoolIInv, UseIInv, FailsForCause, PoolIInv', NEW r \in Requests, Throws(r)
    PROVE  UseIInv' /\ FailsForCause'
<1>1. PICK t : t = session'[r]  OBVIOUS
<1>2. PICK s \in Session, c \in Conns : s = session[r] /\ c = s.conn
  <2>1. session[r].stage \notin {"idle", "done"}  BY DEF Throws, Active
  <2>2. QED  BY <2>1, OwnFacts
<1>3. /\ running /\ calling = None /\ calling' = None /\ ~running' /\ s.stage = "read"
      /\ t = [NewSession EXCEPT !.stage = "done"]
      /\ \A q \in Requests \ {r} : Same(q)
      /\ calls'[r] = calls[r] /\ sends'[r] = sends[r]
      /\ pool' = pool
      /\ \A d \in Conns : d # c => conn'[d] = IF Alive(d) THEN conn[d] ELSE NewConn
      /\ Alive(c) => /\ conn'[c].inUse = conn[c].inUse /\ conn'[c].stream = conn[c].stream
                     /\ conn'[c].again
  BY <1>1, <1>2 DEF Throws
<1>4. t.stage = "done"  BY <1>3, DoneFacts
<1>5. \A q \in Requests \ {r} :
         /\ session'[q] = session[q]
         /\ (Uses(q)' <=> Uses(q)) /\ (Streams(q)' <=> Streams(q)) /\ (Reads(q)' <=> Reads(q))
  BY <1>3, SameUses DEF Same
<1>6. ~Uses(r)' /\ ~Streams(r)' /\ Uses(r)
  <2>1. ~Uses(r)' /\ ~Streams(r)'  BY <1>1, <1>3, <1>4 DEF Uses, Streams, Active
  <2>2. QED  BY <1>2, <1>3, <2>1, WorkFacts
<1>7. \A d \in Conns : Alive(d) =>
         /\ conn'[d].inUse = conn[d].inUse /\ conn'[d].stream = conn[d].stream
         /\ d # c => conn'[d].again = conn[d].again
  BY <1>3
<1>8. \A q \in Requests : Uses(q) \/ Streams(q) => session[q].conn \in Conns
  BY OwnFacts DEF PoolIInv, CallInv, Uses, Streams, Active
<1>9. \A q \in Requests \ {r} : Alive(session[q].conn)
  BY <1>5 DEF Alive, Held
<1>10. \A d \in pool : d \in Conns /\ Alive(d)  BY <1>3 DEF PoolIInv, Types, Alive
<1>11. IdleInv'  BY <1>3, <1>7, <1>10 DEF UseIInv, IdleInv
<1>12. SharingInv'
  <2>1. \A q \in Requests : Streams(q)' => conn'[session'[q].conn].stream
    BY <1>5, <1>6, <1>7, <1>8, <1>9 DEF UseIInv, SharingInv
  <2>2. \A q \in Requests : Uses(q)' => conn'[session'[q].conn].inUse \/ conn'[session'[q].conn].stream
    BY <1>5, <1>6, <1>7, <1>8, <1>9 DEF UseIInv, SharingInv
  <2>3. \A p, q \in Requests :
           Uses(p)' /\ Uses(q)' /\ p # q /\ session'[p].conn = session'[q].conn =>
               conn'[session'[q].conn].stream
    <3> TAKE p, q \in Requests
    <3> HAVE Uses(p)' /\ Uses(q)' /\ p # q /\ session'[p].conn = session'[q].conn
    <3>1. p # r /\ q # r  BY <1>6
    <3>2. Uses(p) /\ Uses(q) /\ session[p].conn = session[q].conn  BY <1>5, <3>1
    <3>3. conn[session[q].conn].stream  BY <3>2 DEF UseIInv, SharingInv
    <3>4. QED  BY <1>5, <1>7, <1>8, <1>9, <3>1, <3>2, <3>3
  <2>4. QED  BY <1>3, <2>1, <2>2, <2>3 DEF SharingInv
<1>13. StreamInv'  BY <1>3 DEF StreamInv
<1>14. ASSUME NEW q \in Requests \ {r}
       PROVE  AttemptInv(q)' /\ IdleTakenInv(q)' /\ SendsInv(q)' /\ TalkInv(q)'
  <2>1. Same(q) /\ (running' => running)  BY <1>3
  <2>2. session[q].stage # "callback"  BY <1>3, FreeFacts
  <2>3. CASE session[q].stage \in Beginning
    <3>1. session[q].conn \in Conns /\ Alive(session[q].conn)
      BY <1>9, <2>3, WorkFacts, StageFacts
    <3>2. conn[session[q].conn].again \in BOOLEAN /\ conn'[session[q].conn].again \in BOOLEAN
      BY <3>1 DEF PoolIInv, Types, Connection
    <3>3. ~conn[session[q].conn].again \/ session[q].from = "idle" =>
             session[q].conn # c /\ ~conn[session[q].conn].stream
      BY <1>2, <1>6, <2>3, AloneFacts
    <3>4. conn'[session[q].conn].again = conn[session[q].conn].again
      BY <1>3, <1>7, <3>1, <3>2, <3>3
    <3>5. session[q].from = "idle" => \A p \in Requests : p # q => session'[p].conn # session[q].conn
      <4> HAVE session[q].from = "idle"
      <4>1. \A p \in Requests : p # q => session[p].conn # session[q].conn
        BY <2>3 DEF UseIInv, IdleTakenInv
      <4>2. t.conn = None /\ None \notin Conns
        BY <1>3, DoneFacts, ClientAssumption DEF ClientAssumption
      <4>3. ASSUME NEW p \in Requests, p # q  PROVE session'[p].conn # session[q].conn
        <5>1. CASE p = r  BY <1>1, <3>1, <4>2, <5>1
        <5>2. CASE p # r  BY <1>5, <4>1, <4>3, <5>2
        <5>3. QED  BY <5>1, <5>2
      <4>4. QED  BY <4>3
    <3>6. QED  BY <1>3, <1>7, <2>1, <2>2, <3>1, <3>3, <3>4, <3>5, OthersUse
  <2>4. CASE session[q].stage \notin Beginning  BY <2>1, <2>2, <2>4, OthersUse
  <2>5. QED  BY <2>3, <2>4
<1>15. AttemptInv(r)' /\ IdleTakenInv(r)'
  BY <1>1, <1>4, StageFacts DEF AttemptInv, IdleTakenInv
<1>16. SendsInv(r)'
  <2>1. sends[r] <= 2  BY DEF UseIInv, SendsInv
  <2>2. QED  BY <1>1, <1>3, <1>4, <2>1, StageFacts DEF SendsInv
<1>17. TalkInv(r)'
  <2>1. calls[r] = <<>>  BY <1>2, <1>3, StageFacts DEF UseIInv, TalkInv
  <2>2. QED  BY <1>1, <1>3, <1>4, <2>1, StageFacts DEF TalkInv
<1>18. FailsForCause'  BY <1>3 DEF FailsForCause
<1>19. QED
  <2>1. \A q \in Requests : AttemptInv(q)' /\ IdleTakenInv(q)' /\ SendsInv(q)' /\ TalkInv(q)'
    BY <1>14, <1>15, <1>16, <1>17
  <2>2. QED  BY <1>11, <1>12, <1>13, <1>18, <2>1 DEF UseIInv

\* What the application has been told, and one thing more.
LEMMA ToldMore ==
    ASSUME NEW told \in Seq({"part", "end", "error"}), NEW w \in {"part", "end", "error"},
           NEW more, more = Append(told, w)
    PROVE  /\ w = "part" /\ InParts(told) => InParts(more)
           /\ w = "part" /\ Opened(told) => Opened(more)
           /\ w = "end" /\ told = <<>> => Opened(more)
           /\ w # "part" /\ (InParts(told) \/ (w = "error" /\ Opened(told))) =>
                 /\ \A i \in 1..(Len(more) - 1) :
                       more[i] # "error" /\ (more[i] = "end" => i = 1 /\ more[Len(more)] # "end")
                 /\ more # <<>> /\ more[Len(more)] # "part"
<1>1. /\ more \in Seq({"part", "end", "error"}) /\ more # <<>>
      /\ Len(more) = Len(told) + 1 /\ more[Len(told) + 1] = w
      /\ \A i \in 1..Len(told) : more[i] = told[i]
  BY AppendProperties
<1>2. PICK n \in Nat : n = Len(told)  BY LenProperties
<1>3. /\ Len(more) = n + 1 /\ more[n + 1] = w /\ \A i \in 1..n : more[i] = told[i]
      /\ told = <<>> <=> n = 0
  BY <1>1, <1>2, EmptySeq
<1>4. w = "part" /\ InParts(told) => InParts(more)  BY <1>2, <1>3 DEF InParts
<1>5. w = "part" /\ Opened(told) => Opened(more)
  <2> HAVE w = "part" /\ Opened(told)
  <2>1. n >= 1 /\ told[1] = "end" /\ \A i \in 2..n : told[i] = "part"
    BY <1>2, <1>3 DEF Opened
  <2>2. more[1] = "end" /\ \A i \in 2..n + 1 : more[i] = "part"
    BY <1>3, <2>1
  <2>3. QED  BY <1>1, <1>3, <2>2 DEF Opened
<1>6. w = "end" /\ told = <<>> => Opened(more)  BY <1>1, <1>3 DEF Opened
<1>7. w # "part" /\ (InParts(told) \/ (w = "error" /\ Opened(told))) =>
         /\ \A i \in 1..(Len(more) - 1) :
               more[i] # "error" /\ (more[i] = "end" => i = 1 /\ more[Len(more)] # "end")
         /\ more # <<>> /\ more[Len(more)] # "part"
  <2> HAVE w # "part" /\ (InParts(told) \/ (w = "error" /\ Opened(told)))
  <2>1. \A i \in 1..n : told[i] # "error" /\ (told[i] = "end" => i = 1 /\ w # "end")
    BY <1>2 DEF InParts, Opened
  <2>2. QED  BY <1>1, <1>3, <2>1
<1>8. QED  BY <1>4, <1>5, <1>6, <1>7

\* The pool is pruned, and the application is told.
LEMMA PrunesUse ==
    ASSUME PoolIInv, UseIInv, FailsForCause, PoolIInv', NEW r \in Requests, Prunes(r)
    PROVE  UseIInv' /\ FailsForCause'
<1>1. PICK m \in CallbackArgs : m = calling  BY DEF Prunes, PoolIInv, Types
<1>2. session[r].stage = "callback" /\ m.req = r
  BY <1>1 DEF Prunes, PoolIInv, CallInv
<1>3. PICK s \in Session, c \in Conns : s = session[r] /\ c = s.conn
  <2>1. session[r].stage \notin {"idle", "done"}  BY <1>2
  <2>2. QED  BY <2>1, OwnFacts
<1>4. PICK t : t = session'[r]  OBVIOUS
<1>5. PICK w : w = IF m.ec THEN "error" ELSE IF m.end THEN "end" ELSE "part"  OBVIOUS
<1>6. /\ calling # None /\ calling' = None /\ running
      /\ pool' \subseteq pool
      /\ m.ec => c \notin pool'
      /\ \A d \in pool : conn[d].inUse /\ d # c => d \in pool'
      /\ \A d, e \in pool' : ~conn[d].inUse /\ ~conn[e].inUse => d = e
      /\ m.next = "done" => t = [NewSession EXCEPT !.stage = "done"]
      /\ m.next # "done" => t = [s EXCEPT !.stage = m.next]
      /\ calls'[r] = Append(calls[r], w)
      /\ sends'[r] = sends[r]
      /\ \A q \in Requests \ {r} : Same(q)
      /\ \A d \in Conns : conn'[d] = IF Alive(d) THEN conn[d] ELSE NewConn
      /\ running' = running
  BY <1>1, <1>3, <1>4, <1>5 DEF Prunes, PoolIInv, CallInv
<1>7. /\ m.ec \in BOOLEAN /\ m.end \in BOOLEAN /\ m.next \in {"done", "events"} \cup Receiving
      /\ m.ec => m.end /\ m.next = "done"
      /\ m.end <=> m.next = "done" \/ (m.next = "events" /\ m.end)
  BY <1>1, <1>6, StageFacts DEF CallbackArgs, PoolIInv, CallInv
<1>8. /\ m.next # "done" => t.stage = m.next /\ t.conn = c
      /\ m.next = "done" => t.stage = "done" /\ t.conn = None
  BY <1>3, <1>6, DoneFacts DEF Session
<1>9. /\ Uses(r) <=> ~m.end
      /\ Streams(r) <=> m.next = "events"
      /\ Reads(r) <=> m.next = "events" \/ m.ec
  <2>1. r \in Active  BY <1>2 DEF Active
  <2>2. Uses(r) <=> ~m.end  BY <1>1, <1>2, <1>6, <2>1 DEF Uses, Ending
  <2>3. Streams(r) <=> m.next = "events"  BY <1>1, <1>2, <1>6 DEF Streams
  <2>4. QED  BY <1>1, <1>2, <1>6, <2>2, <2>3 DEF Reads
<1>10. /\ Uses(r)' <=> m.next # "done"
       /\ Streams(r)' <=> m.next = "events"
       /\ m.next = "events" => Reads(r)'
  <2>1. r \in Active' <=> m.next # "done"  BY <1>4, <1>7, <1>8, StageFacts DEF Active
  <2>2. Uses(r)' <=> m.next # "done"  BY <1>6, <2>1 DEF Uses, Ending
  <2>3. Streams(r)' <=> m.next = "events"  BY <1>4, <1>6, <1>7, <1>8, StageFacts DEF Streams
  <2>4. QED  BY <2>2, <2>3 DEF Reads
<1>11. \A q \in Requests \ {r} :
          /\ session'[q] = session[q] /\ session[q].stage # "callback"
          /\ (Uses(q)' <=> Uses(q)) /\ (Streams(q)' <=> Streams(q)) /\ (Reads(q)' <=> Reads(q))
  <2> TAKE q \in Requests \ {r}
  <2>1. session'[q] = session[q]  BY <1>6 DEF Same
  <2>2. session[q].stage # "callback"  BY <1>1, <1>2 DEF PoolIInv, SessionInv
  <2>3. QED  BY <1>1, <1>2, <1>6, <2>1, <2>2, SameUses
<1>12. \A q \in Requests : Uses(q)' \/ Streams(q)' =>
          /\ session'[q].conn = session[q].conn
          /\ conn'[session[q].conn] = conn[session[q].conn]
  <2> TAKE q \in Requests
  <2> HAVE Uses(q)' \/ Streams(q)'
  <2>1. session'[q].conn = session[q].conn
    BY <1>3, <1>4, <1>8, <1>10, <1>11
  <2>2. q \in Active' \/ session'[q].stage = "events"
    BY <1>6 DEF Uses, Streams
  <2>3. session'[q].conn \in Conns  BY <2>2 DEF PoolIInv, SessionInv, Active
  <2>4. session'[q].conn \in Held'  BY DEF Held
  <2>5. QED  BY <1>6, <2>1, <2>3, <2>4 DEF Alive
<1>13. \A d \in pool' : d \in pool /\ d \in Conns /\ conn'[d] = conn[d]
  BY <1>6 DEF PoolIInv, Types, Alive
<1>14. IdleInv'  BY <1>6, <1>13 DEF IdleInv
<1>15. Streams(r) => conn[c].stream  BY <1>3 DEF UseIInv, SharingInv
<1>16. SharingInv'
  <2>1. \A q \in Requests : Streams(q)' => conn'[session'[q].conn].stream
    <3> TAKE q \in Requests
    <3> HAVE Streams(q)'
    <3>1. Streams(q)  BY <1>9, <1>10, <1>11
    <3>2. QED  BY <1>12, <3>1 DEF UseIInv, SharingInv
  <2>2. \A q \in Requests : Uses(q)' => conn'[session'[q].conn].inUse \/ conn'[session'[q].conn].stream
    <3> TAKE q \in Requests
    <3> HAVE Uses(q)'
    <3>1. Uses(q) \/ Streams(q)  BY <1>7, <1>9, <1>10, <1>11
    <3>2. QED  BY <1>12, <3>1 DEF UseIInv, SharingInv
  <2>3. \A p, q \in Requests :
           Uses(p)' /\ Uses(q)' /\ p # q /\ session'[p].conn = session'[q].conn =>
               conn'[session'[q].conn].stream
    <3> TAKE p, q \in Requests
    <3> HAVE Uses(p)' /\ Uses(q)' /\ p # q /\ session'[p].conn = session'[q].conn
    <3>1. session[p].conn = session[q].conn  BY <1>12
    <3>2. (Uses(p) \/ Streams(p)) /\ (Uses(q) \/ Streams(q))
      BY <1>7, <1>9, <1>10, <1>11
    <3>3. conn[session[q].conn].stream  BY <3>1, <3>2 DEF UseIInv, SharingInv
    <3>4. QED  BY <1>12, <3>3
  <2>4. \A d \in pool' : running' /\ conn'[d].inUse =>
           \E q \in Requests : Uses(q)' /\ session'[q].conn = d
    <3> TAKE d \in pool'
    <3> HAVE running' /\ conn'[d].inUse
    <3>1. PICK q \in Requests : Uses(q) /\ session[q].conn = d
      BY <1>6, <1>13 DEF UseIInv, SharingInv
    <3>2. Uses(q)'  BY <1>7, <1>9, <1>10, <1>11, <3>1
    <3>3. QED  BY <1>12, <3>1, <3>2
  <2>5. QED  BY <2>1, <2>2, <2>3, <2>4 DEF SharingInv
<1>17. StreamInv'
  <2> SUFFICES ASSUME NEW d \in pool', conn'[d].stream
               PROVE  \E q \in Requests : session'[q].conn = d /\ Reads(q)'
    BY DEF StreamInv
  <2>1. PICK q \in Requests : session[q].conn = d /\ Reads(q)
    BY <1>6, <1>13 DEF UseIInv, StreamInv
  <2>2. CASE q = r
    <3>1. ~m.ec  BY <1>3, <1>6, <2>1, <2>2
    <3>2. Streams(r)' /\ Reads(r)'  BY <1>9, <1>10, <2>1, <2>2, <3>1
    <3>3. QED  BY <1>12, <2>1, <2>2, <3>2
  <2>3. CASE q # r  BY <1>11, <2>1, <2>3
  <2>4. QED  BY <2>2, <2>3
<1>18. ASSUME NEW q \in Requests \ {r}
       PROVE  AttemptInv(q)' /\ IdleTakenInv(q)' /\ SendsInv(q)' /\ TalkInv(q)'
  <2>1. Same(q) /\ (running' => running) /\ session[q].stage # "callback"  BY <1>6, <1>11
  <2>2. CASE session[q].stage \in Beginning
    <3>1. session[q].conn \in Conns /\ Uses(q)  BY <2>2, WorkFacts, StageFacts
    <3>2. conn'[session[q].conn] = conn[session[q].conn]  BY <1>11, <1>12, <3>1
    <3>3. ~conn[session[q].conn].again \/ session[q].from = "idle" =>
             ~conn[session[q].conn].stream /\ conn[session[q].conn].inUse
      BY <2>2, AloneFacts
    <3>4. session[q].from = "idle" =>
             /\ \A p \in Requests : p # q => session'[p].conn # session[q].conn
             /\ running' => session[q].conn \in pool' \/ conn'[session[q].conn].shut
      <4> HAVE session[q].from = "idle"
      <4>1. IdleTakenInv(q)  BY DEF UseIInv
      <4>2. \A p \in Requests : p # q => session[p].conn # session[q].conn
        BY <2>2, <4>1 DEF IdleTakenInv
      <4>3. None \notin Conns  BY ClientAssumption DEF ClientAssumption
      <4>4. ASSUME NEW p \in Requests, p # q  PROVE session'[p].conn # session[q].conn
        <5>1. CASE p = r
          <6>1. t.conn = c \/ t.conn = None  BY <1>8
          <6>2. QED  BY <1>3, <1>4, <3>1, <4>2, <4>3, <4>4, <5>1, <6>1
        <5>2. CASE p # r  BY <1>11, <4>2, <4>4, <5>2
        <5>3. QED  BY <5>1, <5>2
      <4>5. session[q].conn # c  BY <1>3, <4>2
      <4>6. running' => session[q].conn \in pool' \/ conn'[session[q].conn].shut
        BY <1>6, <2>2, <3>2, <3>3, <4>1, <4>5 DEF IdleTakenInv
      <4>7. QED  BY <4>4, <4>6
    <3>5. QED  BY <2>1, <3>2, <3>3, <3>4, OthersUse
  <2>3. CASE session[q].stage \notin Beginning  BY <2>1, <2>3, OthersUse
  <2>4. QED  BY <2>2, <2>3
<1>19. t.stage \in {"done", "events"} \cup Receiving
       /\ t.stage \notin {"idle", "callback"} \cup Beginning
  BY <1>7, <1>8, StageFacts
<1>20. AttemptInv(r)' /\ IdleTakenInv(r)'
  BY <1>4, <1>19 DEF AttemptInv, IdleTakenInv
<1>21. SendsInv(r)'
  <2>1. sends[r] <= 2  BY DEF UseIInv, SendsInv
  <2>2. QED  BY <1>4, <1>6, <1>19, <2>1, StageFacts DEF SendsInv
<1>22. TalkInv(r)'
  <2>1. TalkInv(r)  BY DEF UseIInv
  <2>2. PICK told \in Seq({"part", "end", "error"}) : told = calls[r]
    BY DEF PoolIInv, Types
  <2>3. PICK more : more = Append(told, w) /\ calls'[r] = more  BY <1>6, <2>2
  <2>4. /\ m.next = "events" => IF m.end THEN told = <<>> ELSE Opened(told)
        /\ m.next # "events" => InParts(told) \/ (m.ec /\ Opened(told))
    BY <1>1, <1>2, <2>1, <2>2 DEF TalkInv
  <2>5. w \in {"part", "end", "error"}  BY <1>5
  <2>6. /\ w = "part" /\ InParts(told) => InParts(more)
        /\ w = "part" /\ Opened(told) => Opened(more)
        /\ w = "end" /\ told = <<>> => Opened(more)
        /\ w # "part" /\ (InParts(told) \/ (w = "error" /\ Opened(told))) =>
              /\ \A i \in 1..(Len(more) - 1) :
                    more[i] # "error" /\ (more[i] = "end" => i = 1 /\ more[Len(more)] # "end")
              /\ more # <<>> /\ more[Len(more)] # "part"
    BY <2>3, <2>5, ToldMore
  <2>7. t.stage \in Receiving => InParts(more)
    <3> HAVE t.stage \in Receiving
    <3>1. m.next \in Receiving /\ w = "part"  BY <1>5, <1>7, <1>8, StageFacts
    <3>2. QED  BY <1>7, <2>4, <2>6, <3>1, StageFacts
  <2>8. t.stage = "events" => Opened(more)
    <3> HAVE t.stage = "events"
    <3>1. m.next = "events" /\ ~m.ec  BY <1>7, <1>8, StageFacts
    <3>2. QED  BY <1>5, <2>4, <2>6, <3>1
  <2>9. t.stage = "done" =>
          /\ \A i \in 1..(Len(more) - 1) :
                more[i] # "error" /\ (more[i] = "end" => i = 1 /\ more[Len(more)] # "end")
          /\ more # <<>> /\ more[Len(more)] # "part"
    <3> HAVE t.stage = "done"
    <3>1. m.next = "done" /\ m.end  BY <1>7, <1>8, StageFacts
    <3>2. w # "part" /\ (m.ec => w = "error")  BY <1>5, <3>1
    <3>3. QED  BY <2>4, <2>6, <3>1, <3>2
  <2>10. QED  BY <1>4, <1>19, <2>3, <2>7, <2>8, <2>9 DEF TalkInv, InParts, Opened
<1>23. FailsForCause'  BY <1>6 DEF FailsForCause
<1>24. QED
  <2>1. \A q \in Requests : AttemptInv(q)' /\ IdleTakenInv(q)' /\ SendsInv(q)' /\ TalkInv(q)'
    BY <1>18, <1>20, <1>21, <1>22
  <2>2. QED  BY <1>14, <1>16, <1>17, <1>23, <2>1 DEF UseIInv

\* The second half is inductive, with the first.
LEMMA UseIInvStep ==
    ASSUME IInv, [Next]_vars
    PROVE  IInv'
<1>0. PoolIInv /\ UseIInv /\ FailsForCause  BY DEF IInv
<1>1. PoolIInv'  BY <1>0, PoolIInvStep
<1>2. CASE Outcome
  <2>1. UseIInv' /\ FailsForCause'
    BY <1>0, <1>1, <1>2, AsksUse, GoesUse, CallsBackUse, RetriesUse, ChangesUse, PrunesUse,
       ThrowsUse
    DEF Outcome, OfAKind
  <2>2. QED  BY <1>1, <2>1 DEF IInv
<1>3. CASE UNCHANGED vars
  <2>1. /\ pool' = pool /\ conn' = conn /\ session' = session /\ calling' = calling
        /\ running' = running /\ calls' = calls /\ sends' = sends
    BY <1>3 DEF vars
  <2>2. \A q \in Requests : (Uses(q)' <=> Uses(q)) /\ (Streams(q)' <=> Streams(q))
                            /\ (Reads(q)' <=> Reads(q))
    BY <2>1 DEF Uses, Ending, Streams, Reads, Active
  <2>3. IdleInv' /\ SharingInv' /\ StreamInv'
    <3>1. pool' \subseteq pool /\ \A q \in Requests : session'[q].conn = session[q].conn
          /\ \A d \in Conns : conn'[d].inUse = conn[d].inUse /\ conn'[d].stream = conn[d].stream
      BY <2>1
    <3>2. QED  BY <1>0, <2>1, <2>2, <3>1, SameSharing
  <2>4. \A q \in Requests : AttemptInv(q)' /\ IdleTakenInv(q)' /\ SendsInv(q)' /\ TalkInv(q)'
    BY <1>0, <2>1 DEF UseIInv, AttemptInv, IdleTakenInv, SendsInv, TalkInv
  <2>5. FailsForCause'  BY <1>0, <2>1 DEF FailsForCause
  <2>6. QED  BY <1>1, <2>3, <2>4, <2>5 DEF IInv, UseIInv
<1>4. QED  BY <1>0, <1>2, <1>3, EveryStep

\* It holds at the start.
LEMMA InitIInv ==
    ASSUME Init
    PROVE  IInv
<1>1. /\ pool = {} /\ calling = None /\ running = TRUE
      /\ conn = [c \in Conns |-> NewConn] /\ net = [c \in Conns |-> NoNet]
      /\ session = [r \in Requests |-> NewSession]
      /\ calls = [r \in Requests |-> <<>>] /\ sends = [r \in Requests |-> 0]
  BY DEF Init
<1>2. Types
  <2>1. NewConn \in Connection /\ NoNet \in Device /\ NewSession \in Session  BY NewTypes
  <2>2. <<>> \in Seq({"part", "end", "error"})  BY EmptySeq
  <2>3. QED  BY <1>1, <2>1, <2>2 DEF Types
<1>3. NewSession.stage = "idle" /\ NewSession.conn = None /\ NewSession.head = None
      /\ NewSession.cut = FALSE
  BY DEF NewSession
<1>4. \A r \in Requests : session[r].stage = "idle" /\ session[r].conn = None
                          /\ session[r].head = None /\ ~session[r].cut
  BY <1>1, <1>3
<1>5. \A r \in Requests : r \notin Active  BY <1>4 DEF Active
<1>6. NewConn.open = FALSE /\ NewConn.stream = FALSE  BY DEF NewConn
<1>7. PoolIInv
  <2>1. CallInv  BY <1>1 DEF CallInv
  <2>2. \A r \in Requests : SessionInv(r)  BY <1>4, <1>5, StageFacts DEF SessionInv
  <2>3. \A c \in Conns : ConnInv(c)  BY <1>1, <1>6 DEF ConnInv
  <2>4. \A c \in Conns : NetInv(c)  BY <1>1 DEF NetInv, NoNet
  <2>5. QED  BY <1>2, <2>1, <2>2, <2>3, <2>4 DEF PoolIInv
<1>8. UseIInv
  <2>1. \A r \in Requests : ~Uses(r) /\ ~Streams(r)
    BY <1>1, <1>4, <1>5 DEF Uses, Streams
  <2>2. IdleInv /\ SharingInv /\ StreamInv
    BY <1>1, <2>1 DEF IdleInv, SharingInv, StreamInv
  <2>3. \A r \in Requests : AttemptInv(r) /\ IdleTakenInv(r)
    BY <1>4, StageFacts DEF AttemptInv, IdleTakenInv
  <2>4. \A r \in Requests : SendsInv(r)  BY <1>1, <1>4, StageFacts DEF SendsInv
  <2>5. \A r \in Requests : TalkInv(r)  BY <1>1, <1>4, StageFacts DEF TalkInv
  <2>6. QED  BY <2>2, <2>3, <2>4, <2>5 DEF UseIInv
<1>9. QED  BY <1>1, <1>7, <1>8 DEF IInv, FailsForCause

\* The invariant of the client.
THEOREM ClientIInv == Spec => []IInv
<1>1. Init => IInv  BY InitIInv
<1>2. IInv /\ [Next]_vars => IInv'  BY UseIInvStep
<1>3. QED  BY <1>1, <1>2, PTL DEF Spec

-----------------------------------------------------------------------------
(* What holds for any number of requests and connections.                  *)

\* get_connection, the pruning after a callback, reconnect and stop keep the
\* pool: no connection in use is lost to it, and between callbacks it has at
\* most one that is not, though other threads take connections in between.
THEOREM ClientPoolInv == Spec => []PoolInv
<1>1. IInv => PoolInv
  <2> SUFFICES ASSUME IInv  PROVE PoolInv  OBVIOUS
  <2>1. PoolIInv /\ UseIInv /\ Types  BY DEF IInv, PoolIInv
  <2>2. TypeOK
    <3>1. pool \subseteq Conns  BY <2>1 DEF Types
    <3>2. ASSUME NEW c \in Conns
          PROVE  conn[c] \in [DOMAIN NewConn -> BOOLEAN] /\ net[c].asked \in Seq(Requests)
      <4>1. conn[c] \in Connection /\ net[c] \in Device  BY <2>1 DEF Types
      <4>2. conn[c] \in [DOMAIN NewConn -> BOOLEAN]  BY <4>1 DEF Connection, NewConn
      <4>3. QED  BY <4>1, <4>2 DEF Device
    <3>3. ASSUME NEW r \in Requests
          PROVE  /\ session[r].conn \in IF r \in Active THEN Conns ELSE {None}
                 /\ session[r].head \in Requests \cup {None}
                 /\ session[r].held \in 0..Limit /\ session[r].left \in Nat
                 /\ calls[r] \in Seq({"part", "end", "error"})
      <4>1. session[r] \in Session /\ calls[r] \in Seq({"part", "end", "error"})
        BY <2>1 DEF Types
      <4>2. session[r].conn \in IF r \in Active THEN Conns ELSE {None}
        BY <2>1 DEF PoolIInv, SessionInv
      <4>3. QED  BY <4>1, <4>2 DEF Session
    <3>4. calling # None => session[calling.req].stage = "callback"
      BY <2>1 DEF PoolIInv, CallInv
    <3>5. QED  BY <3>1, <3>2, <3>3, <3>4 DEF TypeOK
  <2>3. OneIdle
    <3> SUFFICES ASSUME calling = None
                 PROVE  Cardinality({c \in pool : ~conn[c].inUse}) <= 1
      BY DEF OneIdle
    <3> DEFINE idle == {c \in pool : ~conn[c].inUse}
    <3>1. \A c, d \in idle : c = d  BY <2>1 DEF UseIInv, IdleInv
    <3> HIDE DEF idle
    <3>2. Cardinality(idle) = 0 \/ Cardinality(idle) = 1
      <4>1. CASE idle = {}  BY <4>1, FS_EmptySet
      <4>2. CASE idle # {}
        <5>1. PICK c \in idle : idle = {c}  BY <3>1, <4>2
        <5>2. QED  BY <5>1, FS_Singleton, Zenon
      <4>3. QED  BY <4>1, <4>2
    <3>3. Cardinality(idle) <= 1  BY <3>2
    <3>4. QED  BY <3>3 DEF idle
  <2>4. NoLeak
    <3> SUFFICES ASSUME NEW c \in pool, running, conn[c].inUse  PROVE c \in Held
      BY DEF NoLeak
    <3>1. PICK r \in Requests : session[r].conn = c  BY <2>1 DEF UseIInv, SharingInv
    <3>2. QED  BY <3>1 DEF Held
  <2>5. QED  BY <2>2, <2>3, <2>4 DEF PoolInv
<1>2. QED  BY <1>1, ClientIInv, PTL

\* Whoever takes connections, and whenever: one that carries a request is
\* given to no other, except when it became a stream of events.
THEOREM ClientExclusive == Spec => []Exclusive
<1>1. IInv => Exclusive
  <2> SUFFICES ASSUME IInv, NEW q \in Active, NEW r \in Active, q # r,
                      session[q].conn = session[r].conn,
                      ~(calling # None /\ calling.req \in {q, r} /\ calling.end)
               PROVE  conn[session[q].conn].stream
    BY DEF Exclusive
  <2>1. q \in Requests /\ r \in Requests  BY DEF Active
  <2>2. Uses(q) /\ Uses(r)  BY DEF Uses, Ending
  <2>3. QED  BY <2>1, <2>2 DEF IInv, UseIInv, SharingInv
<1>2. QED  BY <1>1, ClientIInv, PTL

\* The application is told of the end of a request exactly once, whatever
\* attempts, parts and failures there were.
THEOREM ClientCalledOnce == Spec => []CalledOnce
<1>1. IInv => CalledOnce
  <2> SUFFICES ASSUME IInv, NEW r \in Requests
               PROVE  /\ \A i \in 1..(Len(calls[r]) - 1) :
                            /\ calls[r][i] # "error"
                            /\ calls[r][i] = "end" => i = 1 /\ calls[r][Len(calls[r])] # "end"
                      /\ session[r].stage = "done" /\ running =>
                            calls[r] # <<>> /\ calls[r][Len(calls[r])] # "part"
    BY DEF CalledOnce
  <2>1. TalkInv(r) /\ Types  BY DEF IInv, PoolIInv, UseIInv
  <2>2. session[r].stage \in Stages  BY <2>1 DEF Types, Session
  <2>3. PICK told \in Seq({"part", "end", "error"}) : told = calls[r]  BY <2>1 DEF Types
  <2>4. PICK n \in Nat : n = Len(told)  BY LenProperties
  <2>5. CASE session[r].stage = "done"  BY <2>1, <2>5 DEF TalkInv
  <2>6. CASE session[r].stage # "done"
    <3>1. told = <<>> \/ InParts(told) \/ Opened(told)
      BY <2>1, <2>2, <2>3, <2>6 DEF TalkInv, Stages
    <3>2. ASSUME NEW i \in 1..n - 1
          PROVE  told[i] # "error" /\ (told[i] = "end" => i = 1 /\ told[n] # "end")
      <4>1. told # <<>>  BY <2>4, <3>2, EmptySeq
      <4>2. QED  BY <2>4, <3>1, <3>2, <4>1 DEF InParts, Opened
    <3>3. QED  BY <2>3, <2>4, <2>6, <3>2
  <2>7. QED  BY <2>5, <2>6
<1>2. QED  BY <1>1, ClientIInv, PTL

\* A request that was given an idle connection does not fail because its
\* server had closed it: attempt_reconnect asks for another.
THEOREM ClientFailsForCause == Spec => []FailsForCause
<1>1. IInv => FailsForCause  BY DEF IInv
<1>2. QED  BY <1>1, ClientIInv, PTL

\* A request that has the head of its response is not begun again.
LEMMA NotBegunAgain ==
    ASSUME PoolIInv, [Next]_vars, NEW r \in Requests, session[r].head # None
    PROVE  session'[r].stage \notin {"resolve", "write"}
<1>1. PICK s \in Session : s = session[r]  BY DEF PoolIInv, Types
<1>2. s.stage \notin {"idle", "done"} \cup Beginning
  <2>1. SessionInv(r)  BY DEF PoolIInv
  <2>2. QED  BY <1>1, <2>1 DEF SessionInv, Active
<1>3. CASE UNCHANGED vars  BY <1>1, <1>2, <1>3, StageFacts DEF vars
<1>4. CASE Outcome
  <2>1. Same(r) => session'[r].stage = s.stage  BY <1>1 DEF Same
  <2>2. ASSUME NEW q \in Requests, q # r,
               \/ \E c \in Conns : Asks(q, c) \/ Retries(q, c)
               \/ Goes(q) \/ CallsBack(q) \/ Prunes(q) \/ Throws(q)
        PROVE  Same(r)
    BY <2>2 DEF Asks, Retries, Goes, CallsBack, Prunes, Throws
  <2>3. ASSUME NEW c \in Conns  PROVE ~Asks(r, c) /\ ~Retries(r, c)
    BY <1>1, <1>2, StageFacts DEF Asks, Retries
  <2>4. Goes(r) => session'[r].stage \in Receiving  BY <1>1, <1>2, StageFacts DEF Goes
  <2>5. CallsBack(r) => session'[r].stage = "callback"  BY DEF CallsBack
  <2>6. Prunes(r) => session'[r].stage \in {"done", "events"} \cup Receiving
    <3> HAVE Prunes(r)
    <3>1. PICK m \in CallbackArgs : m = calling  BY DEF Prunes, PoolIInv, Types
    <3>2. CASE m.next = "done"
      <4>1. session'[r] = [NewSession EXCEPT !.stage = "done"]  BY <3>1, <3>2 DEF Prunes
      <4>2. QED  BY <4>1, DoneFacts
    <3>3. CASE m.next # "done"
      <4>1. session'[r] = [s EXCEPT !.stage = m.next]  BY <1>1, <3>1, <3>3 DEF Prunes
      <4>2. session'[r].stage = m.next  BY <4>1 DEF Session
      <4>3. QED  BY <3>3, <4>2, StageFacts DEF CallbackArgs
    <3>4. QED  BY <3>2, <3>3
  <2>7. Throws(r) => session'[r].stage = "done"  BY DoneFacts DEF Throws
  <2>8. Changes => session'[r].stage = s.stage  BY <1>1 DEF Changes
  <2>9. CASE Same(r) \/ Changes  BY <1>2, <2>1, <2>8, <2>9, StageFacts
  <2>10. CASE Goes(r) \/ CallsBack(r) \/ Prunes(r) \/ Throws(r)
    BY <2>4, <2>5, <2>6, <2>7, <2>10, StageFacts
  <2>11. QED  BY <1>4, <2>2, <2>3, <2>9, <2>10 DEF Outcome, OfAKind
<1>5. QED  BY <1>3, <1>4, EveryStep

\* A request is written at most twice, and not again once its response began.
THEOREM ClientSentSparingly == Spec => SentSparingly
<1>1. IInv => \A r \in Requests : sends[r] <= 2  BY DEF IInv, UseIInv, SendsInv
<1>2. IInv /\ [Next]_vars =>
         [\A r \in Requests : session[r].head # None =>
             session'[r].stage \notin {"resolve", "write"}]_vars
  BY NotBegunAgain DEF IInv
<1>3. QED  BY <1>1, <1>2, ClientIInv, PTL DEF Spec, SentSparingly

-----------------------------------------------------------------------------
(* What is on the way to a request.                                        *)

\* A part that nothing can take for the end of a head, or for a head.
Silent(part) == ~EndsInBlankLine(part) /\ part.kind # "astray"

Quiet(parts) == \A i \in 1..Len(parts) : Silent(parts[i])

\* From its k-th on, parts go on with the response to r, which begins after
\* -k of them if k is negative.
Along(parts, k, r, framing) ==
    \A i \in 1..Len(parts) : i + k > 0 =>
        i + k <= Len(KindsOf(framing)) /\ parts[i] = PartsOf(r, framing)[i + k]

\* Neither can its inbox be taken for a response, nor can more get there.
Dead(c) == (conn[c].shut \/ ~net[c].up) /\ Quiet(net[c].inbox)

\* A request that may have left something behind.
Spoilt == \E q \in Requests :
    /\ "chunked" \in FramingsOf[q]
    /\ session[q].stage = "done" \/ (Ending(q) /\ calling.next = "done")

\* Between responses.
Leftover(c) ==
    /\ net[c].asked = <<>> /\ Quiet(net[c].inbox) /\ Quiet(net[c].out)
    /\ net[c].inbox # <<>> \/ net[c].out # <<>> => Spoilt

Rests(c) == Dead(c) \/ Leftover(c)

\* The response to r has been asked for.
Asked(c, r) ==
    /\ net[c].asked = <<r>> /\ Quiet(net[c].inbox) /\ Quiet(net[c].out)
    /\ net[c].inbox # <<>> \/ net[c].out # <<>> => Spoilt

\* It is on its way, in framing f; m parts are ahead of it.
Coming(c, r, f, m) ==
    /\ net[c].asked = <<>>
    /\ m > 0 => Spoilt
    /\ \A i \in 1..m : Silent(net[c].inbox[i])
    /\ Along(net[c].inbox, -m, r, f)
    /\ Along(net[c].out, Len(net[c].inbox) - m, r, f)

Expecting(c, r) ==
    Asked(c, r) \/ \E f \in FramingsOf[r], m \in 0..Len(net[c].inbox) : Coming(c, r, f, m)

\* What r has at hand, and what its device has for it, is what follows the
\* first k parts of the response to it.
Follows(r, k) ==
    LET s == session[r]
        d == net[s.conn]
        n == Len(s.buf) + Len(d.inbox)
    IN  /\ \A i \in 1..n : /\ i + k <= Len(KindsOf(s.framing))
                           /\ Pending(s.buf, d.inbox, i) = PartsOf(r, s.framing)[i + k]
        /\ Along(d.out, n + k, r, s.framing)

\* How many parts of its response r has taken when it is in a stage.
Taken(s, stage) ==
    IF stage \in {"content", "rest"} THEN 1 + s.got
    ELSE IF stage = "size" THEN 1 + 2 * s.got
    ELSE 2 + 2 * s.got

\* r is receiving the response to it.
Receives(r, stage) ==
    LET s == session[r]
        k == Taken(s, stage)
    IN  /\ s.head = r /\ s.framing \in FramingsOf[r] /\ net[s.conn].asked = <<>>
        /\ stage = "content" =>
              /\ s.framing \in {"length", "long"}
              /\ s.got + s.left = Contents(KindsOf(s.framing))
        /\ stage = "rest" => s.framing = "eof"
        /\ stage \in {"size", "data"} => s.framing = "chunked" /\ k <= 5
        /\ stage \in {"content", "rest"} => s.buf = <<>>
        /\ Follows(r, k)

\* The stage a request is in, or goes on with after its callback.
At(r) == IF session[r].stage = "callback" THEN calling.next ELSE session[r].stage

\* What is on r's connection is what r expects there.
Fits(r) ==
    LET c == session[r].conn
    IN  /\ At(r) \in {"resolve", "connect"} => net[c] = NoNet
        /\ At(r) \in Connecting \cup {"write"} => Rests(c)
        /\ At(r) = "read" => Dead(c) \/ Expecting(c, r)
        /\ At(r) \in Receiving => Receives(r, At(r))

UsedBy(c, r) == Uses(r) /\ session[r].conn = c

\* Nothing but the end of a chunked response is ever on a connection unasked,
\* streams of events aside.
Orderly(c) ==
    ~conn[c].stream =>
        /\ \A r \in Requests : UsedBy(c, r) => Fits(r)
        /\ (\A r \in Requests : ~UsedBy(c, r)) => Rests(c)

WireInv == \A c \in Conns : Orderly(c)

\* What AnsweredWhole asks of the devices.
Proper == Unmixed /\ Fitting

WireIInv == Proper /\ running => WireInv

-----------------------------------------------------------------------------
(* What is on the wire: sequences of parts.                                *)

\* The parts of responses: only their heads, and events, end in a blank line,
\* unless a chunk is too large.
LEMMA KindFacts ==
    \A f \in Framings :
        /\ Len(KindsOf(f)) \in 1..7 /\ KindsOf(f)[1] = "head"
        /\ \A i \in 2..Len(KindsOf(f)) :
              /\ KindsOf(f)[i] # "head"
              /\ f \notin {"overlong", "events"} =>
                    KindsOf(f)[i] \notin {"event", "tail", "astray"}
        /\ f \in {"none", "malformed"} => Len(KindsOf(f)) = 1
        /\ f = "chunked" =>
              /\ Len(KindsOf(f)) = 7 /\ KindsOf(f)[2] = "size" /\ KindsOf(f)[4] = "size"
              /\ KindsOf(f)[6] = "zero"
<1> TAKE f \in Framings
<1>1. CASE f \in {"none", "bad_length", "malformed"}
  <2>1. KindsOf(f) = <<"head">>  BY <1>1 DEF KindsOf
  <2>2. QED  BY <1>1, <2>1
<1>2. CASE f = "length"
  <2>1. KindsOf(f) = <<"head", "body">>  BY <1>2 DEF KindsOf
  <2>2. QED  BY <1>2, <2>1
<1>3. CASE f \in {"long", "eof"}
  <2>1. KindsOf(f) = <<"head", "body", "body">>  BY <1>3 DEF KindsOf
  <2>2. QED  BY <1>3, <2>1
<1>4. CASE f = "chunked"
  <2>1. KindsOf(f) = <<"head", "size", "data", "size", "data", "zero", "end">>
    BY <1>4 DEF KindsOf
  <2>2. QED  BY <1>4, <2>1
<1>5. CASE f = "events"
  <2>1. KindsOf(f) = <<"head", "event">>  BY <1>5 DEF KindsOf
  <2>2. QED  BY <1>5, <2>1
<1>6. CASE f = "overlong"
  <2>1. KindsOf(f) = <<"head", "big", "fill", "astray", "tail">>  BY <1>6 DEF KindsOf
  <2>2. QED  BY <1>6, <2>1
<1>7. QED  BY <1>1, <1>2, <1>3, <1>4, <1>5, <1>6 DEF Framings

\* A pair has two members.
LEMMA PairCardinality ==
    \A a, b \in Nat : a # b => Cardinality({a, b}) = 2
<1> SUFFICES ASSUME NEW a \in Nat, NEW b \in Nat, a # b PROVE Cardinality({a, b}) = 2
  OBVIOUS
<1>1. PICK S : S = {a}  OBVIOUS
<1>2. IsFiniteSet(S) /\ Cardinality(S) = 1  BY <1>1, FS_Singleton
<1>3. b \notin S  BY <1>1
<1>4. Cardinality(S \cup {b}) = Cardinality(S) + 1  BY <1>2, <1>3, FS_AddElement
<1>5. S \cup {b} = {a, b}  BY <1>1
<1>6. Cardinality(S \cup {b}) = 2  BY <1>2, <1>4
<1>7. QED  BY <1>5, <1>6, Zenon

\* How much content there is, by framing.
LEMMA ContentFacts ==
    /\ Contents(KindsOf("none")) = 0
    /\ \A f \in {"length", "long", "eof"} : Len(KindsOf(f)) = 1 + Contents(KindsOf(f))
    /\ Contents(KindsOf("chunked")) = 2
<1> DEFINE At2(f) == {i \in 1..Len(KindsOf(f)) : KindsOf(f)[i] \in {"body", "data"}}
<1>1. Contents(KindsOf("none")) = 0
  <2>1. KindsOf("none") = <<"head">>  BY DEF KindsOf
  <2>2. At2("none") = {}  BY <2>1
  <2>3. QED  BY <2>2, FS_EmptySet DEF Contents
<1>2. Contents(KindsOf("length")) = 1 /\ Len(KindsOf("length")) = 2
  <2>1. KindsOf("length") = <<"head", "body">>  BY DEF KindsOf
  <2>2. At2("length") = {2}  BY <2>1
  <2>3. Cardinality({2}) = 1  BY FS_Singleton
  <2>4. QED  BY <2>1, <2>2, <2>3 DEF Contents
<1>3. ASSUME NEW f \in {"long", "eof"}
      PROVE  Contents(KindsOf(f)) = 2 /\ Len(KindsOf(f)) = 3
  <2>1. KindsOf(f) = <<"head", "body", "body">>  BY <1>3 DEF KindsOf
  <2>2. At2(f) = {2, 3}  BY <2>1
  <2>3. Cardinality({2, 3}) = 2  BY PairCardinality
  <2>4. QED  BY <2>1, <2>2, <2>3 DEF Contents
<1>4. Contents(KindsOf("chunked")) = 2
  <2>1. KindsOf("chunked") = <<"head", "size", "data", "size", "data", "zero", "end">>
    BY DEF KindsOf
  <2>2. At2("chunked") = {3, 5}
    <3>1. PICK k : k = KindsOf("chunked")  OBVIOUS
    <3>2. /\ Len(k) = 7 /\ k[1] = "head" /\ k[2] = "size" /\ k[3] = "data" /\ k[4] = "size"
          /\ k[5] = "data" /\ k[6] = "zero" /\ k[7] = "end"
      BY <2>1, <3>1
    <3>3. \A i \in 1..7 : i = 1 \/ i = 2 \/ i = 3 \/ i = 4 \/ i = 5 \/ i = 6 \/ i = 7
      OBVIOUS
    <3>4. \A i \in 1..7 : k[i] \in {"body", "data"} <=> i \in {3, 5}
      <4> HIDE <3>1, <2>1
      <4> QED  BY <3>2, <3>3
    <3>5. {i \in 1..Len(k) : k[i] \in {"body", "data"}} = {3, 5}
      <4> HIDE <3>1, <2>1
      <4> QED  BY <3>2, <3>4
    <3>6. QED  BY <3>1, <3>5, Zenon
  <2>3. Cardinality({3, 5}) = 2  BY PairCardinality
  <2>4. QED  BY <2>2, <2>3 DEF Contents
<1>5. ASSUME NEW f \in {"length", "long", "eof"}
      PROVE  Len(KindsOf(f)) = 1 + Contents(KindsOf(f))
  <2>1. CASE f = "length"
    <3>1. Contents(KindsOf(f)) = 1 /\ Len(KindsOf(f)) = 2  BY <1>2, <2>1, Zenon
    <3>2. QED  BY <3>1
  <2>2. CASE f \in {"long", "eof"}
    <3>1. Contents(KindsOf(f)) = 2 /\ Len(KindsOf(f)) = 3  BY <1>3, <2>2, Zenon
    <3>2. QED  BY <3>1
  <2>3. QED  BY <2>1, <2>2
<1>6. QED  BY <1>1, <1>4, <1>5, Zenon

\* The parts of a response, one by one.
LEMMA PartFacts ==
    ASSUME NEW r \in Requests, NEW f \in Framings
    PROVE  /\ PartsOf(r, f)[1].kind = "head" /\ PartsOf(r, f)[1].req = r
           /\ PartsOf(r, f)[1].framing = f
           /\ \A i \in 1..Len(KindsOf(f)) : PartsOf(r, f)[i].kind = KindsOf(f)[i]
           /\ f \notin {"overlong", "events"} =>
                 \A i \in 2..Len(KindsOf(f)) : Silent(PartsOf(r, f)[i])
<1>1. \A i \in 1..Len(KindsOf(f)) :
         PartsOf(r, f)[i] = [kind |-> KindsOf(f)[i], req |-> r, framing |-> f]
  BY PartsOfType
<1>2. \A i \in 1..Len(KindsOf(f)) :
         /\ PartsOf(r, f)[i].kind = KindsOf(f)[i] /\ PartsOf(r, f)[i].req = r
         /\ PartsOf(r, f)[i].framing = f
  <2> TAKE i \in 1..Len(KindsOf(f))
  <2>1. PICK kind : kind = KindsOf(f)[i]  OBVIOUS
  <2>2. PICK x : x = PartsOf(r, f)[i]  OBVIOUS
  <2>3. x = [kind |-> kind, req |-> r, framing |-> f]  BY <1>1, <2>1, <2>2, Zenon
  <2>4. x.kind = kind /\ x.req = r /\ x.framing = f  BY <2>3
  <2>5. QED  BY <2>1, <2>2, <2>4, Zenon
<1>3. PICK n \in 1..7 : n = Len(KindsOf(f))  BY KindFacts
<1>4. 1 \in 1..n /\ \A i \in 2..n : i \in 1..n  OBVIOUS
<1>5. KindsOf(f)[1] = "head"  BY KindFacts
<1>6. f \notin {"overlong", "events"} =>
         \A i \in 2..n : KindsOf(f)[i] \notin {"head", "event", "tail", "astray"}
  BY <1>3, KindFacts
<1>7. f \notin {"overlong", "events"} => \A i \in 2..n : Silent(PartsOf(r, f)[i])
  <2> SUFFICES ASSUME f \notin {"overlong", "events"}, NEW i \in 2..n
      PROVE  Silent(PartsOf(r, f)[i])
    OBVIOUS
  <2>1. PartsOf(r, f)[i].kind \notin {"head", "event", "tail", "astray"}
    BY <1>2, <1>3, <1>4, <1>6
  <2>2. QED  BY <2>1 DEF Silent, EndsInBlankLine
<1>8. QED  BY <1>2, <1>3, <1>4, <1>5, <1>7

\* Behind its head there is no blank line in a response, but for events.
LEMMA AlongQuiet ==
    ASSUME NEW r \in Requests, NEW f \in Framings, f \notin {"overlong", "events"},
           NEW parts \in Seq(Part),
           NEW k \in Nat, k >= 1, Along(parts, k, r, f)
    PROVE  Quiet(parts)
<1> SUFFICES ASSUME NEW i \in 1..Len(parts) PROVE Silent(parts[i])
  BY DEF Quiet
<1>1. PICK n \in 1..7 : n = Len(KindsOf(f))  BY KindFacts
<1>2. i \in Nat /\ i >= 1 /\ i + k > 0  BY LenProperties
<1>3. i + k <= n /\ parts[i] = PartsOf(r, f)[i + k]  BY <1>1, <1>2 DEF Along
<1>4. i + k \in 2..n  BY <1>2, <1>3
<1>5. QED  BY <1>1, <1>3, <1>4, PartFacts

\* Behind its last part there is nothing.
LEMMA AlongEmpty ==
    ASSUME NEW r \in Requests, NEW f \in Framings, NEW parts \in Seq(Part),
           NEW k \in Nat, k >= Len(KindsOf(f)), Along(parts, k, r, f)
    PROVE  parts = <<>>
<1>1. PICK n \in 1..7 : n = Len(KindsOf(f))  BY KindFacts
<1>2. PICK l \in Nat : l = Len(parts)  BY LenProperties
<1>3. l = 0
  <2> SUFFICES ASSUME l # 0 PROVE FALSE  OBVIOUS
  <2>1. 1 \in 1..Len(parts)  BY <1>2
  <2>2. 1 + k <= n  BY <1>1, <2>1 DEF Along
  <2>3. QED  BY <1>1, <2>2
<1>4. QED  BY <1>2, <1>3, EmptySeq

\* What a session and its device hold are sequences of parts.
LEMMA HeldParts ==
    ASSUME Types, NEW r \in Requests, session[r].conn \in Conns
    PROVE  /\ session[r].buf \in Seq(Part) /\ session[r].framing \in Framings
           /\ net[session[r].conn].inbox \in Seq(Part) /\ net[session[r].conn].out \in Seq(Part)
<1>1. session[r] \in Session /\ net[session[r].conn] \in Device  BY DEF Types
<1>2. QED  BY <1>1 DEF Session, Device

\* What is at hand and on the way is the response from its k-th part on.
Onward(b, q, o, k, r, f) ==
    /\ \A i \in 1..Len(b) + Len(q) : /\ i + k <= Len(KindsOf(f))
                                     /\ Pending(b, q, i) = PartsOf(r, f)[i + k]
    /\ Along(o, Len(b) + Len(q) + k, r, f)

\* When n parts are taken, from b before q, what is left follows n parts later.
LEMMA OnwardStep ==
    ASSUME NEW b \in Seq(Part), NEW q \in Seq(Part), NEW c \in Seq(Part), NEW p \in Seq(Part),
           NEW o, NEW f \in Framings, NEW r \in Requests, NEW k \in Nat, NEW n \in Nat,
           Len(c) + Len(p) + n = Len(b) + Len(q),
           \A i \in 1..Len(c) : c[i] = Pending(b, q, i + n),
           \A i \in 1..Len(p) : p[i] = Pending(b, q, i + Len(c) + n),
           Onward(b, q, o, k, r, f)
    PROVE  Onward(c, p, o, k + n, r, f)
<1>1. PICK lb \in Nat, lq \in Nat, lc \in Nat, lp \in Nat, l \in 1..7 :
        /\ lb = Len(b) /\ lq = Len(q) /\ lc = Len(c) /\ lp = Len(p) /\ l = Len(KindsOf(f))
  BY LenProperties, KindFacts
<1>2. /\ lc + lp + n = lb + lq
      /\ \A i \in 1..lc : c[i] = Pending(b, q, i + n)
      /\ \A i \in 1..lp : p[i] = Pending(b, q, i + lc + n)
  BY <1>1, Zenon
<1>3. /\ \A i \in 1..lb + lq : i + k <= l /\ Pending(b, q, i) = PartsOf(r, f)[i + k]
      /\ Along(o, lb + lq + k, r, f)
  BY <1>1, Zenon DEF Onward
<1>4. ASSUME NEW i \in 1..lc + lp
      PROVE  i + (k + n) <= l /\ Pending(c, p, i) = PartsOf(r, f)[i + (k + n)]
  <2>1. i + n \in 1..lb + lq /\ (i + n) + k = i + (k + n)
    <3> HIDE <1>1
    <3> QED  BY <1>2
  <2>2. Pending(c, p, i) = Pending(b, q, i + n)
    <3>1. CASE i <= lc
      <4>1. i \in 1..lc  BY <3>1
      <4>2. QED  BY <1>1, <1>2, <3>1, <4>1, Zenon DEF Pending
    <3>2. CASE ~(i <= lc)
      <4>1. i - lc \in 1..lp /\ (i - lc) + lc + n = i + n
        <5> HIDE <1>1
        <5> QED  BY <3>2
      <4>2. p[i - lc] = Pending(b, q, i + n)  BY <1>2, <4>1, Zenon
      <4>3. QED  BY <1>1, <3>2, <4>2, Zenon DEF Pending
    <3>3. QED  BY <3>1, <3>2
  <2>3. (i + n) + k <= l /\ Pending(b, q, i + n) = PartsOf(r, f)[(i + n) + k]
    BY <1>3, <2>1, Zenon
  <2>4. QED  BY <2>1, <2>2, <2>3, Zenon
<1>5. lc + lp + (k + n) = lb + lq + k
  <2> HIDE <1>1
  <2> QED  BY <1>2
<1>6. QED  BY <1>1, <1>3, <1>4, <1>5, Zenon DEF Onward

\* The same for what a request has at hand.
LEMMA FollowsStep ==
    ASSUME Types, Types', NEW r \in Requests, session[r].conn \in Conns,
           session'[r].conn = session[r].conn, session'[r].framing = session[r].framing,
           NEW k \in Nat, NEW n \in Nat, Follows(r, k), Moves(r, n)
    PROVE  Follows(r, k + n)'
<1>1. PICK b \in Seq(Part), q \in Seq(Part), c \in Seq(Part), p \in Seq(Part),
           o \in Seq(Part), f \in Framings :
        /\ b = session[r].buf /\ q = net[session[r].conn].inbox
        /\ c = session'[r].buf /\ p = net'[session[r].conn].inbox
        /\ o = net[session[r].conn].out /\ f = session[r].framing
  <2>1. /\ session[r].buf \in Seq(Part) /\ session[r].framing \in Framings
        /\ net[session[r].conn].inbox \in Seq(Part) /\ net[session[r].conn].out \in Seq(Part)
    BY HeldParts
  <2>2. session'[r] \in Session /\ net'[session[r].conn] \in Device  BY DEF Types
  <2>3. session'[r].buf \in Seq(Part) /\ net'[session[r].conn].inbox \in Seq(Part)
    BY <2>2 DEF Session, Device
  <2>4. QED  BY <2>1, <2>3
<1>2. /\ Len(c) + Len(p) + n = Len(b) + Len(q)
      /\ \A i \in 1..Len(c) : c[i] = Pending(b, q, i + n)
      /\ \A i \in 1..Len(p) : p[i] = Pending(b, q, i + Len(c) + n)
      /\ net'[session[r].conn].out = o
  BY <1>1, Zenon DEF Moves
<1>3. Onward(b, q, o, k, r, f)  BY <1>1, Zenon DEF Follows, Onward
<1>4. Onward(c, p, o, k + n, r, f)  BY <1>2, <1>3, OnwardStep, Zenon
<1>5. QED  BY <1>1, <1>2, <1>4, Zenon DEF Follows, Onward

-----------------------------------------------------------------------------
(* What steps leave on the wire.                                           *)

\* What was left behind stays known.
LEMMA SpoiltStays ==
    ASSUME PoolIInv, \A q \in Requests : session[q].stage = "done" => session'[q].stage = "done",
           \/ calling' = calling
           \/ calling = None
           \/ calling.next = "done" => session'[calling.req].stage = "done",
           Spoilt
    PROVE  Spoilt'
<1>1. PICK q \in Requests :
        /\ "chunked" \in FramingsOf[q]
        /\ session[q].stage = "done" \/ (Ending(q) /\ calling.next = "done")
  BY DEF Spoilt
<1>2. session'[q].stage = "done" \/ (Ending(q) /\ calling.next = "done")'
  BY <1>1 DEF Ending
<1>3. QED  BY <1>1, <1>2 DEF Spoilt

\* A connection at rest, and one that is about to carry a response.
LEMMA RestsStays ==
    ASSUME NEW c \in Conns, net'[c] = net[c], conn[c].shut => conn'[c].shut, Spoilt => Spoilt'
    PROVE  /\ Rests(c) => Rests(c)'
           /\ Dead(c) => Dead(c)'
           /\ \A r \in Requests : Expecting(c, r) => Expecting(c, r)'
<1>1. PICK d : d = net[c] /\ net'[c] = d  OBVIOUS
<1>2. Dead(c) => Dead(c)'  BY <1>1 DEF Dead
<1>3. Leftover(c) => Leftover(c)'  BY <1>1 DEF Leftover
<1>4. \A r \in Requests : Asked(c, r) => Asked(c, r)'  BY <1>1 DEF Asked
<1>5. \A r, f, m : Coming(c, r, f, m) => Coming(c, r, f, m)'  BY <1>1, Zenon DEF Coming
<1>6. \A r \in Requests : Expecting(c, r) => Expecting(c, r)'
  BY <1>1, <1>4, <1>5, Zenon DEF Expecting
<1>7. QED  BY <1>2, <1>3, <1>6 DEF Rests

\* r's session is as it was, though it may be about to be told of it.
SameSession(r) ==
    LET s == session[r]
        t == session'[r]
    IN  /\ t.conn = s.conn /\ t.head = s.head /\ t.framing = s.framing /\ t.buf = s.buf
        /\ t.got = s.got /\ t.left = s.left

\* A request that does not move has what it had.
LEMMA FitsStays ==
    ASSUME NEW r \in Requests, SameSession(r), At(r)' = At(r),
           NEW c \in Conns, c = session[r].conn, net'[c] = net[c],
           conn[c].shut => conn'[c].shut, Spoilt => Spoilt', Fits(r)
    PROVE  Fits(r)'
<1>1. PICK d : d = net[c] /\ net'[c] = d /\ session[r].conn = c /\ session'[r].conn = c
  BY DEF SameSession
<1>2. PICK b, f, g, l, h :
        /\ b = session[r].buf /\ session'[r].buf = b
        /\ f = session[r].framing /\ session'[r].framing = f
        /\ g = session[r].got /\ session'[r].got = g
        /\ l = session[r].left /\ session'[r].left = l
        /\ h = session[r].head /\ session'[r].head = h
  BY DEF SameSession
<1>3. \A k : Follows(r, k) => Follows(r, k)'  BY <1>1, <1>2, Zenon DEF Follows
<1>4. \A stage : Taken(session'[r], stage) = Taken(session[r], stage)
  BY <1>2, Zenon DEF Taken
<1>5. \A stage : Receives(r, stage) => Receives(r, stage)'
  BY <1>1, <1>2, <1>3, <1>4, Zenon DEF Receives
<1>6. PICK a : a = At(r) /\ At(r)' = a  OBVIOUS
<1>7. Fits(r)  OBVIOUS
<1>8. /\ a \in {"resolve", "connect"} => net[c] = NoNet
      /\ a \in Connecting \cup {"write"} => Rests(c)
      /\ a = "read" => Dead(c) \/ Expecting(c, r)
      /\ a \in Receiving => Receives(r, a)
  BY <1>1, <1>6, <1>7, Zenon DEF Fits
<1>9. /\ a \in {"resolve", "connect"} => net'[c] = NoNet
      /\ a \in Connecting \cup {"write"} => Rests(c)'
      /\ a = "read" => Dead(c)' \/ Expecting(c, r)'
      /\ a \in Receiving => Receives(r, a)'
  BY <1>1, <1>5, <1>8, RestsStays, Zenon
<1>10. QED  BY <1>1, <1>6, <1>9, Zenon DEF Fits

\* A connection without a device.
LEMMA NoNetFacts ==
    ~NoNet.up /\ Quiet(NoNet.inbox)
<1>1. NoNet.up = FALSE /\ NoNet.inbox = <<>>  BY DEF NoNet
<1>2. Quiet(<<>>)  BY EmptySeq DEF Quiet
<1>3. QED  BY <1>1, <1>2

\* A connection that a step does not touch.
LEMMA OrderlyStays ==
    ASSUME NEW c \in Conns, Orderly(c), conn[c].stream => conn'[c].stream, net'[c] = net[c],
           conn[c].shut => conn'[c].shut, Spoilt => Spoilt',
           \A q \in Requests : UsedBy(c, q)' <=> UsedBy(c, q),
           \A q \in Requests : UsedBy(c, q) => SameSession(q) /\ At(q)' = At(q)
    PROVE  Orderly(c)'
<1> SUFFICES ASSUME ~conn'[c].stream
    PROVE  /\ \A q \in Requests : UsedBy(c, q)' => Fits(q)'
           /\ (\A q \in Requests : ~UsedBy(c, q)') => Rests(c)'
  BY DEF Orderly
<1>1. ~conn[c].stream  OBVIOUS
<1>2. ASSUME NEW q \in Requests, UsedBy(c, q)' PROVE Fits(q)'
  <2>1. UsedBy(c, q) /\ SameSession(q) /\ At(q)' = At(q)  BY <1>2
  <2>2. Fits(q) /\ c = session[q].conn  BY <1>1, <2>1 DEF Orderly, UsedBy
  <2>3. QED  BY <2>1, <2>2, FitsStays
<1>3. (\A q \in Requests : ~UsedBy(c, q)') => Rests(c)'
  BY <1>1, RestsStays DEF Orderly
<1>4. QED  BY <1>2, <1>3

\* A connection that is gone.
LEMMA GoneOrderly ==
    ASSUME PoolIInv', NEW c \in Conns, ~Alive(c), net'[c] = NoNet
    PROVE  Orderly(c)'
<1>1. \A q \in Requests : ~UsedBy(c, q)'  BY DEF Alive, Held, UsedBy
<1>2. Dead(c)'  BY NoNetFacts DEF Dead
<1>3. QED  BY <1>1, <1>2 DEF Orderly, Rests

\* What r has at its connection c when it moves.
Leaves(r, c) == ~conn'[c].stream => IF Uses(r)' THEN Fits(r)' ELSE Rests(c)'

\* A request that goes on, or is called back, need only see to its own
\* connection.
LEMMA OwnWire ==
    ASSUME PoolIInv, SharingInv, WireInv, NEW r \in Requests, NEW c \in Conns, c = session[r].conn,
           Goes(r) \/ CallsBack(r), Leaves(r, c)
    PROVE  WireInv'
<1>1. c = session[r].conn  OBVIOUS
<1>2. /\ r \in Active /\ calling = None /\ session'[r].conn = c
      /\ \A q \in Requests \ {r} : session'[q] = session[q]
      /\ calling' = None \/ calling'.req = r
  BY <1>1, Zenon DEF Goes, CallsBack, Same
<1>3. session'[r].stage # "done"
  <2>1. CASE CallsBack(r)  BY <2>1 DEF CallsBack
  <2>2. CASE Goes(r)
    <3>1. session[r].stage \in Connecting => session'[r].stage # "done"
      BY <2>2, ConnectingFacts, StageFacts DEF Goes
    <3>2. QED  BY <2>2, <3>1, StageFacts DEF Goes
  <2>3. QED  BY <2>1, <2>2
<1>4. Spoilt => Spoilt'
  <2>1. \A q \in Requests : session[q].stage = "done" => session'[q].stage = "done"
    BY <1>2 DEF Active
  <2>2. QED  BY <1>2, <2>1, SpoiltStays
<1>5. \A d \in Conns : d # c => conn'[d] = conn[d] /\ net'[d] = net[d]
  BY <1>1, Zenon DEF Goes, CallsBack
<1>6. \A q \in Requests : q # r => (Uses(q)' <=> Uses(q)) /\ At(q)' = At(q) /\ SameSession(q)
  <2> TAKE q \in Requests
  <2> HAVE q # r
  <2>1. session'[q] = session[q]  BY <1>2
  <2>2. session[q].stage # "callback"  BY <1>2, FreeFacts
  <2>3. At(q)' = At(q)  BY <2>1, <2>2 DEF At
  <2>4. Uses(q)' <=> Uses(q)  BY <1>2, <2>1, SameUses
  <2>5. SameSession(q)  BY <2>1 DEF SameSession
  <2>6. QED  BY <2>3, <2>4, <2>5
<1>7. ASSUME NEW d \in Conns, d # c PROVE Orderly(d)'
  <2>1. Orderly(d)  BY DEF WireInv
  <2>2. \A q \in Requests : UsedBy(d, q)' <=> UsedBy(d, q)
    <3> TAKE q \in Requests
    <3>1. CASE q = r  BY <1>1, <1>2, <1>7, <3>1 DEF UsedBy
    <3>2. CASE q # r  BY <1>2, <1>6, <3>2 DEF UsedBy
    <3>3. QED  BY <3>1, <3>2
  <2>3. \A q \in Requests : UsedBy(d, q) => SameSession(q) /\ At(q)' = At(q)
    <3> TAKE q \in Requests
    <3> HAVE UsedBy(d, q)
    <3>1. q # r  BY <1>1, <1>7 DEF UsedBy
    <3>2. QED  BY <1>6, <3>1
  <2>4. conn'[d] = conn[d] /\ net'[d] = net[d]  BY <1>5, <1>7
  <2>5. QED  BY <1>4, <2>1, <2>2, <2>3, <2>4, OrderlyStays
<1>8. Orderly(c)'
  <2> SUFFICES ASSUME ~conn'[c].stream
      PROVE  /\ \A q \in Requests : UsedBy(c, q)' => Fits(q)'
             /\ (\A q \in Requests : ~UsedBy(c, q)') => Rests(c)'
    BY DEF Orderly
  <2>1. ~conn[c].stream
    <3>1. conn[c].stream => conn'[c].stream
      <4>1. CASE Goes(r)  BY <1>1, <4>1, Zenon DEF Goes
      <4>2. CASE CallsBack(r)
        <5>1. conn'[c].stream = (conn[c].stream \/ (calling'.end /\ calling'.next = "events"))
          BY <1>1, <4>2, Zenon DEF CallsBack
        <5>2. QED  BY <5>1
      <4>3. QED  BY <4>1, <4>2
    <3>2. QED  BY <3>1
  <2>2. Uses(r)  BY <1>2 DEF Uses, Ending
  <2>3. \A q \in Requests : q # r => ~UsedBy(c, q)'
    <3> TAKE q \in Requests
    <3> HAVE q # r
    <3>1. Uses(q) => session[q].conn # c  BY <1>1, <2>1, <2>2 DEF SharingInv
    <3>2. QED  BY <1>2, <1>6, <3>1 DEF UsedBy
  <2>4. IF Uses(r)' THEN Fits(r)' ELSE Rests(c)'  BY <1>1, Zenon DEF Leaves
  <2>5. Uses(r)' <=> UsedBy(c, r)'  BY <1>2 DEF UsedBy
  <2>6. QED  BY <2>3, <2>4, <2>5
<1>9. QED  BY <1>7, <1>8 DEF WireInv

\* A request gets its connection.
LEMMA AsksWire ==
    ASSUME PoolIInv, SharingInv, WireInv, NEW r \in Requests, NEW c \in Conns, Asks(r, c)
    PROVE  WireInv'
<1>1. PICK t : t = session'[r]  OBVIOUS
<1>2. /\ running /\ session[r].stage = "idle"
      /\ (c \in pool /\ ~conn[c].inUse) \/ c \notin pool \cup Held
      /\ t.stage = (IF conn[c].open THEN "write" ELSE "resolve") /\ t.conn = c
      /\ \A q \in Requests \ {r} : session'[q] = session[q]
      /\ conn'[c].shut = conn[c].shut /\ conn'[c].stream = conn[c].stream
      /\ \A d \in Conns : d # c => conn'[d] = conn[d]
      /\ net' = net /\ calling' = calling
  BY <1>1 DEF Asks, Same
<1>3. ~Uses(r)  BY <1>2 DEF Uses, Active
<1>4. Spoilt => Spoilt'
  <2>1. \A q \in Requests : session[q].stage = "done" => session'[q].stage = "done"  BY <1>2
  <2>2. QED  BY <1>2, <2>1, SpoiltStays
<1>5. \A q \in Requests : q # r => (Uses(q)' <=> Uses(q)) /\ At(q)' = At(q) /\ SameSession(q)
  <2> TAKE q \in Requests
  <2> HAVE q # r
  <2>1. session'[q] = session[q]  BY <1>2
  <2>2. Uses(q)' <=> Uses(q)  BY <1>2, <2>1, SameUses
  <2>3. QED  BY <1>2, <2>1, <2>2 DEF At, SameSession
<1>6. ASSUME NEW d \in Conns, d # c PROVE Orderly(d)'
  <2>1. Orderly(d)  BY DEF WireInv
  <2>2. \A q \in Requests : UsedBy(d, q)' <=> UsedBy(d, q)
    <3> TAKE q \in Requests
    <3>1. CASE q = r  BY <1>1, <1>2, <1>3, <1>6, <3>1 DEF UsedBy
    <3>2. CASE q # r  BY <1>2, <1>5, <3>2 DEF UsedBy
    <3>3. QED  BY <3>1, <3>2
  <2>3. \A q \in Requests : UsedBy(d, q) => SameSession(q) /\ At(q)' = At(q)
    BY <1>3, <1>5 DEF UsedBy
  <2>4. conn'[d] = conn[d] /\ net'[d] = net[d]  BY <1>2, <1>6
  <2>5. QED  BY <1>4, <2>1, <2>2, <2>3, <2>4, OrderlyStays
<1>7. Orderly(c)'
  <2> SUFFICES ASSUME ~conn'[c].stream
      PROVE  /\ \A q \in Requests : UsedBy(c, q)' => Fits(q)'
             /\ (\A q \in Requests : ~UsedBy(c, q)') => Rests(c)'
    BY DEF Orderly
  <2>1. ~conn[c].stream  BY <1>2
  <2>2. \A q \in Requests : ~UsedBy(c, q)
    <3> SUFFICES ASSUME NEW q \in Requests, UsedBy(c, q) PROVE FALSE  OBVIOUS
    <3>1. c \in Held  BY DEF Held, UsedBy
    <3>2. conn[c].inUse  BY <2>1 DEF SharingInv, UsedBy
    <3>3. QED  BY <1>2, <3>1, <3>2
  <2>3. Rests(c)  BY <2>1, <2>2 DEF WireInv, Orderly
  <2>4. Rests(c)'  BY <1>2, <1>4, <2>3, RestsStays
  <2>5. \A q \in Requests : q # r => ~UsedBy(c, q)'
    BY <1>2, <1>5, <2>2 DEF UsedBy
  <2>6. Fits(r)'
    <3>1. At(r)' = t.stage  BY <1>1, <1>2 DEF At
    <3>2. t.stage = "resolve" => net'[c] = NoNet  BY <1>2 DEF PoolIInv, ConnInv
    <3>3. t.stage \in {"write", "resolve"}  BY <1>2
    <3>4. t.stage \notin Receiving /\ t.stage # "read" /\ t.stage # "connect"
      BY <3>3, StageFacts
    <3>5. QED  BY <1>1, <1>2, <2>4, <3>1, <3>2, <3>4, Zenon DEF Fits
  <2>7. QED  BY <2>4, <2>5, <2>6
<1>8. QED  BY <1>6, <1>7 DEF WireInv

\* A request starts anew.
LEMMA RetriesWire ==
    ASSUME PoolIInv, PoolIInv', SharingInv, WireInv, NEW r \in Requests, NEW c \in Conns,
           Retries(r, c)
    PROVE  WireInv'
<1>1. PICK t : t = session'[r]  OBVIOUS
<1>2. PICK old \in Conns : old = session[r].conn
  <2>1. r \in Active  BY DEF Retries
  <2>2. QED  BY <2>1 DEF PoolIInv, SessionInv
<1>3. /\ running /\ calling = None /\ calling' = None /\ r \in Active
      /\ old \in pool /\ c \notin pool \cup Held /\ pool' = (pool \ {old}) \cup {c}
      /\ t.stage = "resolve" /\ t.conn = c
      /\ \A q \in Requests \ {r} : session'[q] = session[q]
      /\ ~conn'[c].stream
      /\ \A d \in Conns : d # c => conn'[d] = IF Alive(d) THEN conn[d] ELSE NewConn
      /\ \A d \in Conns : net'[d] = IF Alive(d) THEN net[d] ELSE NoNet
  BY <1>1, <1>2 DEF Retries, Same
<1>4. Spoilt => Spoilt'
  <2>1. \A q \in Requests : session[q].stage = "done" => session'[q].stage = "done"
    BY <1>3 DEF Active
  <2>2. QED  BY <1>3, <2>1, SpoiltStays
<1>5. \A q \in Requests : q # r => (Uses(q)' <=> Uses(q)) /\ At(q)' = At(q) /\ SameSession(q)
  <2> TAKE q \in Requests
  <2> HAVE q # r
  <2>1. session'[q] = session[q]  BY <1>3
  <2>2. Uses(q)' <=> Uses(q)  BY <1>3, <2>1, SameUses
  <2>3. session[q].stage # "callback"  BY <1>3, FreeFacts
  <2>4. QED  BY <2>1, <2>2, <2>3 DEF At, SameSession
<1>6. \A q \in Requests : q # r => ~UsedBy(c, q)'
  <2> TAKE q \in Requests
  <2> HAVE q # r
  <2>1. session[q].conn # c  BY <1>3 DEF Held
  <2>2. QED  BY <1>3, <2>1 DEF UsedBy
<1>7. ASSUME Alive(old) PROVE conn'[old].stream
  <2>1. old # c /\ old \notin pool'  BY <1>3
  <2>2. PICK q \in Requests : session'[q].conn = old  BY <1>7, <2>1 DEF Alive, Held
  <2>3. q # r /\ session[q].conn = old  BY <1>1, <1>3, <2>1, <2>2
  <2>4. q \in Active
    <3>1. None \notin Conns  BY ClientAssumption DEF ClientAssumption
    <3>2. QED  BY <1>2, <2>3, <3>1 DEF PoolIInv, SessionInv
  <2>5. Uses(q) /\ Uses(r)  BY <1>3, <2>4 DEF Uses, Ending
  <2>6. conn[old].stream  BY <1>2, <2>3, <2>5 DEF SharingInv
  <2>7. QED  BY <1>3, <1>7, <2>1, <2>6
<1>8. ASSUME NEW d \in Conns, d # c PROVE Orderly(d)'
  <2>1. CASE ~Alive(d)  BY <1>3, <2>1, GoneOrderly
  <2>2. CASE Alive(d) /\ d = old  BY <1>7, <2>2 DEF Orderly
  <2>3. CASE Alive(d) /\ d # old
    <3>1. Orderly(d)  BY DEF WireInv
    <3>2. conn'[d] = conn[d] /\ net'[d] = net[d]  BY <1>3, <1>8, <2>3
    <3>3. \A q \in Requests : UsedBy(d, q)' <=> UsedBy(d, q)
      <4> TAKE q \in Requests
      <4>1. CASE q = r  BY <1>1, <1>2, <1>3, <1>8, <2>3, <4>1 DEF UsedBy
      <4>2. CASE q # r  BY <1>3, <1>5, <4>2 DEF UsedBy
      <4>3. QED  BY <4>1, <4>2
    <3>4. \A q \in Requests : UsedBy(d, q) => SameSession(q) /\ At(q)' = At(q)
      BY <1>2, <1>5, <2>3 DEF UsedBy
    <3>5. QED  BY <1>4, <3>1, <3>2, <3>3, <3>4, OrderlyStays
  <2>4. QED  BY <2>1, <2>2, <2>3
<1>9. Orderly(c)'
  <2>1. net'[c] = NoNet  BY <1>3 DEF PoolIInv, ConnInv
  <2>2. Rests(c)'  BY <2>1, NoNetFacts DEF Rests, Dead
  <2>3. At(r)' = "resolve"  BY <1>1, <1>3 DEF At
  <2>4. "resolve" \notin Receiving  BY StageFacts
  <2>5. Fits(r)'  BY <1>1, <1>3, <2>1, <2>2, <2>3, <2>4, Zenon DEF Fits
  <2>6. UsedBy(c, r)'
    <3>1. Uses(r)'  BY <1>1, <1>3 DEF Uses, Ending, Active
    <3>2. QED  BY <1>1, <1>3, <3>1 DEF UsedBy
  <2>7. QED  BY <1>6, <2>5, <2>6 DEF Orderly
<1>10. QED  BY <1>8, <1>9 DEF WireInv

\* The application is told.
LEMMA PrunesWire ==
    ASSUME PoolIInv, PoolIInv', SharingInv, WireInv, NEW r \in Requests, Prunes(r)
    PROVE  WireInv'
<1>1. PICK s : s = session[r]  OBVIOUS
<1>2. /\ calling # None /\ calling.req = r /\ calling' = None
      /\ IF calling.next = "done" THEN session'[r] = [NewSession EXCEPT !.stage = "done"]
         ELSE session'[r] = [s EXCEPT !.stage = calling.next]
      /\ \A q \in Requests \ {r} : session'[q] = session[q]
      /\ \A d \in Conns : conn'[d] = IF Alive(d) THEN conn[d] ELSE NewConn
      /\ \A d \in Conns : net'[d] = IF Alive(d) THEN net[d] ELSE NoNet
  BY <1>1 DEF Prunes, Same
<1>3. calling.next = "done" => session'[r].stage = "done"  BY <1>2, DoneFacts
<1>4. s \in Session /\ s.stage = "callback"
  BY <1>1, <1>2 DEF PoolIInv, Types, CallInv
<1>5. Spoilt => Spoilt'
  <2>1. \A q \in Requests : session[q].stage = "done" => session'[q].stage = "done"
    BY <1>1, <1>2, <1>4
  <2>2. QED  BY <1>2, <1>3, <2>1, SpoiltStays
<1>6. \A q \in Requests : q # r => (Uses(q)' <=> Uses(q)) /\ At(q)' = At(q) /\ SameSession(q)
  <2> TAKE q \in Requests
  <2> HAVE q # r
  <2>1. session'[q] = session[q]  BY <1>2
  <2>2. Uses(q)' <=> Uses(q)  BY <1>2, <2>1, SameUses
  <2>3. session[q].stage # "callback"  BY <1>2 DEF PoolIInv, SessionInv
  <2>4. QED  BY <2>1, <2>2, <2>3 DEF At, SameSession
<1>7. calling.next # "done" =>
         SameSession(r) /\ session'[r].stage = calling.next /\ At(r)' = At(r)
  <2> HAVE calling.next # "done"
  <2>1. session'[r] = [s EXCEPT !.stage = calling.next]  BY <1>2
  <2>2. SameSession(r) /\ session'[r].stage = calling.next
    BY <1>1, <1>4, <2>1 DEF SameSession, Session
  <2>3. calling.next # "callback"
    BY <1>2 DEF PoolIInv, Types, CallbackArgs
  <2>4. At(r)' = calling.next /\ At(r) = calling.next
    BY <1>1, <1>4, <2>2, <2>3 DEF At
  <2>5. QED  BY <2>2, <2>4
<1>8. ASSUME NEW d \in Conns, Alive(d), ~conn[d].stream, UsedBy(d, r) \/ UsedBy(d, r)'
      PROVE  calling.next # "done" /\ UsedBy(d, r) /\ UsedBy(d, r)'
  <2>1. calling.next # "done"
    <3> SUFFICES ASSUME calling.next = "done" PROVE FALSE  OBVIOUS
    <3>1. calling.end  BY <1>2 DEF PoolIInv, CallInv
    <3>2. ~Uses(r)  BY <1>2, <3>1 DEF Uses, Ending
    <3>3. ~Uses(r)'  BY <1>3 DEF Uses, Active
    <3>4. QED  BY <1>8, <3>2, <3>3 DEF UsedBy
  <2>2. SameSession(r) /\ session'[r].stage = calling.next  BY <1>7, <2>1
  <2>3. session[r].conn = d /\ session'[r].conn = d  BY <1>8, <2>2 DEF UsedBy, SameSession
  <2>4. ~calling.end
    <3> SUFFICES ASSUME calling.end PROVE FALSE  OBVIOUS
    <3>1. calling.next = "events"  BY <1>2, <2>1 DEF PoolIInv, CallInv
    <3>2. Streams(r)  BY <1>2, <3>1 DEF Streams
    <3>3. QED  BY <1>8, <2>3, <3>2 DEF SharingInv
  <2>5. Uses(r)  BY <1>1, <1>4, <2>4 DEF Uses, Ending, Active
  <2>6. Uses(r)'
    <3>1. calling.next \notin {"idle", "done"}
      BY <1>2, <2>1 DEF PoolIInv, Types, CallbackArgs
    <3>2. QED  BY <1>2, <2>2, <3>1 DEF Uses, Ending, Active
  <2>7. QED  BY <2>1, <2>3, <2>5, <2>6 DEF UsedBy
<1>9. ASSUME NEW d \in Conns PROVE Orderly(d)'
  <2>1. CASE ~Alive(d)  BY <1>2, <2>1, GoneOrderly
  <2>2. CASE Alive(d) /\ conn[d].stream  BY <1>2, <2>2 DEF Orderly
  <2>3. CASE Alive(d) /\ ~conn[d].stream
    <3>1. Orderly(d)  BY DEF WireInv
    <3>2. conn'[d] = conn[d] /\ net'[d] = net[d]  BY <1>2, <2>3
    <3>3. \A q \in Requests : UsedBy(d, q)' <=> UsedBy(d, q)
      <4> TAKE q \in Requests
      <4>1. CASE q = r  BY <1>8, <2>3, <4>1
      <4>2. CASE q # r  BY <1>2, <1>6, <4>2 DEF UsedBy
      <4>3. QED  BY <4>1, <4>2
    <3>4. \A q \in Requests : UsedBy(d, q) => SameSession(q) /\ At(q)' = At(q)
      BY <1>6, <1>7, <1>8, <2>3
    <3>5. QED  BY <1>5, <3>1, <3>2, <3>3, <3>4, OrderlyStays
  <2>4. QED  BY <2>1, <2>2, <2>3
<1>10. QED  BY <1>9 DEF WireInv

\* Devices and timers, and stop, where what they do to a device is seen to.
LEMMA ChangesWire ==
    ASSUME PoolIInv, PoolIInv', running, WireInv, Changes,
           \A c \in Conns : Alive(c) =>
               \/ net'[c] = net[c]
               \/ /\ Rests(c) => Rests(c)'
                  /\ \A r \in Requests : UsedBy(c, r) /\ Fits(r) => Fits(r)'
    PROVE  WireInv'
<1>1. \A q \in Requests : session'[q].stage = session[q].stage /\ SameSession(q)
  BY DEF Changes, SameSession
<1>2. calling' = calling  BY DEF Changes
<1>3. \A q \in Requests : (Uses(q)' <=> Uses(q)) /\ At(q)' = At(q)
  BY <1>1, <1>2 DEF Uses, Ending, Active, At
<1>4. \A d \in Conns, q \in Requests : UsedBy(d, q)' <=> UsedBy(d, q)
  BY <1>1, <1>3 DEF UsedBy, SameSession
<1>5. Spoilt => Spoilt'  BY <1>1, <1>2, SpoiltStays
<1>6. ASSUME NEW d \in Conns PROVE Orderly(d)'
  <2>1. CASE ~Alive(d)
    <3>1. net'[d] = NoNet  BY <2>1 DEF Changes
    <3>2. QED  BY <2>1, <3>1, GoneOrderly
  <2>2. CASE Alive(d) /\ net'[d] = net[d]
    <3>1. conn'[d].stream = conn[d].stream /\ (conn[d].shut => conn'[d].shut)
      BY <2>2 DEF Changes
    <3>2. Orderly(d)  BY DEF WireInv
    <3>3. QED  BY <1>1, <1>3, <1>4, <1>5, <2>2, <3>1, <3>2, OrderlyStays
  <2>3. CASE /\ Alive(d)
             /\ Rests(d) => Rests(d)'
             /\ \A r \in Requests : UsedBy(d, r) /\ Fits(r) => Fits(r)'
    <3>1. conn'[d].stream = conn[d].stream  BY <2>3 DEF Changes
    <3>2. Orderly(d)  BY DEF WireInv
    <3>3. QED  BY <1>4, <2>3, <3>1, <3>2 DEF Orderly
  <2>4. QED  BY <2>1, <2>2, <2>3
<1>7. QED  BY <1>6 DEF WireInv

\* Onward, told of the buffer, the inbox and the rest apart.
LEMMA OnwardAlong ==
    ASSUME NEW b \in Seq(Part), NEW q \in Seq(Part), NEW o, NEW f \in Framings,
           NEW r \in Requests, NEW k \in Nat, k >= 1
    PROVE  Onward(b, q, o, k, r, f) <=> /\ Along(b, k, r, f)
                                        /\ Along(q, Len(b) + k, r, f)
                                        /\ Along(o, Len(b) + Len(q) + k, r, f)
<1>1. PICK lb \in Nat, lq \in Nat, l \in 1..7 :
        lb = Len(b) /\ lq = Len(q) /\ l = Len(KindsOf(f))
  BY LenProperties, KindFacts
<1> DEFINE All == \A i \in 1..lb + lq : i + k <= l /\ Pending(b, q, i) = PartsOf(r, f)[i + k]
           Buf == \A i \in 1..lb : i + k > 0 => i + k <= l /\ b[i] = PartsOf(r, f)[i + k]
           In  == \A i \in 1..lq : i + (lb + k) > 0 =>
                      i + (lb + k) <= l /\ q[i] = PartsOf(r, f)[i + (lb + k)]
<1>3. ASSUME All PROVE Buf /\ In
  <2>1. ASSUME NEW i \in 1..lb PROVE i + k <= l /\ b[i] = PartsOf(r, f)[i + k]
    <3>1. i \in 1..lb + lq /\ i <= lb  OBVIOUS
    <3>2. Pending(b, q, i) = b[i]  BY <1>1, <3>1, Zenon DEF Pending
    <3>3. QED  BY <1>3, <3>1, <3>2, Zenon
  <2>2. ASSUME NEW i \in 1..lq PROVE i + (lb + k) <= l /\ q[i] = PartsOf(r, f)[i + (lb + k)]
    <3>1. /\ i + lb \in 1..lb + lq /\ ~(i + lb <= lb) /\ (i + lb) - lb = i
          /\ (i + lb) + k = i + (lb + k)
      OBVIOUS
    <3>2. Pending(b, q, i + lb) = q[i]  BY <1>1, <3>1, Zenon DEF Pending
    <3>3. (i + lb) + k <= l /\ Pending(b, q, i + lb) = PartsOf(r, f)[(i + lb) + k]
      BY <1>3, <3>1, Zenon
    <3>4. QED  BY <3>1, <3>2, <3>3, Zenon
  <2>3. QED  BY <2>1, <2>2, Zenon
<1>4. ASSUME Buf, In PROVE All
  <2> SUFFICES ASSUME NEW i \in 1..lb + lq
      PROVE  i + k <= l /\ Pending(b, q, i) = PartsOf(r, f)[i + k]
    OBVIOUS
  <2>1. CASE i <= lb
    <3>1. i \in 1..lb /\ i + k > 0  BY <2>1
    <3>2. Pending(b, q, i) = b[i]  BY <1>1, <2>1, Zenon DEF Pending
    <3>3. QED  BY <1>4, <3>1, <3>2, Zenon
  <2>2. CASE ~(i <= lb)
    <3>1. i - lb \in 1..lq /\ (i - lb) + (lb + k) = i + k /\ (i - lb) + (lb + k) > 0
      BY <2>2
    <3>2. Pending(b, q, i) = q[i - lb]  BY <1>1, <2>2, Zenon DEF Pending
    <3>3. QED  BY <1>4, <3>1, <3>2, Zenon
  <2>3. QED  BY <2>1, <2>2
<1>5. Onward(b, q, o, k, r, f) <=> All /\ Along(o, lb + lq + k, r, f)  BY <1>1, Zenon DEF Onward
<1>6. Along(b, k, r, f) <=> Buf  BY <1>1, Zenon DEF Along
<1>7. Along(q, lb + k, r, f) <=> In  BY <1>1, Zenon DEF Along
<1> HIDE DEF All, Buf, In
<1>8. Onward(b, q, o, k, r, f) <=> /\ Along(b, k, r, f)
                        /\ Along(q, lb + k, r, f)
                        /\ Along(o, lb + lq + k, r, f)
  BY <1>3, <1>4, <1>5, <1>6, <1>7, Zenon
<1>9. QED  BY <1>1, <1>8, Zenon

\* What follows the head of a response has no blank line, but for events; after
\* the last part nothing follows.
LEMMA OnwardFacts ==
    ASSUME NEW b \in Seq(Part), NEW q \in Seq(Part), NEW o \in Seq(Part), NEW f \in Framings,
           f \notin {"overlong", "events"}, NEW r \in Requests,
           NEW k \in Nat, k >= 1, Onward(b, q, o, k, r, f)
    PROVE  /\ Quiet(q) /\ Quiet(o)
           /\ k >= Len(KindsOf(f)) => q = <<>> /\ o = <<>>
<1>1. PICK lb \in Nat, lq \in Nat, l \in 1..7 :
        lb = Len(b) /\ lq = Len(q) /\ l = Len(KindsOf(f))
  BY LenProperties, KindFacts
<1>2. Along(q, lb + k, r, f) /\ Along(o, lb + lq + k, r, f)
  BY <1>1, OnwardAlong, Zenon
<1>3. /\ lb + k \in Nat /\ lb + k >= 1 /\ lb + lq + k \in Nat /\ lb + lq + k >= 1
      /\ k >= l => lb + k >= l /\ lb + lq + k >= l
  <2> HIDE <1>1
  <2> QED  OBVIOUS
<1>4. Quiet(q)  BY <1>2, <1>3, AlongQuiet, Zenon
<1>5. Quiet(o)  BY <1>2, <1>3, AlongQuiet, Zenon
<1>6. ASSUME k >= l PROVE q = <<>> /\ o = <<>>
  <2>1. lb + k >= Len(KindsOf(f)) /\ lb + lq + k >= Len(KindsOf(f))
    BY <1>1, <1>3, <1>6, Zenon
  <2>2. q = <<>>  BY <1>2, <1>3, <2>1, AlongEmpty, Zenon
  <2>3. o = <<>>  BY <1>2, <1>3, <2>1, AlongEmpty, Zenon
  <2>4. QED  BY <2>2, <2>3
<1>7. QED  BY <1>1, <1>4, <1>5, <1>6, Zenon

\* Parts that get from o to the end of q stay where they are in a response.
LEMMA AlongDelivered ==
    ASSUME NEW q \in Seq(Part), NEW o \in Seq(Part), NEW p \in Seq(Part), NEW u \in Seq(Part),
           NEW k \in Nat, k <= Len(o), Len(p) = Len(q) + k,
           \A i \in 1..Len(q) : p[i] = q[i],
           \A i \in 1..k : p[Len(q) + i] = o[i],
           Len(u) = Len(o) - k,
           \A i \in 1..Len(o) - k : u[i] = o[k + i],
           NEW r \in Requests, NEW f \in Framings, NEW j \in Int,
           Along(q, j, r, f), Along(o, Len(q) + j, r, f)
    PROVE  Along(p, j, r, f) /\ Along(u, Len(p) + j, r, f)
<1>1. PICK lq \in Nat, lo \in Nat, l \in 1..7 :
        lq = Len(q) /\ lo = Len(o) /\ l = Len(KindsOf(f))
  BY LenProperties, KindFacts
<1>2. /\ \A i \in 1..lq : i + j > 0 => i + j <= l /\ q[i] = PartsOf(r, f)[i + j]
      /\ \A i \in 1..lo : i + (lq + j) > 0 =>
            i + (lq + j) <= l /\ o[i] = PartsOf(r, f)[i + (lq + j)]
  BY <1>1, Zenon DEF Along
<1>3. ASSUME NEW i \in 1..lq + k, i + j > 0
      PROVE  i + j <= l /\ p[i] = PartsOf(r, f)[i + j]
  <2>1. CASE i <= lq
    <3>1. i \in 1..lq  BY <2>1
    <3>2. p[i] = q[i]  BY <1>1, <3>1, Zenon
    <3>3. QED  BY <1>2, <1>3, <3>1, <3>2, Zenon
  <2>2. CASE ~(i <= lq)
    <3>1. PICK h \in Nat : h = i - lq  BY <2>2
    <3>2. h \in 1..k /\ lq + h = i /\ h + (lq + j) = i + j  BY <2>2, <3>1
    <3>3. h \in 1..lo
      <4>1. k <= lo  BY <1>1, Zenon
      <4>2. QED  BY <3>2, <4>1
    <3>4. p[i] = o[h]  BY <1>1, <3>2, Zenon
    <3>5. h + (lq + j) <= l /\ o[h] = PartsOf(r, f)[h + (lq + j)]
      BY <1>2, <1>3, <3>2, <3>3, Zenon
    <3>6. QED  BY <3>2, <3>4, <3>5, Zenon
  <2>3. QED  BY <2>1, <2>2
<1>4. ASSUME NEW i \in 1..lo - k, i + (lq + k + j) > 0
      PROVE  i + (lq + k + j) <= l /\ u[i] = PartsOf(r, f)[i + (lq + k + j)]
  <2>1. k + i \in 1..lo /\ (k + i) + (lq + j) = i + (lq + k + j)  OBVIOUS
  <2>2. u[i] = o[k + i]  BY <1>1, Zenon
  <2>3. (k + i) + (lq + j) <= l /\ o[k + i] = PartsOf(r, f)[(k + i) + (lq + j)]
    BY <1>2, <1>4, <2>1, Zenon
  <2>4. QED  BY <2>1, <2>2, <2>3, Zenon
<1>5. QED  BY <1>1, <1>3, <1>4, Zenon DEF Along

\* Parts that get there are as quiet as before.
LEMMA QuietDelivered ==
    ASSUME NEW q \in Seq(Part), NEW o \in Seq(Part), NEW p \in Seq(Part), NEW u \in Seq(Part),
           NEW k \in Nat, k <= Len(o), Len(p) = Len(q) + k,
           \A i \in 1..Len(q) : p[i] = q[i],
           \A i \in 1..k : p[Len(q) + i] = o[i],
           Len(u) = Len(o) - k,
           \A i \in 1..Len(o) - k : u[i] = o[k + i],
           Quiet(q), Quiet(o)
    PROVE  /\ Quiet(p) /\ Quiet(u)
           /\ q = <<>> /\ o = <<>> => p = <<>> /\ u = <<>>
<1>1. PICK lq \in Nat, lo \in Nat, lp \in Nat, lu \in Nat :
        lq = Len(q) /\ lo = Len(o) /\ lp = Len(p) /\ lu = Len(u)
  BY LenProperties
<1>2. lp = lq + k /\ lu = lo - k /\ k <= lo  BY <1>1, Zenon
<1>3. ASSUME NEW i \in 1..lp PROVE Silent(p[i])
  <2>1. CASE i <= lq
    <3>1. i \in 1..lq  BY <2>1
    <3>2. QED  BY <1>1, <3>1, Zenon DEF Quiet
  <2>2. CASE ~(i <= lq)
    <3>1. PICK h \in Nat : h = i - lq  BY <2>2
    <3>2. h \in 1..k /\ h \in 1..lo /\ lq + h = i  BY <1>2, <2>2, <3>1
    <3>3. p[i] = o[h]  BY <1>1, <3>2, Zenon
    <3>4. QED  BY <1>1, <3>2, <3>3, Zenon DEF Quiet
  <2>3. QED  BY <2>1, <2>2
<1>4. ASSUME NEW i \in 1..lu PROVE Silent(u[i])
  <2>1. i \in 1..lo - k /\ k + i \in 1..lo  BY <1>2
  <2>2. u[i] = o[k + i]  BY <1>1, <2>1, Zenon
  <2>3. QED  BY <1>1, <2>1, <2>2, Zenon DEF Quiet
<1>5. ASSUME q = <<>>, o = <<>> PROVE p = <<>> /\ u = <<>>
  <2>1. lq = 0 /\ lo = 0  BY <1>1, <1>5
  <2>2. lp = 0 /\ lu = 0  BY <1>2, <2>1
  <2>3. QED  BY <1>1, <2>2, EmptySeq
<1>6. QED  BY <1>1, <1>3, <1>4, <1>5, Zenon DEF Quiet

\* What a device does leaves its request where it was, if it keeps to the response.
LEMMA FitsAtDevice ==
    ASSUME PoolIInv, NEW c \in Conns, NEW r \in Requests, c = session[r].conn, net[c] # NoNet,
           UNCHANGED <<conn, session, calling>>,
           Rests(c) => Rests(c)',
           Dead(c) \/ Expecting(c, r) => Dead(c)' \/ Expecting(c, r)',
           net[c].asked = <<>> => net'[c].asked = <<>>,
           \A k \in Nat : k >= 1 /\ net[c].asked = <<>> /\ Follows(r, k) => Follows(r, k)',
           Fits(r)
    PROVE  Fits(r)'
<1>1. At(r)' = At(r)  BY DEF At
<1>2. session[r].got \in Nat  BY DEF PoolIInv, Types, Session
<1>3. \A stage : Taken(session[r], stage) \in Nat /\ Taken(session[r], stage) >= 1
  BY <1>2 DEF Taken
<1>4. ASSUME NEW stage, Receives(r, stage) PROVE Receives(r, stage)'
  <2>1. PICK k \in Nat : k = Taken(session[r], stage) /\ k >= 1  BY <1>3
  <2>2. PICK s : s = session[r] /\ session'[r] = s /\ s.conn = c  OBVIOUS
  <2>3. /\ s.head = r /\ s.framing \in FramingsOf[r] /\ net[c].asked = <<>>
        /\ stage = "content" =>
              /\ s.framing \in {"length", "long"}
              /\ s.got + s.left = Contents(KindsOf(s.framing))
        /\ stage = "rest" => s.framing = "eof"
        /\ stage \in {"size", "data"} => s.framing = "chunked" /\ k <= 5
        /\ stage \in {"content", "rest"} => s.buf = <<>>
        /\ Follows(r, k)
    BY <1>4, <2>1, <2>2, Zenon DEF Receives
  <2>4. Follows(r, k)' /\ net'[c].asked = <<>>  BY <2>1, <2>3
  <2>5. QED  BY <2>1, <2>2, <2>3, <2>4, Zenon DEF Receives
<1>5. PICK a : a = At(r) /\ At(r)' = a  BY <1>1
<1>6. session'[r].conn = c  OBVIOUS
<1>7. /\ a \in {"resolve", "connect"} => net[c] = NoNet
      /\ a \in Connecting \cup {"write"} => Rests(c)
      /\ a = "read" => Dead(c) \/ Expecting(c, r)
      /\ a \in Receiving => Receives(r, a)
  BY <1>5, Zenon DEF Fits
<1>8. /\ a \in {"resolve", "connect"} => net'[c] = NoNet
      /\ a \in Connecting \cup {"write"} => Rests(c)'
      /\ a = "read" => Dead(c)' \/ Expecting(c, r)'
      /\ a \in Receiving => Receives(r, a)'
  BY <1>4, <1>7, Zenon
<1>9. QED  BY <1>5, <1>6, <1>8, Zenon DEF Fits

\* A device leaves things in order on its connection.
Keeps(c) ==
    /\ Rests(c) => Rests(c)'
    /\ \A r \in Requests : UsedBy(c, r) /\ Fits(r) => Fits(r)'

\* An answer: the request that has been asked for is coming.
LEMMA AnswerKeeps ==
    ASSUME PoolIInv, NEW c \in Conns, Answer(c)
    PROVE  Keeps(c)
<1>1. Types  BY DEF PoolIInv
<1>2. PICK d \in Device, h \in Requests, f \in Framings :
        /\ net[c].up /\ net[c].out = <<>> /\ net[c].asked # <<>> /\ h = Head(net[c].asked)
        /\ f \in FramingsOf[h] /\ net' = [net EXCEPT ![c] = d]
        /\ d.up = net[c].up /\ d.asked = Tail(net[c].asked) /\ d.inbox = net[c].inbox
        /\ d.out = PartsOf(h, f)
  BY <1>1, AnswerFacts
<1>3. net'[c] = d  BY <1>1, <1>2 DEF Types
<1>4. UNCHANGED <<conn, session, calling>>  BY DEF Answer
<1>5. Dead(c) => Dead(c)'  BY <1>2, <1>3, <1>4 DEF Dead
<1>6. ~Leftover(c)  BY <1>2 DEF Leftover
<1>7. \A r \in Requests : \A g, m : ~Coming(c, r, g, m)  BY <1>2 DEF Coming
<1>8. ASSUME NEW r \in Requests, Asked(c, r) PROVE Expecting(c, r)'
  <2>1. PICK q \in Seq(Part) : q = net[c].inbox /\ d.inbox = q
    BY <1>1, <1>2, Zenon DEF Types, Device
  <2>2. PICK m \in Nat : m = Len(q)  BY LenProperties
  <2>3. net[c].asked = <<r>>  BY <1>8 DEF Asked
  <2>4. Head(<<r>>) = r /\ Tail(<<r>>) = <<>>  OBVIOUS
  <2>5. h = r /\ d.asked = <<>>  BY <1>2, <2>3, <2>4, Zenon
  <2>6. m > 0 => Spoilt'
    <3>1. m > 0 => q # <<>>  BY <2>2, EmptySeq
    <3>2. Spoilt => Spoilt'  BY <1>4, SpoiltStays
    <3>3. QED  BY <1>8, <2>1, <3>1, <3>2 DEF Asked
  <2>7. \A i \in 1..m : Silent(q[i])
    BY <1>8, <2>1, <2>2, Zenon DEF Asked, Quiet
  <2>8. Along(q, -m, r, f)
    <3>1. \A i \in 1..m : ~(i + (-m) > 0)  OBVIOUS
    <3>2. QED  BY <2>2, <3>1, Zenon DEF Along
  <2>9. Along(d.out, m - m, r, f)
    <3>1. PICK l \in 1..7 : l = Len(KindsOf(f))  BY KindFacts
    <3>2. PICK o \in Seq(Part) : o = PartsOf(r, f) /\ Len(o) = l /\ d.out = o
      BY <1>2, <2>5, <3>1, PartsOfType, Zenon
    <3>3. \A i \in 1..l : i + (m - m) = i /\ i <= l  OBVIOUS
    <3>4. \A i \in 1..l : i + (m - m) <= l /\ o[i] = PartsOf(r, f)[i + (m - m)]
      BY <3>2, <3>3, Zenon
    <3>5. QED  BY <3>1, <3>2, <3>4, Zenon DEF Along
  <2>10. Coming(c, r, f, m)'
    BY <1>3, <2>1, <2>2, <2>5, <2>6, <2>7, <2>8, <2>9, Zenon DEF Coming
  <2>11. f \in FramingsOf[r] /\ m \in 0..Len(net'[c].inbox)
    BY <1>2, <1>3, <2>1, <2>2, <2>5
  <2>12. QED  BY <2>10, <2>11, Zenon DEF Expecting
<1>9. ASSUME NEW r \in Requests, UsedBy(c, r), Fits(r) PROVE Fits(r)'
  <2>1. net[c] # NoNet  BY <1>2 DEF NoNet
  <2>2. c = session[r].conn  BY <1>9 DEF UsedBy
  <2>3. Rests(c) => Rests(c)'  BY <1>5, <1>6 DEF Rests
  <2>4. Dead(c) \/ Expecting(c, r) => Dead(c)' \/ Expecting(c, r)'
    BY <1>5, <1>7, <1>8, Zenon DEF Expecting
  <2>5. QED  BY <1>2, <1>4, <1>9, <2>1, <2>2, <2>3, <2>4, FitsAtDevice
<1>10. QED  BY <1>5, <1>6, <1>9 DEF Rests, Keeps

\* Parts of it get into the socket.
LEMMA DeliverKeeps ==
    ASSUME PoolIInv, NEW c \in Conns, Deliver(c)
    PROVE  Keeps(c)
<1>1. Types  BY DEF PoolIInv
<1>2. PICK d \in Device, k \in Nat :
        /\ net[c].up /\ ~conn[c].shut /\ k <= Len(net[c].out)
        /\ net' = [net EXCEPT ![c] = d]
        /\ d.up = net[c].up /\ d.asked = net[c].asked
        /\ Len(d.inbox) = Len(net[c].inbox) + k
        /\ \A i \in 1..Len(net[c].inbox) : d.inbox[i] = net[c].inbox[i]
        /\ \A i \in 1..k : d.inbox[Len(net[c].inbox) + i] = net[c].out[i]
        /\ Len(d.out) = Len(net[c].out) - k
        /\ \A i \in 1..Len(net[c].out) - k : d.out[i] = net[c].out[k + i]
  BY <1>1, DeliverFacts
<1>3. net'[c] = d  BY <1>1, <1>2 DEF Types
<1>4. UNCHANGED <<conn, session, calling>>  BY DEF Deliver
<1>5. PICK q \in Seq(Part), o \in Seq(Part), p \in Seq(Part), u \in Seq(Part) :
        q = net[c].inbox /\ o = net[c].out /\ p = d.inbox /\ u = d.out
  BY <1>1, Zenon DEF Types, Device
<1>6. /\ k <= Len(o) /\ Len(p) = Len(q) + k
      /\ \A i \in 1..Len(q) : p[i] = q[i]
      /\ \A i \in 1..k : p[Len(q) + i] = o[i]
      /\ Len(u) = Len(o) - k
      /\ \A i \in 1..Len(o) - k : u[i] = o[k + i]
  BY <1>2, <1>5, Zenon
<1>7. PICK lq \in Nat, lp \in Nat : lq = Len(q) /\ lp = Len(p) /\ lp = lq + k
  BY <1>6, LenProperties
<1>8. Spoilt => Spoilt'  BY <1>4, SpoiltStays
<1>9. ASSUME Quiet(q), Quiet(o)
      PROVE  Quiet(p) /\ Quiet(u) /\ (q = <<>> /\ o = <<>> => p = <<>> /\ u = <<>>)
  BY <1>6, <1>9, QuietDelivered, Zenon
<1>10. ASSUME NEW r \in Requests, NEW f \in Framings, NEW j \in Int,
              Along(q, j, r, f), Along(o, lq + j, r, f)
       PROVE  Along(p, j, r, f) /\ Along(u, lp + j, r, f)
  BY <1>6, <1>7, <1>10, AlongDelivered, Zenon
<1>11. ~Dead(c)  BY <1>2 DEF Dead
<1>12. Leftover(c) => Leftover(c)'
  BY <1>2, <1>3, <1>5, <1>8, <1>9, Zenon DEF Leftover
<1>13. ASSUME NEW r \in Requests, Expecting(c, r) PROVE Expecting(c, r)'
  <2>1. CASE Asked(c, r)
    <3>1. Asked(c, r)'  BY <1>2, <1>3, <1>5, <1>8, <1>9, <2>1, Zenon DEF Asked
    <3>2. QED  BY <3>1 DEF Expecting
  <2>2. CASE \E f \in FramingsOf[r], m \in 0..Len(net[c].inbox) : Coming(c, r, f, m)
    <3>1. PICK f \in FramingsOf[r], m \in 0..lq : Coming(c, r, f, m)  BY <1>5, <1>7, <2>2
    <3>2. f \in Framings  BY ClientAssumption DEF ClientAssumption, Framings
    <3>3. m \in Nat /\ m <= lq /\ -m \in Int /\ lq + (-m) = lq - m /\ lp + (-m) = lp - m
          /\ m \in 0..lp
      BY <1>7
    <3>4. /\ net[c].asked = <<>>
          /\ m > 0 => Spoilt
          /\ \A i \in 1..m : Silent(q[i])
          /\ Along(q, -m, r, f)
          /\ Along(o, lq - m, r, f)
      BY <1>5, <1>7, <3>1, Zenon DEF Coming
    <3>5. Along(o, lq + (-m), r, f)  BY <3>3, <3>4, Zenon
    <3>6. Along(p, -m, r, f) /\ Along(u, lp + (-m), r, f)
      BY <1>10, <3>2, <3>3, <3>4, <3>5, Zenon
    <3>7. Along(u, lp - m, r, f)  BY <3>3, <3>6, Zenon
    <3>8. \A i \in 1..m : Silent(p[i])
      <4> TAKE i \in 1..m
      <4>1. i \in 1..lq  BY <3>3
      <4>2. p[i] = q[i]  BY <1>6, <1>7, <4>1, Zenon
      <4>3. QED  BY <3>4, <4>2, Zenon
    <3>9. Coming(c, r, f, m)'
      <4>1. net'[c].asked = <<>> /\ net'[c].inbox = p /\ net'[c].out = u /\ Len(p) = lp
        BY <1>2, <1>3, <1>5, <1>7, <3>4, Zenon
      <4>2. m > 0 => Spoilt'  BY <1>8, <3>4
      <4>3. Along(p, -m, r, f)  BY <3>6
      <4>4. QED  BY <3>7, <3>8, <4>1, <4>2, <4>3, Zenon DEF Coming
    <3>10. m \in 0..Len(net'[c].inbox)  BY <1>3, <1>5, <1>7, <3>3, Zenon
    <3>11. QED  BY <3>9, <3>10, Zenon DEF Expecting
  <2>3. QED  BY <1>13, <2>1, <2>2 DEF Expecting
<1>14. ASSUME NEW r \in Requests, c = session[r].conn, NEW k1 \in Nat, k1 >= 1, Follows(r, k1)
       PROVE  Follows(r, k1)'
  <2>1. PICK b \in Seq(Part), f \in Framings :
          /\ b = session[r].buf /\ f = session[r].framing
          /\ session'[r].buf = b /\ session'[r].framing = f /\ session'[r].conn = c
    BY <1>1, <1>4, <1>14, HeldParts
  <2>2. PICK lb \in Nat : lb = Len(b)  BY LenProperties
  <2>3. Onward(b, q, o, k1, r, f)  BY <1>5, <1>14, <2>1, Zenon DEF Follows, Onward
  <2>4. Along(b, k1, r, f) /\ Along(q, lb + k1, r, f) /\ Along(o, lb + lq + k1, r, f)
    BY <1>7, <1>14, <2>2, <2>3, OnwardAlong, Zenon
  <2>5. lb + k1 \in Int /\ lq + (lb + k1) = lb + lq + k1 /\ lp + (lb + k1) = lb + lp + k1
    BY <1>7
  <2>6. Along(p, lb + k1, r, f) /\ Along(u, lp + (lb + k1), r, f)
    BY <1>10, <2>4, <2>5, Zenon
  <2>7. Along(u, lb + lp + k1, r, f)  BY <2>5, <2>6, Zenon
  <2>8. Onward(b, p, u, k1, r, f)
    BY <1>7, <1>14, <2>2, <2>4, <2>6, <2>7, OnwardAlong, Zenon
  <2>9. QED  BY <1>3, <1>5, <2>1, <2>8, Zenon DEF Follows, Onward
<1>15. ASSUME NEW r \in Requests, UsedBy(c, r), Fits(r) PROVE Fits(r)'
  <2>1. net[c] # NoNet  BY <1>2 DEF NoNet
  <2>2. c = session[r].conn  BY <1>15 DEF UsedBy
  <2>3. Rests(c) => Rests(c)'  BY <1>11, <1>12 DEF Rests
  <2>4. Dead(c) \/ Expecting(c, r) => Dead(c)' \/ Expecting(c, r)'  BY <1>11, <1>13
  <2>5. \A k1 \in Nat : k1 >= 1 /\ net[c].asked = <<>> /\ Follows(r, k1) => Follows(r, k1)'
    BY <1>14, <2>2
  <2>6. net[c].asked = <<>> => net'[c].asked = <<>>  BY <1>2, <1>3
  <2>7. QED  BY <1>4, <1>15, <2>1, <2>2, <2>3, <2>4, <2>5, <2>6, FitsAtDevice
<1>16. QED  BY <1>11, <1>12, <1>15 DEF Rests, Keeps

\* The device closes the connection: what is in the socket remains.
LEMMA DeviceClosesKeeps ==
    ASSUME PoolIInv, NEW c \in Conns, DeviceCloses(c)
    PROVE  Keeps(c)
<1>1. Types  BY DEF PoolIInv
<1>2. PICK x \in Device : x = net[c]  BY <1>1 DEF Types
<1>3. PICK d \in Device : /\ d = [x EXCEPT !.up = FALSE, !.asked = <<>>, !.out = <<>>]
                          /\ d.asked = <<>> /\ d.out = <<>> /\ ~d.up /\ d.inbox = x.inbox
  <2> DEFINE d == [x EXCEPT !.up = FALSE, !.asked = <<>>, !.out = <<>>]
  <2>1. d \in Device /\ d.asked = <<>> /\ d.out = <<>> /\ ~d.up /\ d.inbox = x.inbox
    BY EmptySeq DEF Device
  <2>2. QED  BY <2>1
<1>4. net'[c] = d /\ net[c].up  BY <1>1, <1>2, <1>3 DEF DeviceCloses, Types
<1>5. UNCHANGED <<conn, session, calling>>  BY DEF DeviceCloses
<1>6. PICK q \in Seq(Part) : q = net[c].inbox /\ d.inbox = q  BY <1>1, <1>2, <1>3 DEF Types, Device
<1>7. Spoilt => Spoilt'  BY <1>5, SpoiltStays
<1>8. Quiet(q) => Dead(c)'  BY <1>3, <1>4, <1>6 DEF Dead
<1>9. \A r, k, f : Along(<<>>, k, r, f)
  <2>1. Len(<<>>) = 0  OBVIOUS
  <2>2. \A i \in 1..0 : FALSE  OBVIOUS
  <2>3. QED  BY <2>1, <2>2, Zenon DEF Along
<1>10. Dead(c) => Dead(c)'  BY <1>6, <1>8 DEF Dead
<1>11. Leftover(c) => Dead(c)'  BY <1>6, <1>8 DEF Leftover
<1>12. ASSUME NEW r \in Requests, Expecting(c, r) PROVE Dead(c)' \/ Expecting(c, r)'
  <2>1. CASE Asked(c, r)  BY <1>6, <1>8, <2>1 DEF Asked
  <2>2. CASE \E f \in FramingsOf[r], m \in 0..Len(net[c].inbox) : Coming(c, r, f, m)
    <3>1. PICK f \in FramingsOf[r], m \in 0..Len(q) : Coming(c, r, f, m)  BY <1>6, <2>2
    <3>2. Coming(c, r, f, m)'
      <4>1. net'[c].asked = <<>> /\ net'[c].inbox = q /\ net'[c].out = <<>>
        BY <1>3, <1>4, <1>6
      <4>2. /\ m > 0 => Spoilt'
            /\ \A i \in 1..m : Silent(q[i])
            /\ Along(q, -m, r, f)
        BY <1>6, <1>7, <3>1, Zenon DEF Coming
      <4>3. Along(<<>>, Len(q) - m, r, f)  BY <1>9
      <4>4. QED  BY <4>1, <4>2, <4>3, Zenon DEF Coming
    <3>3. m \in 0..Len(net'[c].inbox)  BY <1>4, <1>6
    <3>4. QED  BY <3>2, <3>3, Zenon DEF Expecting
  <2>3. QED  BY <1>12, <2>1, <2>2 DEF Expecting
<1>13. ASSUME NEW r \in Requests, c = session[r].conn, NEW k \in Nat, Follows(r, k)
       PROVE  Follows(r, k)'
  <2>1. PICK s : s = session[r] /\ session'[r] = s /\ s.conn = c  BY <1>5, <1>13
  <2>2. net'[c].inbox = q /\ net'[c].out = <<>>  BY <1>3, <1>4, <1>6
  <2>3. PICK b, f : b = s.buf /\ f = s.framing  OBVIOUS
  <2>4. \A i \in 1..Len(b) + Len(q) : /\ i + k <= Len(KindsOf(f))
                                      /\ Pending(b, q, i) = PartsOf(r, f)[i + k]
    BY <1>6, <1>13, <2>1, <2>3, Zenon DEF Follows
  <2>5. Along(<<>>, Len(b) + Len(q) + k, r, f)  BY <1>9
  <2>6. QED  BY <2>1, <2>2, <2>3, <2>4, <2>5, Zenon DEF Follows
<1>14. ASSUME NEW r \in Requests, UsedBy(c, r), Fits(r) PROVE Fits(r)'
  <2>1. net[c] # NoNet  BY <1>4 DEF NoNet
  <2>2. c = session[r].conn  BY <1>14 DEF UsedBy
  <2>3. Rests(c) => Rests(c)'  BY <1>10, <1>11 DEF Rests
  <2>4. Dead(c) \/ Expecting(c, r) => Dead(c)' \/ Expecting(c, r)'  BY <1>10, <1>12
  <2>5. \A k1 \in Nat : k1 >= 1 /\ net[c].asked = <<>> /\ Follows(r, k1) => Follows(r, k1)'
    BY <1>13, <2>2
  <2>6. net'[c].asked = <<>>  BY <1>3, <1>4
  <2>7. QED  BY <1>5, <1>14, <2>1, <2>2, <2>3, <2>4, <2>5, <2>6, FitsAtDevice
<1>15. QED  BY <1>10, <1>11, <1>14 DEF Rests, Keeps

\* Timers, devices and stop.
LEMMA OthersWire ==
    ASSUME PoolIInv, PoolIInv', running, WireInv,
           \/ stop
           \/ \E c \in Conns : \/ TimerExpires(c) \/ TimeoutHandler(c)
                               \/ Answer(c) \/ Deliver(c) \/ DeviceCloses(c)
    PROVE  WireInv' /\ Changes
<1>1. ASSUME NEW c \in Conns, Answer(c) \/ Deliver(c) \/ DeviceCloses(c)
      PROVE  WireInv' /\ Changes
  <2>1. Changes  BY <1>1, DevicesStep
  <2>2. net \in [Conns -> Device]  BY DEF PoolIInv, Types
  <2>3. \A d \in Conns : d # c => net'[d] = net[d]
    <3>1. CASE Answer(c)  BY <2>2, <3>1 DEF Answer
    <3>2. CASE Deliver(c)  BY <2>2, <3>2 DEF Deliver
    <3>3. CASE DeviceCloses(c)  BY <2>2, <3>3 DEF DeviceCloses
    <3>4. QED  BY <1>1, <3>1, <3>2, <3>3
  <2>4. Keeps(c)  BY <1>1, AnswerKeeps, DeliverKeeps, DeviceClosesKeeps, Zenon
  <2>5. QED  BY <2>1, <2>3, <2>4, ChangesWire DEF Keeps
<1>2. ASSUME NEW c \in Conns, TimerExpires(c) \/ TimeoutHandler(c)
      PROVE  WireInv' /\ Changes
  <2>1. Changes  BY <1>2, TimerExpiresStep, TimeoutHandlerStep
  <2>2. net' = net  BY <1>2 DEF TimerExpires, TimeoutHandler
  <2>3. QED  BY <2>1, <2>2, ChangesWire
<1>3. ASSUME stop PROVE WireInv' /\ Changes
  <2>1. Changes  BY <1>3, stopStep
  <2>2. \A c \in Conns : Alive(c) => net'[c] = net[c]  BY <1>3 DEF stop, Forget, Alive
  <2>3. QED  BY <2>1, <2>2, ChangesWire
<1>4. QED  BY <1>1, <1>2, <1>3

-----------------------------------------------------------------------------
(* What a request takes from its own connection.                           *)

\* r has the response to it, with all of its content.
Whole(r) ==
    \/ /\ session[r].head = r
       /\ session[r].framing # "eof" => session[r].got = Contents(KindsOf(session[r].framing))
    \/ conn[session[r].conn].stream

\* A callback for the end of a request, no error.
EndsWell == calling # None /\ ~calling.ec /\ calling.next = "done"

\* r leaves its connection c in order, and ends with its response if it ends well.
Behaves(r, c) == Leaves(r, c) /\ (EndsWell' => Whole(r)')

\* What is on the connection of a request that the thread is to go on with.
LEMMA OwnFits ==
    ASSUME PoolIInv, WireInv, NEW r \in Requests, r \in Active, calling = None,
           NEW c \in Conns, c = session[r].conn, ~conn[c].stream
    PROVE  Fits(r) /\ At(r) = session[r].stage
<1>1. UsedBy(c, r)  BY DEF UsedBy, Uses, Ending
<1>2. Fits(r)  BY <1>1 DEF WireInv, Orderly
<1>3. session[r].stage # "callback"  BY FreeFacts
<1>4. QED  BY <1>2, <1>3 DEF At

\* Nobody goes on who is called back.
LEMMA GoesNotCalls ==
    ASSUME NEW r \in Requests, Goes(r), CallsBack(r)
    PROVE  FALSE
BY ClientAssumption DEF Goes, CallsBack, ClientAssumption

\* A request that goes on.
LEMMA GoesLeaves ==
    ASSUME NEW r \in Requests, Goes(r), NEW c \in Conns, c = session[r].conn,
           NEW stage, stage = session'[r].stage,
           ~conn[c].stream =>
               /\ stage \in {"resolve", "connect"} => net'[c] = NoNet
               /\ stage \in Connecting \cup {"write"} => Rests(c)'
               /\ stage = "read" => Dead(c)' \/ Expecting(c, r)'
               /\ stage \in Receiving => Receives(r, stage)'
    PROVE  Behaves(r, c)
<1>1. /\ session'[r].conn = c /\ conn'[c].stream = conn[c].stream /\ calling' = None
      /\ r \in Active
      /\ \/ session[r].stage \in Connecting /\ stage = After(session[r].stage)
         \/ stage = "read" \/ stage \in Receiving
  BY DEF Goes
<1>2. stage \notin {"idle", "done", "callback"}
  <2>1. CASE session[r].stage \in Connecting /\ stage = After(session[r].stage)
    <3>1. stage \in Connecting \cup {"write"}  BY <2>1, ConnectingFacts
    <3>2. QED  BY <3>1, StageFacts
  <2>2. CASE stage = "read" \/ stage \in Receiving  BY <2>2, StageFacts
  <2>3. QED  BY <1>1, <2>1, <2>2
<1>3. At(r)' = stage  BY <1>2 DEF At
<1>4. Uses(r)'  BY <1>1, <1>2 DEF Uses, Ending, Active
<1>5. ~EndsWell'  BY <1>1 DEF EndsWell
<1>6. ~conn[c].stream => Fits(r)'  BY <1>1, <1>3, Zenon DEF Fits
<1>7. QED  BY <1>1, <1>4, <1>5, <1>6 DEF Leaves, Behaves

\* A request that is called back.
LEMMA CallsBackLeaves ==
    ASSUME NEW r \in Requests, CallsBack(r), NEW c \in Conns, c = session[r].conn,
           NEW next, next = calling'.next,
           ~conn'[c].stream =>
               IF calling'.end THEN Rests(c)'
               ELSE next \in Receiving /\ Receives(r, next)',
           ~conn'[c].stream /\ EndsWell' => Whole(r)'
    PROVE  Behaves(r, c)
<1>1. /\ session'[r].conn = c /\ session'[r].stage = "callback"
      /\ calling' \in CallbackArgs /\ calling'.req = r
  BY DEF CallsBack
<1>2. calling' # None  BY <1>1, ClientAssumption DEF ClientAssumption
<1>3. At(r)' = next  BY <1>1 DEF At
<1>4. Uses(r)' <=> ~calling'.end  BY <1>1, <1>2 DEF Uses, Ending, Active
<1>5. Leaves(r, c)
  <2> SUFFICES ASSUME ~conn'[c].stream PROVE IF Uses(r)' THEN Fits(r)' ELSE Rests(c)'
    BY DEF Leaves
  <2>1. CASE calling'.end  BY <1>4, <2>1
  <2>2. CASE ~calling'.end
    <3>1. next \in Receiving /\ Receives(r, next)'  BY <2>2
    <3>2. next \notin Connecting \cup {"write", "read", "resolve", "connect"}
      BY <3>1, ConnectingFacts, StageFacts
    <3>3. /\ next \notin {"resolve", "connect"}
          /\ next \notin Connecting \cup {"write"}
          /\ next # "read"
      BY <3>2
    <3>4. Fits(r)'  BY <1>1, <1>3, <3>1, <3>3, Zenon DEF Fits
    <3>5. QED  BY <1>4, <2>2, <3>4
  <2>3. QED  BY <2>1, <2>2
<1>6. conn'[c].stream => Whole(r)'  BY <1>1 DEF Whole
<1>7. QED  BY <1>5, <1>6 DEF Behaves

\* A request that fails on a connection at rest, or dead.
LEMMA FailsLeaves ==
    ASSUME PoolIInv, NEW r \in Requests, CallsBack(r), net' = net, calling'.ec,
           NEW c \in Conns, c = session[r].conn, ~conn[c].stream => Rests(c)
    PROVE  Behaves(r, c)
<1>1. /\ calling'.end /\ ~EndsWell' /\ calling = None /\ r \in Active
      /\ conn'[c].shut = conn[c].shut
  BY DEF CallsBack, EndsWell
<1>2. Spoilt => Spoilt'
  <2>1. \A q \in Requests : session[q].stage = "done" => session'[q].stage = "done"
    BY DEF CallsBack, Same, Active
  <2>2. QED  BY <1>1, <2>1, SpoiltStays
<1>3. Rests(c) => Rests(c)'  BY <1>1, <1>2, RestsStays
<1>4. conn[c].stream => conn'[c].stream
  <2>1. conn'[c].stream = (conn[c].stream \/ (calling'.end /\ calling'.next = "events"))
    BY Zenon DEF CallsBack
  <2>2. QED  BY <2>1
<1>5. QED  BY <1>1, <1>3, <1>4, CallsBackLeaves

\* A connection that is broken, and without a blank line in its socket, is dead.
LEMMA BrokenDead ==
    ASSUME PoolIInv, NEW r \in Requests, r \in Active, NEW c \in Conns, c = session[r].conn,
           Broken(r), Quiet(net[c].inbox)
    PROVE  Dead(c)
<1>1. session[r].cut => conn[c].shut  BY DEF PoolIInv, SessionInv
<1>2. QED  BY <1>1 DEF Broken, Dead

\* What follows the first parts of the response to r is quiet.
LEMMA FollowsQuiet ==
    ASSUME Types, NEW r \in Requests, NEW c \in Conns, c = session[r].conn,
           NEW k \in Nat, k >= 1, session[r].framing \notin {"overlong", "events"}, Follows(r, k)
    PROVE  Quiet(net[c].inbox)
<1>1. PICK b \in Seq(Part), q \in Seq(Part), o \in Seq(Part), f \in Framings :
        /\ b = session[r].buf /\ q = net[c].inbox
        /\ o = net[c].out /\ f = session[r].framing /\ f \notin {"overlong", "events"}
  BY HeldParts
<1>2. Onward(b, q, o, k, r, f)  BY <1>1, Zenon DEF Follows, Onward
<1>3. QED  BY <1>1, <1>2, OnwardFacts, Zenon

\* The same after a step, when nothing may be left.
LEMMA FollowsQuietAfter ==
    ASSUME Types', NEW r \in Requests, NEW c \in Conns, c = session'[r].conn,
           NEW k \in Nat, k >= 1, session'[r].framing \notin {"overlong", "events"},
           Follows(r, k)'
    PROVE  /\ Quiet(net'[c].inbox) /\ Quiet(net'[c].out)
           /\ k >= Len(KindsOf(session'[r].framing)) =>
                 net'[c].inbox = <<>> /\ net'[c].out = <<>>
<1>1. PICK b \in Seq(Part), q \in Seq(Part), o \in Seq(Part), f \in Framings :
        /\ b = session'[r].buf /\ q = net'[c].inbox
        /\ o = net'[c].out /\ f = session'[r].framing /\ f \notin {"overlong", "events"}
  <2>1. session'[r] \in Session /\ net'[c] \in Device  BY DEF Types
  <2>2. QED  BY <2>1 DEF Session, Device
<1>2. Onward(b, q, o, k, r, f)  BY <1>1, Zenon DEF Follows, Onward
<1>3. f \notin {"overlong", "events"}  BY <1>1
<1>4. /\ Quiet(q) /\ Quiet(o)
      /\ k >= Len(KindsOf(f)) => q = <<>> /\ o = <<>>
  BY <1>2, <1>3, OnwardFacts, Zenon
<1>5. QED  BY <1>1, <1>4, Zenon

\* Connecting goes on.
LEMMA EstablishedWire ==
    ASSUME PoolIInv, WireInv, NEW r \in Requests, Established(r),
           NEW c \in Conns, c = session[r].conn
    PROVE  Goes(r) /\ Behaves(r, c)
<1>1. Goes(r)  BY EstablishedStep
<1>2. PICK stage : stage = session'[r].stage  OBVIOUS
<1>3. session[r].stage \in Connecting  BY DEF Established, Connecting
<1>4. stage = After(session[r].stage)
  BY <1>1, <1>2, <1>3, StageFacts DEF Goes
<1>5. /\ stage \in (Connecting \ {"resolve"}) \cup {"write"}
      /\ stage = "connect" <=> session[r].stage = "resolve"
  BY <1>3, <1>4, ConnectingFacts
<1>6. /\ r \in Active /\ calling = None /\ calling' = None /\ conn'[c].shut = conn[c].shut
      /\ \A q \in Requests \ {r} : session'[q] = session[q]
  BY <1>1 DEF Goes, Same
<1>7. Spoilt => Spoilt'
  <2>1. \A q \in Requests : session[q].stage = "done" => session'[q].stage = "done"
    BY <1>6 DEF Active
  <2>2. QED  BY <1>6, <2>1, SpoiltStays
<1>8. net \in [Conns -> Device]  BY DEF PoolIInv, Types
<1>9. net' = [net EXCEPT ![c].up = @ \/ session[r].stage = "connect"]
  BY DEF Established
<1>10. ASSUME ~conn[c].stream
       PROVE  (stage = "connect" => net'[c] = NoNet) /\ Rests(c)'
  <2>1. /\ session[r].stage \in {"resolve", "connect"} => net[c] = NoNet
        /\ Rests(c)
    <3>1. Fits(r) /\ At(r) = session[r].stage  BY <1>6, <1>10, OwnFits
    <3>2. QED  BY <1>3, <3>1, Zenon DEF Fits
  <2>2. CASE session[r].stage # "connect"
    <3>1. PICK d \in Device : d = net[c]  BY <1>8
    <3>2. [d EXCEPT !.up = d.up \/ FALSE] = d  BY DEF Device
    <3>3. net'[c] = net[c]  BY <1>8, <1>9, <2>2, <3>1, <3>2
    <3>4. Rests(c)'  BY <1>6, <1>7, <2>1, <3>3, RestsStays
    <3>5. QED  BY <1>5, <2>1, <3>3, <3>4
  <2>3. CASE session[r].stage = "connect"
    <3>1. net'[c] = [NoNet EXCEPT !.up = TRUE]  BY <1>8, <1>9, <2>1, <2>3 DEF NoNet
    <3>2. net'[c].asked = <<>> /\ net'[c].inbox = <<>> /\ net'[c].out = <<>>
      BY <3>1 DEF NoNet
    <3>3. Quiet(<<>>)  BY NoNetFacts DEF NoNet
    <3>4. Leftover(c)'  BY <3>2, <3>3 DEF Leftover
    <3>5. QED  BY <1>5, <2>3, <3>4 DEF Rests
  <2>4. QED  BY <2>2, <2>3
<1>11. stage \notin Receiving /\ stage \notin {"resolve", "read"}
  BY <1>5, ConnectingFacts, StageFacts
<1>12. QED  BY <1>1, <1>2, <1>10, <1>11, GoesLeaves

\* Connecting fails.
LEMMA EstablishFailsWire ==
    ASSUME PoolIInv, WireInv, NEW r \in Requests, EstablishFails(r),
           NEW c \in Conns, c = session[r].conn
    PROVE  CallsBack(r) /\ Behaves(r, c)
<1>1. CallsBack(r) /\ net' = net /\ calling'.ec  BY EstablishFailsStep
<1>2. session[r].stage \in Connecting  BY DEF EstablishFails, Connecting
<1>3. r \in Active /\ calling = None  BY <1>1 DEF CallsBack
<1>4. ~conn[c].stream => Rests(c)
  <2> HAVE ~conn[c].stream
  <2>1. Fits(r) /\ At(r) = session[r].stage  BY <1>3, OwnFits
  <2>2. QED  BY <1>2, <2>1, Zenon DEF Fits
<1>5. QED  BY <1>1, <1>4, FailsLeaves

\* The request is written: its response has been asked for, or will not come.
LEMMA WrittenWire ==
    ASSUME PoolIInv, WireInv, NEW r \in Requests, Written(r),
           NEW c \in Conns, c = session[r].conn
    PROVE  Goes(r) /\ Behaves(r, c)
<1>1. Goes(r)  BY WrittenStep
<1>2. session[r].stage = "write" /\ calling = None /\ running  BY DEF Written, Free
<1>3. session'[r].stage = "read"
  BY <1>1, <1>2, StageFacts DEF Goes
<1>4. /\ r \in Active /\ calling' = None /\ conn'[c].shut = conn[c].shut
      /\ \A q \in Requests \ {r} : session'[q] = session[q]
  BY <1>1, <1>2 DEF Goes, Same
<1>5. Spoilt => Spoilt'
  <2>1. \A q \in Requests : session[q].stage = "done" => session'[q].stage = "done"
    BY <1>4 DEF Active
  <2>2. QED  BY <1>2, <2>1, SpoiltStays
<1>6. net \in [Conns -> Device]  BY DEF PoolIInv, Types
<1>7. net' = [net EXCEPT ![c].asked = IF net[c].up THEN Append(@, r) ELSE @]
  BY DEF Written
<1>8. PICK d \in Device : d = net[c]  BY <1>6
<1>9. PICK e : e = net'[c]  OBVIOUS
<1>10. /\ e.inbox = d.inbox /\ e.out = d.out /\ e.up = d.up
       /\ e.asked = IF d.up THEN Append(d.asked, r) ELSE d.asked
  BY <1>6, <1>7, <1>8, <1>9 DEF Device
<1>11. ASSUME ~conn[c].stream PROVE Dead(c)' \/ Expecting(c, r)'
  <2>1. Rests(c)
    <3>1. Fits(r) /\ At(r) = session[r].stage  BY <1>2, <1>4, <1>11, OwnFits
    <3>2. QED  BY <1>2, <3>1, Zenon DEF Fits
  <2>2. CASE Dead(c)
    <3>1. Dead(c)'  BY <1>4, <1>8, <1>9, <1>10, <2>2, Zenon DEF Dead
    <3>2. QED  BY <3>1
  <2>3. CASE Leftover(c) /\ ~d.up
    <3>1. Dead(c)'  BY <1>8, <1>9, <1>10, <2>3, Zenon DEF Leftover, Dead
    <3>2. QED  BY <3>1
  <2>4. CASE Leftover(c) /\ d.up
    <3>1. d.asked = <<>> /\ Append(<<>>, r) = <<r>>  BY <1>8, <2>4 DEF Leftover
    <3>2. Asked(c, r)'  BY <1>5, <1>8, <1>9, <1>10, <2>4, <3>1, Zenon DEF Leftover, Asked
    <3>3. QED  BY <3>2 DEF Expecting
  <2>5. QED  BY <2>1, <2>2, <2>3, <2>4 DEF Rests
<1>12. "read" \notin Receiving \cup Connecting \cup {"write", "resolve", "connect"}
  BY StageFacts
<1>13. QED  BY <1>1, <1>3, <1>11, <1>12, GoesLeaves

\* Before the head of a response there is nothing that could pass for one.
LEMMA NoHeadYet ==
    ASSUME NEW r \in Requests, NEW c \in Conns, net[c].inbox \in Seq(Part), Expecting(c, r),
           \A i \in 1..Len(net[c].inbox) : ~EndsInBlankLine(net[c].inbox[i])
    PROVE  Quiet(net[c].inbox)
<1>1. PICK q \in Seq(Part) : q = net[c].inbox  OBVIOUS
<1>2. PICK l \in Nat : l = Len(q)  BY LenProperties
<1>3. CASE Asked(c, r)  BY <1>3 DEF Asked
<1>4. CASE \E f \in FramingsOf[r], m \in 0..Len(net[c].inbox) : Coming(c, r, f, m)
  <2>1. PICK f \in FramingsOf[r], m \in 0..l : Coming(c, r, f, m)  BY <1>1, <1>2, <1>4
  <2>2. f \in Framings  BY ClientAssumption DEF ClientAssumption, Framings
  <2>3. (\A i \in 1..m : Silent(q[i])) /\ Along(q, -m, r, f)
    BY <1>1, <2>1, Zenon DEF Coming
  <2>4. m = l
    <3> SUFFICES ASSUME m # l PROVE FALSE  OBVIOUS
    <3>1. m + 1 \in 1..l /\ m + 1 + (-m) = 1  OBVIOUS
    <3>2. q[m + 1] = PartsOf(r, f)[1]
      <4>1. 1 > 0  OBVIOUS
      <4>2. QED  BY <1>2, <2>3, <3>1, <4>1, Zenon DEF Along
    <3>3. EndsInBlankLine(q[m + 1])  BY <2>2, <3>2, PartFacts DEF EndsInBlankLine
    <3>4. QED  BY <1>1, <1>2, <3>1, <3>3
  <2>5. QED  BY <1>1, <1>2, <2>3, <2>4, Zenon DEF Quiet
<1>5. QED  BY <1>3, <1>4 DEF Expecting

\* Nothing came back, or the request did not get out.
LEMMA WriteOrReadFailsWire ==
    ASSUME PoolIInv, WireInv, NEW r \in Requests, WriteOrReadFails(r),
           NEW c \in Conns, c = session[r].conn, CallsBack(r), net' = net, calling'.ec
    PROVE  Behaves(r, c)
<1>1. /\ Broken(r) /\ calling = None /\ r \in Active
      /\ \/ session[r].stage = "write"
         \/ session[r].stage = "read" /\ ~HasBlankLine(First(r, Len(Inbox(r))))
  BY DEF WriteOrReadFails, CallsBack
<1>2. ASSUME ~conn[c].stream PROVE Rests(c)
  <2>1. Fits(r) /\ At(r) = session[r].stage  BY <1>1, <1>2, OwnFits
  <2>2. CASE session[r].stage = "write"  BY <2>1, <2>2, Zenon DEF Fits
  <2>3. CASE session[r].stage = "read" /\ ~HasBlankLine(First(r, Len(Inbox(r))))
    <3>1. PICK q : q = Inbox(r) /\ q = net[c].inbox  BY DEF Inbox
    <3>2. session[r].buf = <<>>  BY <2>3, StageFacts DEF PoolIInv, SessionInv
    <3>3. q \in Seq(Part)  BY <3>1 DEF PoolIInv, Types, Device
    <3>4. First(r, Len(q)) = q
      <4>1. <<>> \o SubSeq(q, 1, Len(q)) = q  BY <3>3
      <4>2. QED  BY <3>1, <3>2, <4>1, Zenon DEF First
    <3>5. \A i \in 1..Len(q) : ~EndsInBlankLine(q[i])
      BY <2>3, <3>1, <3>4, Zenon DEF HasBlankLine
    <3>6. Dead(c) \/ Expecting(c, r)  BY <2>1, <2>3, Zenon DEF Fits
    <3>7. Expecting(c, r) => Quiet(q)  BY <3>1, <3>3, <3>5, NoHeadYet
    <3>8. Dead(c)  BY <1>1, <3>1, <3>6, <3>7, BrokenDead
    <3>9. QED  BY <3>8 DEF Rests
  <2>4. QED  BY <1>1, <2>2, <2>3
<1>3. QED  BY <1>2, FailsLeaves

\* Where a request is in its response that takes n parts of it, content of them.
LEMMA ReceivesOn ==
    ASSUME PoolIInv, Types', NEW r \in Requests, NEW c \in Conns, c = session[r].conn,
           session'[r].conn = c, NEW stage \in Receiving, Receives(r, stage),
           NEW n \in Nat, NEW content \in Nat, Takes(r, n, content),
           NEW k \in Nat, k = Taken(session[r], stage)
    PROVE  /\ Follows(r, k) /\ Follows(r, k + n)' /\ net'[c].asked = <<>>
           /\ session'[r].head = r /\ session'[r].framing \in FramingsOf[r]
           /\ session'[r].framing = session[r].framing
           /\ session'[r].got = session[r].got + content
           /\ net'[c].up = net[c].up
<1>1. /\ session[r].head = r /\ session[r].framing \in FramingsOf[r]
      /\ net[c].asked = <<>> /\ Follows(r, k)
  BY Zenon DEF Receives
<1>2. /\ session'[r].head = session[r].head /\ session'[r].framing = session[r].framing
      /\ session'[r].got = session[r].got + content /\ Moves(r, n)
  BY Zenon DEF Takes
<1>3. net'[c].asked = net[c].asked /\ net'[c].up = net[c].up
  BY <1>2, Zenon DEF Moves
<1>4. Types  BY DEF PoolIInv
<1>5. Follows(r, k + n)'  BY <1>1, <1>2, <1>4, FollowsStep
<1>6. QED  BY <1>1, <1>2, <1>3, <1>5

\* What r has to be for Receives to hold after a step.
LEMMA ReceivesAfter ==
    ASSUME NEW r \in Requests, NEW c \in Conns, session'[r].conn = c, NEW stage \in Receiving,
           session'[r].head = r, session'[r].framing \in FramingsOf[r], net'[c].asked = <<>>,
           NEW k \in Nat, k = Taken(session'[r], stage), Follows(r, k)',
           stage = "content" =>
               /\ session'[r].framing \in {"length", "long"}
               /\ session'[r].got + session'[r].left = Contents(KindsOf(session'[r].framing)),
           stage = "rest" => session'[r].framing = "eof",
           stage \in {"size", "data"} => session'[r].framing = "chunked" /\ k <= 5,
           stage \in {"content", "rest"} => session'[r].buf = <<>>
    PROVE  Receives(r, stage)'
BY Zenon DEF Receives

\* Content is read.
LEMMA ReadContentWire ==
    ASSUME PoolIInv, Types', WireInv, NEW r \in Requests, ReadContent(r),
           NEW c \in Conns, c = session[r].conn
    PROVE  CallsBack(r) /\ Behaves(r, c)
<1>1. /\ CallsBack(r) /\ ~calling'.ec
      /\ IF session'[r].left = 0 THEN calling'.end /\ calling'.next = "done"
         ELSE ~calling'.end /\ calling'.next = "content"
      /\ session[r].buf = <<>> => \E n \in Nat :
            /\ n <= session[r].left /\ session'[r].left = session[r].left - n
            /\ session'[r].buf = <<>> /\ Takes(r, n, n)
  BY ReadContentStep
<1>2. PICK next : next = calling'.next  OBVIOUS
<1>3. /\ calling = None /\ r \in Active /\ session'[r].conn = c
      /\ session[r].stage = "content"
      /\ conn[c].stream => conn'[c].stream
  <2>1. conn'[c].stream = (conn[c].stream \/ (calling'.end /\ calling'.next = "events"))
    BY <1>1, Zenon DEF CallsBack
  <2>2. QED  BY <1>1, <2>1 DEF CallsBack, ReadContent
<1>4. ASSUME ~conn[c].stream
      PROVE  /\ IF calling'.end THEN Rests(c)' ELSE next \in Receiving /\ Receives(r, next)'
             /\ calling'.end => Whole(r)'
  <2>1. "content" \in Receiving /\ session[r].stage = "content"
    BY DEF Receiving, ReadContent
  <2>2. Receives(r, "content")
    <3>1. Fits(r) /\ At(r) = "content"  BY <1>3, <1>4, <2>1, OwnFits
    <3>2. QED  BY <2>1, <3>1, Zenon DEF Fits
  <2>3. /\ session[r].framing \in {"length", "long"} /\ session[r].buf = <<>>
        /\ session[r].got + session[r].left = Contents(KindsOf(session[r].framing))
    BY <2>2, Zenon DEF Receives
  <2>4. PICK n \in Nat : /\ n <= session[r].left /\ session'[r].left = session[r].left - n
                         /\ session'[r].buf = <<>> /\ Takes(r, n, n)
    BY <1>1, <2>3
  <2>5. session[r].got \in Nat /\ session[r].left \in Nat
    BY DEF PoolIInv, Types, Session
  <2>6. PICK k \in Nat : k = 1 + session[r].got  BY <2>5
  <2>7. k = Taken(session[r], "content")  BY <2>6, Zenon DEF Taken
  <2>8. /\ Follows(r, k + n)' /\ net'[c].asked = <<>>
        /\ session'[r].head = r /\ session'[r].framing \in FramingsOf[r]
        /\ session'[r].framing = session[r].framing
        /\ session'[r].got = session[r].got + n
    BY <1>3, <2>1, <2>2, <2>4, <2>7, ReceivesOn
  <2>9. PICK m \in Nat : m = k + n  BY <2>6
  <2>10. Follows(r, m)'  BY <2>8, <2>9
  <2>11. m = 1 + session'[r].got  BY <2>5, <2>6, <2>8, <2>9
  <2>12. session'[r].got + session'[r].left = Contents(KindsOf(session'[r].framing))
    <3>1. session'[r].got + session'[r].left = session[r].got + session[r].left
      BY <2>4, <2>5, <2>8
    <3>2. QED  BY <2>3, <2>8, <3>1
  <2>13. CASE session'[r].left = 0
    <3>1. calling'.end  BY <1>1, <2>13
    <3>2. session'[r].got = Contents(KindsOf(session'[r].framing))
      BY <2>5, <2>8, <2>12, <2>13
    <3>3. Whole(r)'  BY <2>8, <3>2 DEF Whole
    <3>4. Rests(c)'
      <4>1. session'[r].framing \in {"length", "long", "eof"}
            /\ session'[r].framing \notin {"overlong", "events"}
        BY <2>3, <2>8
      <4>2. m >= Len(KindsOf(session'[r].framing))
        <5>1. Len(KindsOf(session'[r].framing)) = 1 + Contents(KindsOf(session'[r].framing))
          BY <4>1, ContentFacts
        <5>2. m = Len(KindsOf(session'[r].framing))  BY <2>11, <3>2, <5>1
        <5>3. QED  BY <5>2
      <4>3. m >= 1  BY <2>5, <2>6, <2>9
      <4>4. net'[c].inbox = <<>> /\ net'[c].out = <<>>
        BY <1>3, <2>10, <4>1, <4>2, <4>3, FollowsQuietAfter
      <4>5. Quiet(<<>>)  BY NoNetFacts DEF NoNet
      <4>6. Leftover(c)'  BY <2>8, <4>4, <4>5 DEF Leftover
      <4>7. QED  BY <4>6 DEF Rests
    <3>5. QED  BY <3>1, <3>3, <3>4
  <2>14. CASE session'[r].left # 0
    <3>1. ~calling'.end /\ next = "content"  BY <1>1, <1>2, <2>14
    <3>2. m = Taken(session'[r], "content")  BY <2>11, Zenon DEF Taken
    <3>3. session'[r].framing \in {"length", "long"}  BY <2>3, <2>8
    <3>4. Receives(r, "content")'
      BY <1>3, <2>1, <2>4, <2>8, <2>10, <2>12, <3>2, <3>3, ReceivesAfter
    <3>5. QED  BY <2>1, <3>1, <3>4
  <2>15. QED  BY <2>13, <2>14
<1>5. EndsWell' => calling'.end  BY <1>1 DEF EndsWell, CallsBack
<1>6. QED  BY <1>1, <1>2, <1>3, <1>4, <1>5, CallsBackLeaves

\* Content is read up to the end of the connection, which is dead then.
LEMMA ReadRestWire ==
    ASSUME PoolIInv, Types', WireInv, NEW r \in Requests, ReadRest(r),
           NEW c \in Conns, c = session[r].conn
    PROVE  CallsBack(r) /\ Behaves(r, c)
<1>1. /\ CallsBack(r) /\ ~calling'.ec
      /\ IF calling'.end
         THEN /\ calling'.next = "done"
              /\ conn[c].shut \/ ~net[c].up
         ELSE calling'.next = "rest"
      /\ session[r].buf = <<>> =>
            \E n \in Nat : session'[r].buf = <<>> /\ Takes(r, n, n)
  BY ReadRestStep
<1>2. PICK next : next = calling'.next  OBVIOUS
<1>3. /\ calling = None /\ r \in Active /\ session'[r].conn = c
      /\ conn'[c].shut = conn[c].shut
      /\ session[r].stage = "rest"
      /\ conn[c].stream => conn'[c].stream
  <2>1. conn'[c].stream = (conn[c].stream \/ (calling'.end /\ calling'.next = "events"))
    BY <1>1, Zenon DEF CallsBack
  <2>2. QED  BY <1>1, <2>1 DEF CallsBack, ReadRest
<1>4. ASSUME ~conn[c].stream
      PROVE  /\ IF calling'.end THEN Rests(c)' ELSE next \in Receiving /\ Receives(r, next)'
             /\ calling'.end => Whole(r)'
  <2>1. "rest" \in Receiving  BY DEF Receiving
  <2>2. Receives(r, "rest")
    <3>1. Fits(r) /\ At(r) = "rest"  BY <1>3, <1>4, OwnFits
    <3>2. QED  BY <2>1, <3>1, Zenon DEF Fits
  <2>3. session[r].framing = "eof" /\ session[r].buf = <<>>
    BY <2>2, Zenon DEF Receives
  <2>4. PICK n \in Nat : session'[r].buf = <<>> /\ Takes(r, n, n)  BY <1>1, <2>3
  <2>5. session[r].got \in Nat  BY DEF PoolIInv, Types, Session
  <2>6. PICK k \in Nat : k = 1 + session[r].got  BY <2>5
  <2>7. k = Taken(session[r], "rest")  BY <2>6, Zenon DEF Taken
  <2>8. /\ Follows(r, k + n)' /\ net'[c].asked = <<>>
        /\ session'[r].head = r /\ session'[r].framing \in FramingsOf[r]
        /\ session'[r].framing = session[r].framing
        /\ session'[r].got = session[r].got + n
        /\ net'[c].up = net[c].up
    BY <1>3, <2>1, <2>2, <2>4, <2>7, ReceivesOn
  <2>9. PICK m \in Nat : m = k + n /\ m >= 1  BY <2>5, <2>6
  <2>10. Follows(r, m)'  BY <2>8, <2>9
  <2>11. m = Taken(session'[r], "rest")
    <3>1. m = 1 + session'[r].got  BY <2>5, <2>6, <2>8, <2>9
    <3>2. QED  BY <3>1, Zenon DEF Taken
  <2>12. CASE calling'.end
    <3>1. Whole(r)'  BY <2>3, <2>8 DEF Whole
    <3>2. Quiet(net'[c].inbox)  BY <1>3, <2>3, <2>8, <2>9, <2>10, FollowsQuietAfter
    <3>3. Dead(c)'  BY <1>1, <1>3, <2>8, <2>12, <3>2 DEF Dead
    <3>4. QED  BY <2>12, <3>1, <3>3 DEF Rests
  <2>13. CASE ~calling'.end
    <3>1. next = "rest"  BY <1>1, <1>2, <2>13
    <3>2. Receives(r, "rest")'
      BY <1>3, <2>1, <2>3, <2>4, <2>8, <2>10, <2>11, ReceivesAfter
    <3>3. QED  BY <2>1, <2>13, <3>1, <3>2
  <2>14. QED  BY <2>12, <2>13
<1>5. EndsWell' => calling'.end  BY <1>1 DEF EndsWell, CallsBack
<1>6. QED  BY <1>1, <1>2, <1>3, <1>4, <1>5, CallsBackLeaves

\* The first part at hand is that of the response where r is.
LEMMA FirstPending ==
    ASSUME PoolIInv, NEW r \in Requests, NEW c \in Conns, c = session[r].conn,
           session[r].framing = "chunked", NEW k \in Nat, k >= 1, Follows(r, k), Moves(r, 1),
           Types'
    PROVE  k + 1 <= 7 /\ Pending(session[r].buf, Inbox(r), 1).kind = KindsOf("chunked")[k + 1]
<1>1. Types /\ "chunked" \in Framings  BY DEF PoolIInv, Framings
<1>2. PICK b \in Seq(Part), q \in Seq(Part) : b = session[r].buf /\ q = net[c].inbox
  BY <1>1, HeldParts
<1>3. PICK lb \in Nat, lq \in Nat : lb = Len(b) /\ lq = Len(q)  BY LenProperties
<1>4. lb + lq >= 1
  <2>1. session'[r].buf \in Seq(Part) /\ net'[c].inbox \in Seq(Part)
    BY DEF Types, Session, Device
  <2>2. PICK lc \in Nat, lp \in Nat : lc = Len(session'[r].buf) /\ lp = Len(net'[c].inbox)
    BY <2>1, LenProperties
  <2>3. lc + lp + 1 = lb + lq  BY <1>2, <1>3, <2>2, Zenon DEF Moves
  <2>4. QED  BY <2>3
<1>5. \A i \in 1..lb + lq : /\ i + k <= Len(KindsOf("chunked"))
                            /\ Pending(b, q, i) = PartsOf(r, "chunked")[i + k]
  BY <1>2, <1>3, Zenon DEF Follows
<1>6. 1 \in 1..lb + lq /\ 1 + k = k + 1  BY <1>4
<1>7. Len(KindsOf("chunked")) = 7  BY <1>1, KindFacts
<1>8. k + 1 <= 7 /\ Pending(b, q, 1) = PartsOf(r, "chunked")[k + 1]
  BY <1>5, <1>6, <1>7, Zenon
<1>9. k + 1 \in 1..Len(KindsOf("chunked"))
  <2>1. PICK l : l = Len(KindsOf("chunked")) /\ l = 7  BY <1>7
  <2>2. k + 1 \in 1..7  BY <1>8
  <2>3. QED  BY <2>1, <2>2, Zenon
<1>10. PartsOf(r, "chunked")[k + 1].kind = KindsOf("chunked")[k + 1]
  BY <1>1, <1>9, PartFacts, ZenonT(40)
<1>11. q = Inbox(r)  BY <1>2 DEF Inbox
<1>12. QED  BY <1>2, <1>8, <1>10, <1>11, Zenon

\* The size of a chunk is read, or the end of the response.
LEMMA ReadSizeWire ==
    ASSUME PoolIInv, Types', WireInv, NEW r \in Requests, ReadSize(r),
           NEW c \in Conns, c = session[r].conn
    PROVE  (Goes(r) \/ CallsBack(r)) /\ Behaves(r, c)
<1>0. PICK part : part = Pending(session[r].buf, Inbox(r), 1)  OBVIOUS
<1>1. PICK line \in SizeLine(part) :
        /\ Takes(r, 1, 0)
        /\ \/ line = "zero" /\ CallsBack(r) /\ ~calling'.ec /\ calling'.next = "done"
           \/ /\ line \in {"size", "big"}
              /\ CallsBack(r) /\ ~calling'.ec /\ calling'.next = "data"
           \/ line \in {"size", "big"} /\ Goes(r) /\ session'[r].stage = "data"
           \/ line = "other" /\ CallsBack(r) /\ calling'.ec
  BY <1>0, ReadSizeStep
<1>2. PICK next : next = calling'.next  OBVIOUS
<1>3. /\ calling = None /\ r \in Active /\ session'[r].conn = c
      /\ session[r].stage = "size"
      /\ \A q \in Requests \ {r} : session'[q] = session[q]
  BY <1>1 DEF CallsBack, Goes, ReadSize, Same
<1>4. ASSUME ~conn[c].stream
      PROVE  \/ /\ CallsBack(r) /\ calling'.end /\ calling'.next = "done"
                /\ Rests(c)' /\ Whole(r)'
             \/ CallsBack(r) /\ ~calling'.end /\ next = "data" /\ Receives(r, "data")'
             \/ Goes(r) /\ session'[r].stage = "data" /\ Receives(r, "data")'
  <2>1. "size" \in Receiving /\ "data" \in Receiving  BY DEF Receiving
  <2>2. Receives(r, "size")
    <3>1. Fits(r) /\ At(r) = "size"  BY <1>3, <1>4, OwnFits
    <3>2. QED  BY <2>1, <3>1, Zenon DEF Fits
  <2>3. session[r].got \in Nat  BY DEF PoolIInv, Types, Session
  <2>4. PICK k \in Nat : k = 1 + 2 * session[r].got /\ k >= 1  BY <2>3
  <2>5. k = Taken(session[r], "size")  BY <2>4, Zenon DEF Taken
  <2>6. session[r].framing = "chunked" /\ k <= 5  BY <2>2, <2>5, Zenon DEF Receives
  <2>7. /\ Follows(r, k) /\ Follows(r, k + 1)' /\ net'[c].asked = <<>>
        /\ session'[r].head = r /\ session'[r].framing \in FramingsOf[r]
        /\ session'[r].framing = session[r].framing
        /\ session'[r].got = session[r].got + 0
    <3>1. Takes(r, 1, 0) /\ session'[r].conn = c  BY <1>1, <1>3
    <3>2. PICK n \in Nat, content \in Nat : n = 1 /\ content = 0  OBVIOUS
    <3>3. PICK stage \in Receiving : stage = "size"  BY <2>1
    <3>4. Receives(r, stage) /\ k = Taken(session[r], stage) /\ Takes(r, n, content)
      BY <2>2, <2>5, <3>1, <3>2, <3>3
    <3>5. /\ Follows(r, k) /\ Follows(r, k + n)' /\ net'[c].asked = <<>>
          /\ session'[r].head = r /\ session'[r].framing \in FramingsOf[r]
          /\ session'[r].framing = session[r].framing
          /\ session'[r].got = session[r].got + content
      BY <3>1, <3>4, ReceivesOn
    <3>6. QED  BY <3>2, <3>5
  <2>8. session'[r].got = session[r].got  BY <2>3, <2>7
  <2>9. part.kind = KindsOf("chunked")[k + 1]
    <3>1. Moves(r, 1)  BY <1>1 DEF Takes
    <3>2. QED  BY <1>0, <2>4, <2>6, <2>7, <3>1, FirstPending
  <2>10. /\ KindsOf("chunked")[2] = "size" /\ KindsOf("chunked")[4] = "size"
         /\ KindsOf("chunked")[6] = "zero"
    BY KindFacts DEF Framings
  <2>11. k = 1 \/ k = 3 \/ k = 5
    <3>1. session[r].got = 0 \/ session[r].got = 1 \/ session[r].got = 2
      BY <2>3, <2>4, <2>6
    <3>2. QED  BY <2>4, <3>1
  <2>12. PICK m \in Nat : m = k + 1 /\ m >= 1  OBVIOUS
  <2>13. Follows(r, m)'  BY <2>7, <2>12
  <2>14. CASE k = 5
    <3>1. line = "zero"
      <4>1. part.kind = "zero"  BY <2>9, <2>10, <2>14
      <4>2. QED  BY <1>1, <4>1 DEF SizeLine
    <3>2. CallsBack(r) /\ ~calling'.ec /\ calling'.next = "done"  BY <1>1, <3>1
    <3>3. calling'.end /\ calling'.req = r /\ calling' \in CallbackArgs
      BY <3>2 DEF CallsBack
    <3>4. session'[r].got = 2  BY <2>3, <2>4, <2>8, <2>14
    <3>5. Whole(r)'  BY <2>6, <2>7, <3>4, ContentFacts DEF Whole
    <3>6. Quiet(net'[c].inbox) /\ Quiet(net'[c].out)
      BY <1>3, <2>6, <2>7, <2>12, <2>13, FollowsQuietAfter
    <3>7. Spoilt'
      <4>1. calling' # None  BY <3>3, ClientAssumption DEF ClientAssumption
      <4>2. "chunked" \in FramingsOf[r]  BY <2>6, <2>7
      <4>3. Ending(r)'  BY <3>3, <4>1 DEF Ending
      <4>4. QED  BY <3>2, <4>2, <4>3 DEF Spoilt
    <3>8. Leftover(c)'  BY <2>7, <3>6, <3>7 DEF Leftover
    <3>9. QED  BY <3>2, <3>3, <3>5, <3>8 DEF Rests
  <2>15. CASE k # 5
    <3>1. line = "size"
      <4>1. part.kind = "size"  BY <2>9, <2>10, <2>11, <2>15
      <4>2. QED  BY <1>1, <4>1 DEF SizeLine
    <3>2. \/ CallsBack(r) /\ ~calling'.ec /\ calling'.next = "data"
          \/ Goes(r) /\ session'[r].stage = "data"
      BY <1>1, <3>1
    <3>3. CallsBack(r) /\ calling'.next = "data" => ~calling'.end  BY DEF CallsBack
    <3>4. m = Taken(session'[r], "data")
      <4>1. m = 2 + 2 * session'[r].got  BY <2>3, <2>4, <2>8, <2>12
      <4>2. QED  BY <4>1, Zenon DEF Taken
    <3>5. m <= 5  BY <2>11, <2>12, <2>15
    <3>6. Receives(r, "data")'
      BY <1>3, <2>1, <2>6, <2>7, <2>13, <3>4, <3>5, ReceivesAfter
    <3>7. QED  BY <1>2, <3>2, <3>3, <3>6
  <2>16. QED  BY <2>14, <2>15
<1>5. "data" \in Receiving /\ "data" \notin Connecting \cup {"resolve", "connect", "write", "read"}
  BY ConnectingFacts DEF Receiving
<1>6. CASE Goes(r)
  <2>1. session'[r].stage = "data"
    BY <1>1, <1>6, GoesNotCalls
  <2>2. ~conn[c].stream => Receives(r, "data")'
    BY <1>4, <1>6, GoesNotCalls
  <2>3. QED  BY <1>5, <1>6, <2>1, <2>2, GoesLeaves
<1>7. CASE CallsBack(r)
  <2>1. ~Goes(r)  BY <1>7, GoesNotCalls
  <2>2. conn[c].stream => conn'[c].stream
    <3>1. conn'[c].stream = (conn[c].stream \/ (calling'.end /\ calling'.next = "events"))
      BY <1>7, Zenon DEF CallsBack
    <3>2. QED  BY <3>1
  <2>3. ASSUME ~conn'[c].stream
        PROVE  /\ IF calling'.end THEN Rests(c)' ELSE next \in Receiving /\ Receives(r, next)'
               /\ EndsWell' => Whole(r)'
    <3>1. CASE calling'.end /\ calling'.next = "done" /\ Rests(c)' /\ Whole(r)'  BY <3>1
    <3>2. CASE ~calling'.end /\ next = "data" /\ Receives(r, "data")'
      <4>1. ~EndsWell'  BY <1>2, <3>2 DEF EndsWell
      <4>2. Receives(r, next)'  BY <3>2
      <4>3. QED  BY <1>5, <3>2, <4>1, <4>2
    <3>3. QED  BY <1>4, <2>1, <2>2, <2>3, <3>1, <3>2
  <2>4. QED  BY <1>2, <1>7, <2>3, CallsBackLeaves
<1>8. QED  BY <1>1, <1>6, <1>7

\* A chunk is read.
LEMMA ReadDataWire ==
    ASSUME PoolIInv, Types', WireInv, NEW r \in Requests, ReadData(r),
           NEW c \in Conns, c = session[r].conn
    PROVE  Goes(r) /\ Behaves(r, c)
<1>1. Goes(r) /\ session'[r].stage = "size" /\ Takes(r, 1, 1)  BY ReadDataStep
<1>2. calling = None /\ r \in Active /\ session'[r].conn = c /\ session[r].stage = "data"
  BY <1>1 DEF Goes, ReadData
<1>3. "size" \in Receiving /\ "data" \in Receiving  BY DEF Receiving
<1>4. ASSUME ~conn[c].stream PROVE Receives(r, "size")'
  <2>1. Receives(r, "data")
    <3>1. Fits(r) /\ At(r) = "data"  BY <1>2, <1>4, OwnFits
    <3>2. QED  BY <1>3, <3>1, Zenon DEF Fits
  <2>2. session[r].got \in Nat  BY DEF PoolIInv, Types, Session
  <2>3. PICK k \in Nat : k = 2 + 2 * session[r].got /\ k >= 1  BY <2>2
  <2>4. k = Taken(session[r], "data")  BY <2>3, Zenon DEF Taken
  <2>5. session[r].framing = "chunked" /\ k <= 5  BY <1>3, <2>1, <2>4, Zenon DEF Receives
  <2>6. /\ Follows(r, k + 1)' /\ net'[c].asked = <<>>
        /\ session'[r].head = r /\ session'[r].framing \in FramingsOf[r]
        /\ session'[r].framing = session[r].framing
        /\ session'[r].got = session[r].got + 1
    BY <1>1, <1>2, <1>3, <2>1, <2>4, ReceivesOn
  <2>7. PICK m \in Nat : m = k + 1  OBVIOUS
  <2>8. Follows(r, m)'  BY <2>6, <2>7
  <2>9. m = 1 + 2 * session'[r].got /\ m <= 5
    <3>1. k # 5  BY <2>2, <2>3
    <3>2. QED  BY <2>2, <2>3, <2>5, <2>6, <2>7, <3>1
  <2>10. m = Taken(session'[r], "size")  BY <2>9, Zenon DEF Taken
  <2>11. QED  BY <1>2, <1>3, <2>5, <2>6, <2>8, <2>9, <2>10, ReceivesAfter
<1>5. "size" \notin Connecting \cup {"resolve", "connect", "write", "read"}
  BY ConnectingFacts
<1>6. QED  BY <1>1, <1>4, <1>5, GoesLeaves

\* The connection ends within a response.
LEMMA ContentFailsWire ==
    ASSUME PoolIInv, SharingInv, WireInv, NEW r \in Requests, ContentFails(r),
           NEW c \in Conns, c = session[r].conn
    PROVE  CallsBack(r) /\ Behaves(r, c)
<1>1. CallsBack(r) /\ net' = net /\ calling'.ec  BY ContentFailsStep
<1>2. calling = None /\ r \in Active  BY <1>1 DEF CallsBack
<1>3. Broken(r) /\ session[r].stage \in Receiving \cup {"events"}
  BY DEF ContentFails, Receiving
<1>4. ASSUME ~conn[c].stream PROVE Rests(c)
  <2>1. session[r].stage # "events"  BY <1>4 DEF SharingInv, Streams
  <2>2. PICK stage \in Receiving : stage = session[r].stage  BY <1>3, <2>1
  <2>3. Receives(r, stage)
    <3>1. Fits(r) /\ At(r) = stage  BY <1>2, <1>4, <2>2, OwnFits
    <3>2. QED  BY <2>2, <3>1, Zenon DEF Fits
  <2>4. Types /\ session[r].got \in Nat  BY DEF PoolIInv, Types, Session
  <2>5. PICK k \in Nat : k = Taken(session[r], stage) /\ k >= 1
    <3>1. Taken(session[r], stage) \in Nat /\ Taken(session[r], stage) >= 1
      BY <2>4 DEF Taken
    <3>2. QED  BY <3>1
  <2>6. Follows(r, k)  BY <2>3, <2>5, Zenon DEF Receives
  <2>7. session[r].framing \notin {"overlong", "events"}
    <3>1. stage = "content" \/ stage = "rest" \/ stage = "size" \/ stage = "data"
      BY <2>2 DEF Receiving
    <3>2. session[r].framing \in {"length", "long", "eof", "chunked"}
      BY <2>3, <3>1 DEF Receives
    <3>3. QED  BY <3>2
  <2>8. Quiet(net[c].inbox)  BY <2>4, <2>5, <2>6, <2>7, FollowsQuiet
  <2>9. Dead(c)  BY <1>2, <1>3, <2>8, BrokenDead
  <2>10. QED  BY <2>9 DEF Rests
<1>5. QED  BY <1>1, <1>4, FailsLeaves

\* Events are read on the connection of a stream.
LEMMA ReadEventWire ==
    ASSUME PoolIInv, SharingInv, NEW r \in Requests, ReadEvent(r),
           NEW c \in Conns, c = session[r].conn
    PROVE  CallsBack(r) /\ Behaves(r, c)
<1>1. CallsBack(r)  BY ReadEventStep
<1>2. session[r].stage = "events"  BY DEF ReadEvent
<1>3. conn[c].stream  BY <1>2 DEF SharingInv, Streams
<1>4. conn'[c].stream
  <2>1. conn'[c].stream = (conn[c].stream \/ (calling'.end /\ calling'.next = "events"))
    BY <1>1, Zenon DEF CallsBack
  <2>2. QED  BY <1>3, <2>1
<1>5. PICK next : next = calling'.next  OBVIOUS
<1>6. QED  BY <1>1, <1>4, <1>5, CallsBackLeaves

\* With nothing in the buffer it is the socket that is pending.
LEMMA PendingEmpty ==
    \A q : \A i \in Nat : i >= 1 => Pending(<<>>, q, i) = q[i]
<1> TAKE q
<1> TAKE i \in Nat
<1> HAVE i >= 1
<1>1. PICK n : n = Len(<<>>) /\ n = 0  OBVIOUS
<1>2. ~(i <= n) /\ i - n = i  BY <1>1
<1>3. QED  BY <1>1, <1>2, Zenon DEF Pending

\* The head of a response has been read, with what was read behind it: nothing
\* of another response, unless a stream of events was opened.
LEMMA HeadFollows ==
    ASSUME PoolIInv, Types', NEW r \in Requests, NEW c \in Conns, c = session[r].conn,
           session'[r].conn = c, r \in Active, session[r].buf = <<>>,
           NEW k \in 1..Len(net[c].inbox), NEW framing \in Framings, HeadMoves(r, k, framing),
           NEW f \in FramingsOf[r], NEW m \in Nat, m = 0, Coming(c, r, f, m)
    PROVE  /\ framing = f /\ session'[r].head = r /\ session'[r].framing = f
           /\ k <= Len(KindsOf(f)) /\ net'[c].asked = <<>>
           /\ f \notin {"chunked", "overlong", "events"} => session'[r].buf = <<>> /\ Follows(r, k)'
           /\ f = "chunked" => Follows(r, 1)'
<1>1. f \in Framings /\ Types  BY ClientAssumption DEF ClientAssumption, Framings, PoolIInv
<1>2. PICK q \in Seq(Part), o \in Seq(Part), p \in Seq(Part), b \in Seq(Part) :
        /\ q = net[c].inbox /\ o = net[c].out /\ p = net'[c].inbox /\ b = session'[r].buf
  BY <1>1 DEF Types, Device, Session
<1>3. PICK lq \in Nat, l \in 1..7 : lq = Len(q) /\ l = Len(KindsOf(f))
  BY <1>1, LenProperties, KindFacts
<1>4. k \in Nat /\ k >= 1 /\ k <= lq
  <2>1. k \in 1..lq  BY <1>2, <1>3
  <2>2. QED  BY <2>1
<1>5. q = Inbox(r)  BY <1>2 DEF Inbox
<1>6. /\ net[c].asked = <<>> /\ Along(q, -m, r, f) /\ Along(o, lq - m, r, f)
  BY <1>2, <1>3, Zenon DEF Coming
<1>7. \A i \in 1..lq : i <= l /\ q[i] = PartsOf(r, f)[i]
  <2>1. \A i \in 1..lq : i + (-m) = i /\ i + (-m) > 0  OBVIOUS
  <2>2. QED  BY <1>3, <1>6, <2>1, Zenon DEF Along
<1>8. 1 \in 1..lq /\ k \in 1..lq  BY <1>4
<1>9. q[1].kind = "head" /\ q[1].req = r /\ q[1].framing = f
  <2>1. q[1] = PartsOf(r, f)[1]  BY <1>7, <1>8
  <2>2. QED  BY <1>1, <2>1, PartFacts
<1>10. ParsedAs(q[1]) = {f}  BY <1>9 DEF ParsedAs
<1>11. /\ framing \in ParsedAs(q[1]) /\ session'[r].head = q[1].req /\ session'[r].framing = framing
       /\ session'[r].buf = <<>> \/ framing \in {"chunked", "overlong", "events"}
       /\ Moves(r, IF framing \in {"chunked", "overlong", "events"} THEN 1 ELSE k)
  BY <1>5, Zenon DEF HeadMoves
<1>12. framing = f  BY <1>10, <1>11
<1>13. PICK n \in Nat : n = IF f \in {"chunked", "overlong", "events"} THEN 1 ELSE k  BY <1>4
<1>14. Moves(r, n)  BY <1>11, <1>12, <1>13, Zenon
<1>15. /\ net'[c].asked = <<>> /\ net'[c].out = o
       /\ Len(b) + Len(p) + n = Len(<<>>) + Len(q)
       /\ \A i \in 1..Len(b) : b[i] = Pending(<<>>, q, i + n)
       /\ \A i \in 1..Len(p) : p[i] = Pending(<<>>, q, i + Len(b) + n)
  BY <1>2, <1>6, <1>14, Zenon DEF Moves
<1>16. Onward(<<>>, q, o, 0, r, f)
  <2>1. <<>> \in Seq(Part) /\ Len(<<>>) = 0  OBVIOUS
  <2>2. 0 + lq = lq /\ lq + 0 = lq - m /\ \A i \in 1..lq : i + 0 = i /\ i \in Nat /\ i >= 1
    <3> HIDE <1>3
    <3> QED  OBVIOUS
  <2>3. \A i \in 1..lq : i + 0 <= l /\ Pending(<<>>, q, i) = PartsOf(r, f)[i + 0]
    BY <1>7, <2>2, PendingEmpty, Zenon
  <2>4. Along(o, 0 + lq + 0, r, f)  BY <1>6, <2>2, Zenon
  <2>5. QED  BY <1>3, <2>1, <2>2, <2>3, <2>4, Zenon DEF Onward
<1>17. Onward(b, p, o, 0 + n, r, f)
  <2>1. <<>> \in Seq(Part) /\ 0 \in Nat  OBVIOUS
  <2>2. QED  BY <1>1, <1>15, <1>16, <2>1, OnwardStep, Zenon
<1>18. 0 + n = n  OBVIOUS
<1>19. Onward(b, p, o, n, r, f)  BY <1>17, <1>18, Zenon
<1>20. session'[r].framing = f  BY <1>11, <1>12
<1>21. Follows(r, n)'  BY <1>2, <1>15, <1>19, <1>20, Zenon DEF Follows, Onward
<1>22. k <= Len(KindsOf(f))  BY <1>3, <1>7, <1>8, Zenon
<1>23. f = "chunked" => Follows(r, 1)'  BY <1>13, <1>21
<1>24. f \notin {"chunked", "overlong", "events"} => session'[r].buf = <<>> /\ Follows(r, k)'
  BY <1>11, <1>12, <1>13, <1>21
<1>25. QED  BY <1>9, <1>11, <1>12, <1>15, <1>20, <1>22, <1>23, <1>24

\* What was left behind by a chunked response is no response; with the head that
\* came after it, all that has a blank line is gone.
LEMMA LeftoverRead ==
    ASSUME PoolIInv, Types', Proper, NEW r \in Requests, NEW c \in Conns, c = session[r].conn,
           calling = None, session[r].stage = "read", session[r].buf = <<>>,
           NEW k \in 1..Len(net[c].inbox), NEW framing \in Framings, HeadMoves(r, k, framing),
           NEW i \in 1..k, EndsInBlankLine(net[c].inbox[i]),
           NEW f \in FramingsOf[r], NEW m \in 1..Len(net[c].inbox), Coming(c, r, f, m)
    PROVE  /\ framing = "malformed" /\ net'[c].asked = <<>>
           /\ Quiet(net'[c].inbox) /\ Quiet(net'[c].out) /\ Spoilt
<1>1. f \in Framings /\ Types  BY ClientAssumption DEF ClientAssumption, Framings, PoolIInv
<1>2. PICK q \in Seq(Part), o \in Seq(Part), p \in Seq(Part), b \in Seq(Part) :
        /\ q = net[c].inbox /\ o = net[c].out /\ p = net'[c].inbox /\ b = session'[r].buf
  <2>1. session'[r] \in Session /\ net'[c] \in Device /\ net[c] \in Device  BY <1>1 DEF Types
  <2>2. QED  BY <2>1 DEF Device, Session
<1>3. PICK lq \in Nat, lp \in Nat, l \in 1..7 :
        lq = Len(q) /\ lp = Len(p) /\ l = Len(KindsOf(f))
  BY <1>1, LenProperties, KindFacts
<1>4. k \in 1..lq /\ m \in 1..lq  BY <1>2, <1>3
<1>5. /\ net[c].asked = <<>> /\ (m > 0 => Spoilt)
      /\ \A j \in 1..m : Silent(q[j])
      /\ Along(q, -m, r, f) /\ Along(o, lq - m, r, f)
  BY <1>2, <1>3, Zenon DEF Coming
<1>6. Spoilt  BY <1>4, <1>5
<1>7. f \notin {"overlong", "events"}
  <2>1. PICK h \in Requests :
          /\ "chunked" \in FramingsOf[h]
          /\ session[h].stage = "done" \/ (Ending(h) /\ calling.next = "done")
    BY <1>6 DEF Spoilt
  <2>2. h # r  BY <2>1 DEF Ending
  <2>3. QED  BY <2>1, <2>2 DEF Proper, Unmixed, Fitting
<1>8. framing = "malformed"
  <2>1. 1 \in 1..m  BY <1>4
  <2>2. Silent(q[1])  BY <1>5, <2>1
  <2>3. ParsedAs(q[1]) = {"malformed"}  BY <2>2 DEF ParsedAs, EndsInBlankLine, Silent
  <2>4. framing \in ParsedAs(q[1])  BY <1>2, Zenon DEF HeadMoves, Inbox
  <2>5. QED  BY <2>3, <2>4
<1>9. session'[r].buf = <<>> /\ Moves(r, k)
  BY <1>8 DEF HeadMoves
<1>10. i > m /\ i <= k
  <2>1. i \in Nat /\ i >= 1 /\ i <= k  BY <1>4
  <2>2. ~(i \in 1..m)  BY <1>2, <1>5, Zenon DEF Silent
  <2>3. QED  BY <1>4, <2>1, <2>2
<1>11. /\ net'[c].asked = <<>> /\ net'[c].out = o
       /\ Len(<<>>) + lp + k = Len(<<>>) + lq
       /\ \A j \in 1..lp : p[j] = Pending(<<>>, q, j + Len(<<>>) + k)
  BY <1>2, <1>3, <1>5, <1>9, Zenon DEF Moves
<1>12. Len(<<>>) = 0  OBVIOUS
<1>13. PICK d \in Nat : d = k - m /\ d >= 1 /\ lp + k = lq
  BY <1>4, <1>10, <1>11, <1>12
<1>14. ASSUME NEW j \in 1..lp PROVE j + d <= l /\ p[j] = PartsOf(r, f)[j + d]
  <2>1. /\ j + 0 + k = j + k /\ j + k \in Nat /\ j + k >= 1 /\ j + k \in 1..lq
        /\ (j + k) + (-m) = j + d /\ (j + k) + (-m) > 0
    <3>1. j \in Nat /\ j >= 1 /\ j <= lp /\ k \in Nat /\ k >= 1 /\ m \in Nat
      BY <1>4
    <3>2. j + k <= lq  BY <1>13, <3>1
    <3>3. (j + k) + (-m) = j + d /\ j + d > 0  BY <1>13, <3>1
    <3>4. QED  BY <3>1, <3>2, <3>3
  <2>2. p[j] = q[j + k]
    <3>1. p[j] = Pending(<<>>, q, j + 0 + k)  BY <1>11, <1>12, Zenon
    <3>2. Pending(<<>>, q, j + k) = q[j + k]  BY <2>1, PendingEmpty
    <3>3. QED  BY <2>1, <3>1, <3>2, Zenon
  <2>3. (j + k) + (-m) <= l /\ q[j + k] = PartsOf(r, f)[(j + k) + (-m)]
    BY <1>3, <1>5, <2>1, Zenon DEF Along
  <2>4. QED  BY <2>1, <2>2, <2>3, Zenon
<1>15. Along(p, d, r, f)  BY <1>3, <1>14, Zenon DEF Along
<1>16. lq - m \in Nat /\ lq - m >= 1  BY <1>4, <1>13
<1>17. Quiet(p)  BY <1>1, <1>7, <1>13, <1>15, AlongQuiet, Zenon
<1>18. Quiet(o)  BY <1>1, <1>5, <1>7, <1>16, AlongQuiet, Zenon
<1>19. QED  BY <1>2, <1>6, <1>8, <1>11, <1>17, <1>18, Zenon

\* The head of a response is read, and what follows it.
LEMMA ReadHeadWire ==
    ASSUME PoolIInv, Types', Proper, WireInv, NEW r \in Requests, ReadHead(r), running',
           NEW c \in Conns, c = session[r].conn
    PROVE  (Goes(r) \/ CallsBack(r)) /\ Behaves(r, c)
<1>1. PICK k \in 1..Len(Inbox(r)), framing \in Framings : HeadMoves(r, k, framing)
  <2>1. ~Throws(r)  BY DEF Throws
  <2>2. QED  BY <2>1, ReadHeadStep
<1>2. HeadTaken(r, k - 1, framing)  BY <1>1, Zenon DEF HeadMoves
<1>3. /\ Goes(r) \/ CallsBack(r)
      /\ session[r].stage = "read"
  BY <1>2, Zenon DEF HeadTaken, ReadHead
<1>4. /\ r \in Active /\ calling = None /\ session'[r].conn = c
      /\ \A q \in Requests \ {r} : session'[q] = session[q]
  BY <1>3 DEF Goes, CallsBack, Same
<1>5. session[r].buf = <<>>  BY <1>3, StageFacts DEF PoolIInv, SessionInv
<1>6. Inbox(r) = net[c].inbox  BY DEF Inbox
<1>7. k \in 1..Len(net[c].inbox)  BY <1>6
<1>8. Spoilt => Spoilt'
  <2>1. \A q \in Requests : session[q].stage = "done" => session'[q].stage = "done"
    BY <1>4 DEF Active
  <2>2. QED  BY <1>4, <2>1, SpoiltStays
<1>9. CallsBack(r) => (conn[c].stream => conn'[c].stream)
                      /\ (calling'.end /\ calling'.next = "events" => conn'[c].stream)
  <2> HAVE CallsBack(r)
  <2>1. conn'[c].stream = (conn[c].stream \/ (calling'.end /\ calling'.next = "events"))
    BY Zenon DEF CallsBack
  <2>2. QED  BY <2>1
<1>10. PICK i \in 1..k : EndsInBlankLine(net[c].inbox[i])
  <2>1. PICK q \in Seq(Part) : q = Inbox(r)  BY <1>6 DEF PoolIInv, Types, Device
  <2>2. k \in Nat /\ k <= Len(Inbox(r))
    <3>1. PICK l \in Nat : l = Len(Inbox(r))  BY <2>1, LenProperties
    <3>2. QED  BY <1>1, <3>1
  <2>3. session[r].stage \notin {"idle", "done"}  BY <1>3
  <2>4. PICK s : s = First(r, k)  OBVIOUS
  <2>5. /\ Len(s) = Len(<<>>) + k
        /\ \A j \in 1..Len(<<>>) + k :
              s[j] = IF j <= Len(<<>>) THEN session[r].buf[j] ELSE Inbox(r)[j - Len(<<>>)]
    BY <1>5, <2>2, <2>3, <2>4, FirstType, Zenon
  <2>6. Len(<<>>) = 0 /\ 0 + k = k /\ \A j \in 1..k : ~(j <= 0) /\ j - 0 = j
    BY <2>2
  <2>7. Len(s) = k /\ \A j \in 1..k : s[j] = Inbox(r)[j]  BY <2>5, <2>6, Zenon
  <2>8. HasBlankLine(s)  BY <1>1, <2>4, Zenon DEF HeadMoves
  <2>9. QED  BY <1>6, <2>7, <2>8, Zenon DEF HasBlankLine
<1>11. ASSUME ~conn[c].stream
       PROVE  \E f \in FramingsOf[r], m \in 0..Len(net[c].inbox) : Coming(c, r, f, m)
  <2>1. Fits(r) /\ At(r) = "read"  BY <1>3, <1>4, <1>11, OwnFits
  <2>2. Dead(c) \/ Expecting(c, r)  BY <2>1, Zenon DEF Fits
  <2>3. ~Quiet(net[c].inbox)
    <3>1. i \in 1..Len(net[c].inbox)
      <4>1. PICK l \in Nat : l = Len(net[c].inbox)
        <5>1. net[c].inbox \in Seq(Part)  BY DEF PoolIInv, Types, Device
        <5>2. QED  BY <5>1, LenProperties
      <4>2. QED  BY <1>7, <4>1
    <3>2. QED  BY <1>10, <3>1 DEF Quiet, Silent
  <2>4. ~Dead(c) /\ ~Asked(c, r)  BY <2>3 DEF Dead, Asked
  <2>5. QED  BY <2>2, <2>4 DEF Expecting
<1>12. PICK e : e = session'[r]  OBVIOUS
<1>13. ASSUME ~conn[c].stream
       PROVE  \/ CallsBack(r) /\ calling'.end /\ calling'.next = "events"
              \/ /\ CallsBack(r) /\ calling'.end
                 /\ Rests(c)' /\ (calling'.ec \/ Whole(r)')
              \/ \E stage \in Receiving :
                    Goes(r) /\ session'[r].stage = stage /\ Receives(r, stage)'
  <2>1. PICK f \in FramingsOf[r], m \in 0..Len(net[c].inbox) : Coming(c, r, f, m)
    BY <1>11, <1>13
  <2>2. PICK l \in Nat : l = Len(net[c].inbox)
    <3>1. net[c].inbox \in Seq(Part)  BY DEF PoolIInv, Types, Device
    <3>2. QED  BY <3>1, LenProperties
  <2>3. m \in Nat /\ (m = 0 \/ m \in 1..Len(net[c].inbox)) /\ k \in Nat /\ k >= 1
    BY <1>7, <2>2
  <2>4. CASE m \in 1..Len(net[c].inbox)
    <3>1. /\ framing = "malformed" /\ net'[c].asked = <<>>
          /\ Quiet(net'[c].inbox) /\ Quiet(net'[c].out) /\ Spoilt
      BY <1>1, <1>3, <1>4, <1>5, <1>7, <1>10, <2>1, <2>4, LeftoverRead
    <3>2. Leftover(c)'  BY <1>8, <3>1 DEF Leftover
    <3>3. CallsBack(r) /\ calling'.ec  BY <1>2, <3>1 DEF HeadTaken
    <3>4. calling'.end  BY <3>3 DEF CallsBack
    <3>5. QED  BY <3>2, <3>3, <3>4 DEF Rests
  <2>5. CASE m = 0
    <3>1. /\ framing = f /\ e.head = r /\ e.framing = f
          /\ k <= Len(KindsOf(f)) /\ net'[c].asked = <<>>
          /\ f \notin {"chunked", "overlong", "events"} => e.buf = <<>> /\ Follows(r, k)'
          /\ f = "chunked" => Follows(r, 1)'
      BY <1>1, <1>4, <1>5, <1>7, <1>12, <2>1, <2>3, <2>5, HeadFollows
    <3>2. f \in Framings  BY ClientAssumption DEF ClientAssumption, Framings
    <3>3. /\ "content" \in Receiving /\ "rest" \in Receiving /\ "size" \in Receiving
      BY DEF Receiving
    <3>4. ASSUME f \notin {"chunked", "overlong", "events"}, k >= Len(KindsOf(f))
          PROVE  Rests(c)'
      <4>1. /\ Follows(r, k)' /\ e.framing \notin {"overlong", "events"}
            /\ k >= Len(KindsOf(e.framing))
        BY <3>1, <3>4
      <4>2. net'[c].inbox = <<>> /\ net'[c].out = <<>>
        BY <1>4, <1>12, <2>3, <4>1, FollowsQuietAfter
      <4>3. Quiet(<<>>)  BY NoNetFacts DEF NoNet
      <4>4. Leftover(c)'  BY <3>1, <4>2, <4>3 DEF Leftover
      <4>5. QED  BY <4>4 DEF Rests
    <3>5. CallsBack(r) /\ calling'.ec => calling'.end  BY DEF CallsBack
    <3>6. CallsBack(r) /\ calling'.next = "done" => calling'.end  BY DEF CallsBack
    <3>7. CASE framing = "malformed" /\ CallsBack(r) /\ calling'.ec
      <4>1. Len(KindsOf("malformed")) = 1  BY KindFacts DEF Framings
      <4>2. k >= Len(KindsOf(f))  BY <2>3, <3>1, <3>7, <4>1
      <4>3. f \notin {"chunked", "overlong", "events"}  BY <3>1, <3>7
      <4>4. QED  BY <3>4, <3>5, <3>7, <4>2, <4>3
    <3>8. CASE /\ framing = "none" /\ CallsBack(r) /\ ~calling'.ec /\ calling'.next = "done"
               /\ e.got = 0
      <4>1. Len(KindsOf("none")) = 1  BY KindFacts DEF Framings
      <4>2. k >= Len(KindsOf(f))  BY <2>3, <3>1, <3>8, <4>1
      <4>3. f \notin {"chunked", "overlong", "events"}  BY <3>1, <3>8
      <4>4. Whole(r)'  BY <1>12, <3>1, <3>8, ContentFacts DEF Whole
      <4>5. QED  BY <3>4, <3>6, <3>8, <4>2, <4>3, <4>4
    <3>9. CASE /\ framing \in {"length", "long"} /\ CallsBack(r) /\ ~calling'.ec
               /\ calling'.next = "done" /\ e.got = Contents(KindsOf(framing))
               /\ k - 1 >= Contents(KindsOf(framing))
      <4>1. f \in {"length", "long", "eof"} /\ f \notin {"chunked", "overlong", "events"}
        BY <3>1, <3>9
      <4>2. PICK n \in Nat : n = Contents(KindsOf(f))  BY <3>2, KindsType, ContentsType
      <4>3. k - 1 >= n  BY <3>1, <3>9, <4>2
      <4>4. Len(KindsOf(f)) = 1 + n  BY <4>1, <4>2, ContentFacts
      <4>5. k >= Len(KindsOf(f))  BY <2>3, <4>3, <4>4
      <4>6. Whole(r)'  BY <1>12, <3>1, <3>9 DEF Whole
      <4>7. QED  BY <3>4, <3>6, <3>9, <4>1, <4>5, <4>6
    <3>10. CASE /\ framing \in {"length", "long"} /\ Goes(r) /\ e.stage = "content"
                /\ e.got = k - 1 /\ e.got + e.left = Contents(KindsOf(framing))
      <4>1. k = 1 + e.got  BY <2>3, <3>10
      <4>2. k = Taken(e, "content")  BY <4>1, Zenon DEF Taken
      <4>3. f \notin {"chunked", "overlong", "events"} /\ f \in {"length", "long"}  BY <3>1, <3>10
      <4>4. Receives(r, "content")'
        BY <1>4, <1>12, <2>3, <3>1, <3>3, <3>10, <4>2, <4>3, ReceivesAfter
      <4>5. QED  BY <1>12, <3>3, <3>10, <4>4
    <3>11. CASE /\ framing = "eof" /\ Goes(r) /\ e.stage = "rest"
                /\ e.got = IF k - 1 < Contents(KindsOf(framing)) THEN k - 1
                           ELSE Contents(KindsOf(framing))
      <4>1. PICK n \in Nat : n = Contents(KindsOf(f))  BY <3>2, KindsType, ContentsType
      <4>2. f \in {"length", "long", "eof"} /\ f \notin {"chunked", "overlong", "events"}
        BY <3>1, <3>11
      <4>3. Len(KindsOf(f)) = 1 + n  BY <4>1, <4>2, ContentFacts
      <4>4. k <= 1 + n  BY <3>1, <4>3
      <4>5. e.got = IF k - 1 < n THEN k - 1 ELSE n  BY <3>1, <3>11, <4>1
      <4>6. k = 1 + e.got  BY <2>3, <4>4, <4>5
      <4>7. k = Taken(e, "rest")  BY <4>6, Zenon DEF Taken
      <4>8. Receives(r, "rest")'
        BY <1>4, <1>12, <2>3, <3>1, <3>3, <3>11, <4>2, <4>7, ReceivesAfter
      <4>9. QED  BY <1>12, <3>3, <3>11, <4>8
    <3>12. CASE framing \in {"chunked", "overlong"} /\ Goes(r) /\ e.stage = "size" /\ e.got = 0
      <4>1. 1 = 1 + 2 * e.got  BY <3>12
      <4>2. 1 = Taken(e, "size")  BY <4>1, Zenon DEF Taken
      <4>3. f = "chunked"  BY <3>1, <3>12 DEF Proper, Fitting
      <4>4. Receives(r, "size")'
        BY <1>4, <1>12, <3>1, <3>3, <3>12, <4>2, <4>3, ReceivesAfter
      <4>5. QED  BY <1>12, <3>3, <3>12, <4>4
    <3>13. CASE framing = "events" /\ CallsBack(r) /\ calling'.end /\ calling'.next = "events"
      BY <3>13
    <3>14. QED
      BY <1>2, <1>12, <3>7, <3>8, <3>9, <3>10, <3>11, <3>12, <3>13, Zenon DEF HeadTaken
  <2>6. QED  BY <2>3, <2>4, <2>5
<1>14. CASE Goes(r)
  <2>1. PICK stage : stage = session'[r].stage  OBVIOUS
  <2>2. ~CallsBack(r)  BY <1>14, GoesNotCalls
  <2>3. ~conn[c].stream => stage \in Receiving /\ Receives(r, stage)'
    BY <1>13, <2>1, <2>2
  <2>4. stage \in Receiving  BY <1>3, <1>14, <2>1, StageFacts DEF Goes
  <2>5. stage \notin Connecting \cup {"resolve", "connect", "write", "read"}
    BY <2>4, ConnectingFacts DEF Receiving
  <2>6. QED  BY <1>14, <2>1, <2>3, <2>5, GoesLeaves
<1>15. CASE CallsBack(r)
  <2>1. PICK next : next = calling'.next  OBVIOUS
  <2>2. ~Goes(r)  BY <1>15, GoesNotCalls
  <2>3. ASSUME ~conn'[c].stream
        PROVE  calling'.end /\ Rests(c)' /\ (EndsWell' => Whole(r)')
    BY <1>9, <1>13, <1>15, <2>2, <2>3 DEF EndsWell
  <2>4. QED  BY <1>15, <2>1, <2>3, CallsBackLeaves
<1>16. QED  BY <1>3, <1>14, <1>15

-----------------------------------------------------------------------------
(* A request that ends well has its response.                              *)

\* A step on a request's own connection.
LEMMA OwnStep ==
    ASSUME PoolIInv, PoolIInv', SharingInv, Proper => WireInv,
           NEW r \in Requests, NEW c \in Conns, c = session[r].conn,
           Goes(r) \/ CallsBack(r), Proper => Behaves(r, c)
    PROVE  (Proper => WireInv') /\ AnsweredWhole'
<1>1. Proper => WireInv'
  <2> HAVE Proper
  <2>1. Leaves(r, c)  BY DEF Behaves
  <2>2. QED  BY <2>1, OwnWire
<1>2. calling' # None => calling'.req = r  BY DEF Goes, CallsBack
<1>3. Proper /\ EndsWell' => Whole(r)'  BY DEF Behaves
<1>4. AnsweredWhole'
  <2> SUFFICES ASSUME Proper, calling' # None, ~calling'.ec, calling'.next = "done"
      PROVE  \/ /\ session'[calling'.req].head = calling'.req
                /\ session'[calling'.req].framing # "eof" =>
                      session'[calling'.req].got
                          = Contents(KindsOf(session'[calling'.req].framing))
             \/ conn'[session'[calling'.req].conn].stream
    BY DEF AnsweredWhole, Proper
  <2>1. EndsWell' /\ calling'.req = r  BY <1>2 DEF EndsWell
  <2>2. Whole(r)'  BY <1>3, <2>1
  <2>3. QED  BY <2>1, <2>2 DEF Whole
<1>5. QED  BY <1>1, <1>4

\* What a step that leaves a callback alone leaves of its request.
KeepsAnswer ==
    /\ calling' = calling
    /\ calling # None =>
          LET s == session[calling.req]
              t == session'[calling.req]
          IN  /\ t.head = s.head /\ t.framing = s.framing /\ t.got = s.got /\ t.conn = s.conn
              /\ conn'[s.conn].stream = conn[s.conn].stream

LEMMA AnswerStays ==
    ASSUME AnsweredWhole, KeepsAnswer
    PROVE  AnsweredWhole'
<1> SUFFICES ASSUME Proper, calling' # None, calling'.end, ~calling'.ec,
                    calling'.next = "done"
    PROVE  \/ /\ session'[calling'.req].head = calling'.req
              /\ session'[calling'.req].framing # "eof" =>
                    session'[calling'.req].got = Contents(KindsOf(session'[calling'.req].framing))
           \/ conn'[session'[calling'.req].conn].stream
  BY DEF AnsweredWhole, Proper
<1>1. calling' = calling  BY DEF KeepsAnswer
<1>2. PICK q : q = calling.req  OBVIOUS
<1>3. PICK s : s = session[q]  OBVIOUS
<1>4. PICK t : t = session'[q]  OBVIOUS
<1>5. /\ t.head = s.head /\ t.framing = s.framing /\ t.got = s.got /\ t.conn = s.conn
      /\ conn'[s.conn].stream = conn[s.conn].stream
  BY <1>1, <1>2, <1>3, <1>4 DEF KeepsAnswer
<1>6. \/ s.head = q /\ (s.framing # "eof" => s.got = Contents(KindsOf(s.framing)))
      \/ conn[s.conn].stream
  BY <1>1, <1>2, <1>3, Zenon DEF AnsweredWhole, Proper
<1>7. \/ t.head = q /\ (t.framing # "eof" => t.got = Contents(KindsOf(t.framing)))
      \/ conn'[t.conn].stream
  BY <1>5, <1>6, Zenon
<1>8. calling'.req = q  BY <1>1, <1>2
<1>9. QED  BY <1>4, <1>7, <1>8, Zenon

\* The request whose callback the thread is in has a connection.
LEMMA CalledFacts ==
    ASSUME PoolIInv, calling # None
    PROVE  /\ calling.req \in Requests /\ session[calling.req].stage = "callback"
           /\ session[calling.req].conn \in Conns /\ session[calling.req].conn \in Held
<1>1. calling.req \in Requests  BY DEF PoolIInv, Types, CallbackArgs
<1>2. session[calling.req].stage = "callback"  BY DEF PoolIInv, CallInv
<1>3. QED  BY <1>1, <1>2, OwnFacts

\* Nothing that a callback is about changes when a request is made,
LEMMA AsksAnswer ==
    ASSUME PoolIInv, NEW r \in Requests, NEW c \in Conns, Asks(r, c)
    PROVE  KeepsAnswer
<1>1. /\ session[r].stage = "idle" /\ \A q \in Requests \ {r} : session'[q] = session[q]
      /\ conn'[c].stream = conn[c].stream /\ \A d \in Conns : d # c => conn'[d] = conn[d]
      /\ calling' = calling
  BY Zenon DEF Asks, Same
<1>2. ASSUME calling # None
      PROVE  /\ session'[calling.req] = session[calling.req]
             /\ conn'[session[calling.req].conn].stream = conn[session[calling.req].conn].stream
  <2>1. calling.req \in Requests /\ session[calling.req].stage = "callback"
        /\ session[calling.req].conn \in Conns
    BY <1>2, CalledFacts
  <2>2. calling.req # r  BY <1>1, <2>1
  <2>3. QED  BY <1>1, <2>1, <2>2
<1>3. QED  BY <1>1, <1>2 DEF KeepsAnswer

\* or by a timer, a device or stop.
LEMMA ChangesAnswer ==
    ASSUME PoolIInv, Changes
    PROVE  KeepsAnswer
<1>1. /\ \A q \in Requests : /\ session'[q].head = session[q].head
                             /\ session'[q].framing = session[q].framing
                             /\ session'[q].got = session[q].got
                             /\ session'[q].conn = session[q].conn
      /\ \A c \in Conns : Alive(c) => conn'[c].stream = conn[c].stream
      /\ calling' = calling
  BY Zenon DEF Changes
<1>2. Held' = Held  BY <1>1, HeldSame
<1>3. ASSUME calling # None
      PROVE  LET s == session[calling.req]
                 t == session'[calling.req]
             IN  /\ t.head = s.head /\ t.framing = s.framing /\ t.got = s.got /\ t.conn = s.conn
                 /\ conn'[s.conn].stream = conn[s.conn].stream
  <2>1. calling.req \in Requests /\ session[calling.req].conn \in Conns
        /\ session[calling.req].conn \in Held
    BY <1>3, CalledFacts
  <2>2. Alive(session[calling.req].conn)  BY <1>2, <2>1 DEF Alive
  <2>3. QED  BY <1>1, <2>1, <2>2
<1>4. QED  BY <1>1, <1>3 DEF KeepsAnswer

\* A completion handler.
LEMMA HandlersWire ==
    ASSUME PoolIInv, PoolIInv', SharingInv, Proper => WireInv, running',
           NEW r \in Requests, Handlers(r), AnsweredWhole
    PROVE  (Proper => WireInv') /\ AnsweredWhole'
<1>0. Types'  BY DEF PoolIInv
<1>1. PICK c : c = session[r].conn  OBVIOUS
<1>2. CASE c \in Conns /\ ~WriteOrReadFails(r)
  <2>1. ASSUME Proper PROVE (Goes(r) \/ CallsBack(r)) /\ Behaves(r, c)
    <3>1. WireInv /\ c \in Conns  BY <1>2, <2>1
    <3>2. \/ Established(r) \/ EstablishFails(r) \/ Written(r)
          \/ ReadHead(r) \/ ReadContent(r) \/ ReadRest(r) \/ ReadSize(r) \/ ReadData(r)
          \/ ReadEvent(r) \/ ContentFails(r)
      BY <1>2 DEF Handlers
    <3>3. CASE Established(r)  BY <1>1, <3>1, <3>3, EstablishedWire
    <3>4. CASE EstablishFails(r)  BY <1>1, <3>1, <3>4, EstablishFailsWire
    <3>5. CASE Written(r)  BY <1>1, <3>1, <3>5, WrittenWire
    <3>6. CASE ReadHead(r)  BY <1>0, <1>1, <2>1, <3>1, <3>6, ReadHeadWire
    <3>7. CASE ReadContent(r)  BY <1>0, <1>1, <3>1, <3>7, ReadContentWire
    <3>8. CASE ReadRest(r)  BY <1>0, <1>1, <3>1, <3>8, ReadRestWire
    <3>9. CASE ReadSize(r)  BY <1>0, <1>1, <3>1, <3>9, ReadSizeWire
    <3>10. CASE ReadData(r)  BY <1>0, <1>1, <3>1, <3>10, ReadDataWire
    <3>11. CASE ReadEvent(r)  BY <1>1, <3>1, <3>11, ReadEventWire
    <3>12. CASE ContentFails(r)  BY <1>1, <3>1, <3>12, ContentFailsWire
    <3>13. QED  BY <3>2, <3>3, <3>4, <3>5, <3>6, <3>7, <3>8, <3>9, <3>10, <3>11, <3>12
  <2>2. CASE Proper
    <3>1. QED  BY <1>1, <1>2, <2>1, <2>2, OwnStep
  <2>3. CASE ~Proper  BY <2>3 DEF AnsweredWhole, Proper
  <2>4. QED  BY <2>2, <2>3
<1>3. CASE c \in Conns /\ WriteOrReadFails(r)
  <2>1. CASE CallsBack(r) /\ net' = net /\ calling'.ec
    <3>1. Proper => Behaves(r, c)  BY <1>1, <1>3, <2>1, WriteOrReadFailsWire
    <3>2. QED  BY <1>1, <1>3, <2>1, <3>1, OwnStep
  <2>2. CASE \E new \in Conns : Retries(r, new)
    <3>1. PICK new \in Conns : Retries(r, new)  BY <2>2
    <3>2. Proper => WireInv'  BY <3>1, RetriesWire
    <3>3. calling' = None  BY <3>1 DEF Retries
    <3>4. AnsweredWhole'  BY <3>3 DEF AnsweredWhole
    <3>5. QED  BY <3>2, <3>4
  <2>3. QED  BY <1>3, <2>1, <2>2, WriteOrReadFailsStep
<1>4. c \in Conns
  <2>1. session[r].stage \notin {"idle", "done"}
    BY StageFacts, ConnectingFacts
    DEF Handlers, Established, EstablishFails, Written, WriteOrReadFails, ReadHead, ReadContent,
        ReadRest, ReadSize, ReadData, ReadEvent, ContentFails, Connecting
  <2>2. QED  BY <1>1, <2>1, OwnFacts
<1>5. QED  BY <1>2, <1>3, <1>4

\* Any step.
LEMMA WireStep ==
    ASSUME IInv, IInv', WireIInv, AnsweredWhole, [Next]_vars
    PROVE  WireIInv' /\ AnsweredWhole'
<1>1. /\ PoolIInv /\ PoolIInv' /\ SharingInv
  BY DEF IInv, UseIInv
<1>2. CASE ~running'
  <2>1. calling' = None  BY <1>1, <1>2 DEF PoolIInv, CallInv
  <2>2. QED  BY <1>2, <2>1 DEF WireIInv, AnsweredWhole
<1>3. CASE UNCHANGED vars
  <2>1. /\ conn' = conn /\ net' = net /\ session' = session /\ calling' = calling
        /\ running' = running
    BY <1>3 DEF vars
  <2>2. AnsweredWhole'  BY <2>1 DEF AnsweredWhole, Proper
  <2>3. ASSUME running, WireInv PROVE WireInv'
    <3>1. Held' = Held  BY <2>1 DEF Held
    <3>2. pool' = pool /\ calls' = calls /\ sends' = sends  BY <1>3 DEF vars
    <3>3. \A c \in Conns : ~Alive(c) => conn'[c] = NewConn /\ net'[c] = NoNet
      BY <1>1, <2>1, <2>3, <3>1, <3>2 DEF PoolIInv, ConnInv, Alive
    <3>4. \A q \in Requests : session'[q] = session[q]  BY <2>1
    <3>5. Changes  BY <2>1, <3>2, <3>3, <3>4, Zenon DEF Changes
    <3>6. QED  BY <1>1, <2>1, <2>3, <3>5, ChangesWire
  <2>7. WireIInv'  BY <2>1, <2>3 DEF WireIInv, Proper
  <2>8. QED  BY <2>2, <2>7
<1>4. CASE running' /\ Next
  <2>1. CASE ~running
    <3>1. Outcome \/ UNCHANGED vars  BY <1>1, EveryStep
    <3>2. CASE Outcome
      <4>1. \A r \in Requests : /\ \A c \in Conns : ~Asks(r, c) /\ ~Retries(r, c)
                                /\ ~Goes(r) /\ ~CallsBack(r) /\ ~Throws(r)
        BY <2>1 DEF Asks, Retries, Goes, CallsBack, Throws
      <4>2. \A r \in Requests : ~Prunes(r)  BY <1>4, <2>1 DEF Prunes
      <4>3. Changes  BY <3>2, <4>1, <4>2 DEF Outcome, OfAKind
      <4>4. QED  BY <1>4, <2>1, <4>3 DEF Changes
    <3>3. QED  BY <1>3, <3>1, <3>2
  <2>2. CASE running
    <3>1. Proper => WireInv  BY <2>2 DEF WireIInv
    <3>2. ASSUME NEW r \in Requests, Request(r)
          PROVE  (Proper => WireInv') /\ AnsweredWhole'
      <4>1. PICK c \in Conns : Asks(r, c)  BY <1>1, <3>2, RequestStep
      <4>2. KeepsAnswer  BY <1>1, <4>1, AsksAnswer
      <4>3. QED  BY <1>1, <3>1, <4>1, <4>2, AsksWire, AnswerStays
    <3>3. ASSUME NEW r \in Requests, Handlers(r)
          PROVE  (Proper => WireInv') /\ AnsweredWhole'
      BY <1>1, <1>4, <3>1, <3>3, HandlersWire
    <3>4. ASSUME Prune
          PROVE  (Proper => WireInv') /\ AnsweredWhole'
      <4>1. PICK r \in Requests : Prunes(r)  BY <1>1, <3>4, PruneStep
      <4>2. calling' = None  BY <4>1 DEF Prunes
      <4>3. AnsweredWhole'  BY <4>2 DEF AnsweredWhole
      <4>4. QED  BY <1>1, <3>1, <4>1, <4>3, PrunesWire
    <3>5. ASSUME \/ stop
                 \/ \E c \in Conns : \/ TimerExpires(c) \/ TimeoutHandler(c)
                                     \/ Answer(c) \/ Deliver(c) \/ DeviceCloses(c)
          PROVE  (Proper => WireInv') /\ AnsweredWhole'
      <4>1. Changes
        BY <1>1, <3>5, stopStep, TimerExpiresStep, TimeoutHandlerStep, DevicesStep
      <4>2. AnsweredWhole'  BY <1>1, <4>1, ChangesAnswer, AnswerStays
      <4>3. Proper => WireInv'  BY <1>1, <2>2, <3>1, <3>5, OthersWire
      <4>4. QED  BY <4>2, <4>3
    <3>6. (Proper => WireInv') /\ AnsweredWhole'
      BY <1>4, <3>2, <3>3, <3>4, <3>5 DEF Next
    <3>7. Proper' <=> Proper  BY DEF Proper
    <3>8. QED  BY <3>6, <3>7 DEF WireIInv
  <2>3. QED  BY <2>1, <2>2
<1>5. running' \in BOOLEAN  BY <1>1 DEF PoolIInv, Types
<1>6. QED  BY <1>2, <1>3, <1>4

\* At the start nothing is on its way.
LEMMA InitWire ==
    ASSUME Init
    PROVE  WireIInv /\ AnsweredWhole
<1>1. /\ calling = None /\ net = [c \in Conns |-> NoNet]
      /\ session = [r \in Requests |-> NewSession]
  BY DEF Init
<1>2. AnsweredWhole  BY <1>1 DEF AnsweredWhole
<1>3. \A c \in Conns : Rests(c)
  <2>1. \A c \in Conns : ~net[c].up /\ net[c].inbox = <<>>  BY <1>1 DEF NoNet
  <2>2. QED  BY <2>1 DEF Rests, Dead, Quiet
<1>4. \A r \in Requests : r \notin Active  BY <1>1 DEF Active, NewSession
<1>5. \A c \in Conns, r \in Requests : ~UsedBy(c, r)  BY <1>4 DEF UsedBy, Uses
<1>6. \A c \in Conns : Orderly(c)  BY <1>3, <1>5 DEF Orderly
<1>7. QED  BY <1>2, <1>6 DEF WireIInv, WireInv

\* A request that ends without an error was answered by the response to it,
\* with all of its content: over connections of which anyone's failure, a
\* timeout or stop may be the end, in however many parts and attempts, for any
\* requests, of which no two are answered in chunks and by events, and none by
\* a chunk larger than the response buffer (Unmixed and Fitting: the code keeps
\* no order in a connection after either).
THEOREM ClientAnsweredWhole == Spec => []AnsweredWhole
<1>1. Init => WireIInv /\ AnsweredWhole  BY InitWire
<1>2. IInv /\ IInv' /\ WireIInv /\ AnsweredWhole /\ [Next]_vars => WireIInv' /\ AnsweredWhole'
  BY WireStep
<1>3. Spec => []IInv  BY ClientIInv
<1>4. QED  BY <1>1, <1>2, <1>3, PTL DEF Spec

===============================================================================
