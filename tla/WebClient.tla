------------------------------ MODULE WebClient ------------------------------
(***************************************************************************)
(* SimpleWeb::Client (src/http/client_http.hpp, client_https.hpp): requests*)
(* over a pool of persistent connections, the silent second attempt when a *)
(* connection has gone, timeouts, and every way a response can be framed.  *)
(*                                                                         *)
(* One thread runs the completion handlers.  What it does in a request's   *)
(* callback is two steps, since the connection is given back before the    *)
(* pool is locked: Callback and Prune.  Requests and stop come from the    *)
(* same thread or, if Concurrent, from others at any time.  A response is  *)
(* counted in parts, as a request is in WebServer; a chunk's data includes *)
(* its line end.  A chunk larger than the response buffer is "overlong":   *)
(* its size is "big", a "fill" of it fits, and what is left, "astray" and  *)
(* "tail", is read out of step.  (Sizes that wrap a size_t are left out.)  *)
(* A device has one address, and may answer, stay silent or close as it    *)
(* likes.                                                                  *)
(***************************************************************************)
EXTENDS Naturals, Sequences, FiniteSets

CONSTANTS
    Requests,        \* requests the application makes, each once
    Conns,           \* bound: connections that exist at a time
    FramingsOf,      \* FramingsOf[r]: how devices may frame the response to r
    Limit,           \* parts of content that fit into a response buffer
    Tls, Proxy,      \* an HTTPS client; one behind a proxy
    Timeout,         \* config.timeout is not 0
    ConnectTimeout,  \* config.timeout_connect is not 0
    Concurrent,      \* requests are made by other threads
    None             \* no request, no connection

KindsOf(framing) ==
    CASE framing \in {"none", "bad_length", "malformed"} -> <<"head">>
      [] framing = "length"          -> <<"head", "body">>
      [] framing \in {"long", "eof"} -> <<"head", "body", "body">>
      [] framing = "chunked"         -> <<"head", "size", "data", "size", "data", "zero", "end">>
      [] framing = "overlong"        -> <<"head", "big", "fill", "astray", "tail">>
      [] framing = "events"          -> <<"head", "event">>

\* What the callback of a session is called with, and what follows it.
CallbackArgs == [req : Requests, ec : BOOLEAN, end : BOOLEAN,
                 next : {"done", "events", "content", "rest", "data"}]

\* Parts of content among kinds.
Contents(kinds) == Cardinality({i \in 1..Len(kinds) : kinds[i] \in {"body", "data"}})

ASSUME ClientAssumption ==
    /\ FramingsOf \in [Requests -> SUBSET {"none", "length", "long", "eof", "chunked",
                                           "overlong", "events", "malformed", "bad_length"}]
    /\ Limit \in Nat \ {0}
    /\ {Tls, Proxy, Timeout, ConnectTimeout, Concurrent} \subseteq BOOLEAN
    /\ None \notin Requests \cup Conns \cup CallbackArgs

VARIABLES
    pool,     \* ClientBase::connections
    conn,     \* conn[c]: the Connection
    net,      \* net[c]: its device: still there, requests received, parts not
              \* yet sent, parts in the socket
    session,  \* session[r]: the Session of request r
    calling,  \* the callback the thread is in
    running,  \* no exception has left io_service::run
    calls,    \* calls[r]: what r's callback was told
    sends     \* sends[r]: how often r was written

vars == <<pool, conn, net, session, calling, running, calls, sends>>

\* timer: a wait is pending; expired: one has completed, whose handler has not
\* run; shut: closed by a timeout or stop; stream: events were opened on it.
NewConn == [open |-> FALSE, inUse |-> FALSE, again |-> TRUE, timer |-> FALSE,
            expired |-> FALSE, shut |-> FALSE, stream |-> FALSE]

NoNet == [up |-> FALSE, asked |-> <<>>, out |-> <<>>, inbox |-> <<>>]

\* cut: the pending operation was cancelled.  head, framing: the request that
\* was answered and how; held: content in the response's buffer; got: content
\* in all; left: content still to come.  from: how the connection was come by.
NewSession == [stage |-> "idle", conn |-> None, buf |-> <<>>, cut |-> FALSE, head |-> None,
               framing |-> "none", held |-> 0, got |-> 0, left |-> 0, from |-> "own"]

Init ==
    /\ pool = {}
    /\ conn = [c \in Conns |-> NewConn]
    /\ net = [c \in Conns |-> NoNet]
    /\ session = [r \in Requests |-> NewSession]
    /\ calling = None
    /\ running = TRUE
    /\ calls = [r \in Requests |-> <<>>]
    /\ sends = [r \in Requests |-> 0]

-----------------------------------------------------------------------------
(* Connections.                                                            *)

\* What a client goes through before it writes.
Phases ==
    IF ~Tls THEN <<"resolve", "connect">>
    ELSE IF Proxy THEN <<"resolve", "connect", "ask_proxy", "proxy_answers", "handshake">>
    ELSE <<"resolve", "connect", "handshake">>

Establishing == {Phases[i] : i \in 2..Len(Phases)}

After(phase) ==
    LET i == CHOOSE i \in 1..Len(Phases) : Phases[i] = phase
    IN  IF i = Len(Phases) THEN "write" ELSE Phases[i + 1]

\* slip: only connecting is limited.
set_timeout_connecting(stage, old) ==
    CASE stage = "resolve"      -> ConnectTimeout /\ ~Tls
      [] stage \in Establishing -> ConnectTimeout
      [] stage = "write"        -> FALSE
      [] OTHER                  -> old

\* The timer once an operation has been started: connecting and writing set
\* it anew, where a timeout of 0 only removes the old one.
set_timeout(stage, old) ==
    CASE stage = "resolve"      -> ConnectTimeout /\ ~Tls
      [] stage \in Establishing -> ConnectTimeout
      [] stage = "write"        -> Timeout
      [] OTHER                  -> old

Held == {session[r].conn : r \in Requests}

\* Connections go with the last reference to them.
Forget(cs, new) == [c \in Conns |-> IF c \in pool' \cup Held' THEN cs[c] ELSE new]

\* Where create_connection may put one.
Unborn == Conns \ (pool \cup Held)

\* s, the session of r, starts its next operation; cs are the connections.
Start(r, s, stage, cs) ==
    /\ session' = [session EXCEPT ![r] = [s EXCEPT !.stage = stage, !.cut = FALSE]]
    /\ conn' = Forget([cs EXCEPT ![s.conn].timer = set_timeout(stage, @),
                                 ![s.conn].open = @ \/ stage = "connect"], NewConn)
    /\ sends' = [sends EXCEPT ![r] = IF stage = "write" THEN @ + 1 ELSE @]

\* Connection::close does nothing to a socket that was never opened.
Close(cs, connections) ==
    LET opened == {c \in cs : conn[c].open}
    IN  /\ session' = [r \in Requests |->
              [session[r] EXCEPT !.cut = @ \/ /\ session[r].conn \in opened
                                              /\ session[r].stage # "callback"]]
        /\ conn' = Forget([c \in Conns |->
              [connections[c] EXCEPT !.shut = @ \/ c \in opened]], NewConn)

TimerExpires(c) ==
    /\ conn[c].timer
    /\ conn' = [conn EXCEPT ![c].timer = FALSE, ![c].expired = TRUE]
    /\ UNCHANGED <<pool, net, session, calling, running, calls, sends>>

Free == running /\ calling = None

TimeoutHandler(c) ==
    /\ Free
    /\ conn[c].expired
    /\ UNCHANGED <<pool, net, calling, running, calls, sends>>
    /\ Close({c}, [conn EXCEPT ![c].expired = FALSE])

-----------------------------------------------------------------------------
(* Requests and their callbacks.                                           *)

Application == running /\ (Concurrent \/ calling = None)

\* request and get_connection: an unused connection of the pool, or a new one.
Request(r) ==
    /\ Application
    /\ session[r].stage = "idle"
    /\ LET unused == {c \in pool : ~conn[c].inUse}
       IN  /\ \E c \in IF unused # {} THEN unused ELSE Unborn :
                 /\ pool' = pool \cup {c}
                 /\ Start(r, [NewSession EXCEPT !.conn = c,
                                !.from = IF c \notin pool THEN "own"
                                         ELSE IF c \in Held THEN "released" ELSE "idle"],
                          IF conn[c].open THEN "write" ELSE "resolve",
                          [conn EXCEPT ![c].inUse = TRUE, ![c].again = TRUE])
    /\ UNCHANGED <<net, calling, running, calls>>

\* The last part of a response gives the connection back.  A wait that has
\* completed cannot be cancelled any more.
Released(s, next) ==
    [conn EXCEPT ![s.conn].timer = FALSE, ![s.conn].inUse = FALSE,
                 ![s.conn].stream = @ \/ next = "events"]

\* The session's callback up to the lock.
Callback(r, s, ec, end, next) ==
    /\ session' = [session EXCEPT ![r] = [s EXCEPT !.stage = "callback", !.cut = FALSE]]
    /\ conn' = IF end THEN Released(s, next) ELSE conn
    /\ calling' = [req |-> r, ec |-> ec, end |-> end, next |-> next]
    /\ UNCHANGED <<running, calls, sends>>

\* An operation of r has failed for good.
Fail(r) == UNCHANGED <<pool, net>> /\ Callback(r, session[r], TRUE, TRUE, "done")

\* slip: a part of a response ends the request as far as the pool knows.
PartialEnds(r, s, next) == Callback(r, [s EXCEPT !.held = 0], FALSE, TRUE, next)

\* slip: a buffer full is taken for all there is.
PartialStops(r, s, next) == Callback(r, s, FALSE, TRUE, "done")

\* The buffer is full: its content is passed on, and next it is read on.
Partial(r, s, next) == Callback(r, [s EXCEPT !.held = 0], FALSE, FALSE, next)

\* slip: unused connections stay.
KeepsAll(unused, kept) == kept = unused

KeepsOne(unused, kept) ==
    /\ kept = {} <=> unused = {}
    /\ \A c, d \in kept : c = d

\* Under the lock: the failed connection goes, and all unused ones but one;
\* then the application is told.
Prune ==
    /\ calling # None
    /\ LET r      == calling.req
           left   == IF calling.ec THEN pool \ {session[r].conn} ELSE pool
           unused == {c \in left : ~conn[c].inUse}
       IN  /\ \E kept \in SUBSET unused : KeepsOne(unused, kept) /\ pool' = (left \ unused) \cup kept
           /\ calls' = [calls EXCEPT ![r] = Append(@, IF calling.ec THEN "error"
                                                      ELSE IF calling.end THEN "end" ELSE "part")]
           /\ session' = [session EXCEPT ![r] =
                 IF calling.next = "done" THEN [NewSession EXCEPT !.stage = "done"]
                 ELSE [@ EXCEPT !.stage = calling.next]]
    /\ calling' = None
    /\ conn' = Forget(conn, NewConn)
    /\ net' = Forget(net, NoNet)
    /\ UNCHANGED <<running, sends>>

stop ==
    /\ Application
    /\ pool # {}
    /\ pool' = {}
    /\ Close(pool, conn)
    /\ net' = Forget(net, NoNet)
    /\ UNCHANGED <<calling, running, calls, sends>>

\* slip: the second attempt may be followed by a third.
SecondAttemptAgain == [NewConn EXCEPT !.inUse = TRUE]

\* slip: anyone may use the connection of a second attempt.
SecondAttemptUnused == [NewConn EXCEPT !.again = FALSE]

SecondAttempt == [NewConn EXCEPT !.inUse = TRUE, !.again = FALSE]

\* slip: the connection that failed stays.
ReplacedKeeps(old, new) == pool \cup {new}

Replaced(old, new) == (pool \ {old}) \cup {new}

\* reconnect: the request starts anew, unless stop or another's failure has
\* taken the connection out of the pool.
reconnect(r) ==
    LET old == session[r].conn
    IN  IF old \notin pool THEN Fail(r)
        ELSE \E new \in Unborn :
             /\ pool' = Replaced(old, new)
             /\ Start(r, [NewSession EXCEPT !.conn = new], "resolve",
                      [conn EXCEPT ![new] = SecondAttempt])
             /\ net' = Forget(net, NoNet)
             /\ UNCHANGED <<calling, running, calls>>

-----------------------------------------------------------------------------
(* Completion handlers.                                                    *)

\* A socket operation of r without data to end with: cancelled, or begun on a
\* closed socket, or the device is gone.
Broken(r) == session[r].cut \/ conn[session[r].conn].shut \/ ~net[session[r].conn].up

\* A request goes on with what it does; parts leave its socket and its buffer.
Continue(r, s, stage) == UNCHANGED <<pool, calling, running, calls>> /\ Start(r, s, stage, conn)

\* Resolving and every phase up to the handshake.
Established(r) ==
    /\ Free
    /\ session[r].stage \in {Phases[i] : i \in 1..Len(Phases)}
    /\ session[r].stage = "connect" \/ session[r].stage = "resolve" \/ net[session[r].conn].up
    /\ Continue(r, session[r], After(session[r].stage))
    /\ net' = [net EXCEPT ![session[r].conn].up = @ \/ session[r].stage = "connect"]

EstablishFails(r) ==
    /\ Free
    /\ session[r].stage \in {Phases[i] : i \in 1..Len(Phases)}
    /\ Fail(r)

\* A device may be gone without the write noticing.
Written(r) ==
    /\ Free
    /\ session[r].stage = "write"
    /\ conn[session[r].conn].shut => session[r].cut
    /\ Continue(r, session[r], "read")
    /\ net' = [net EXCEPT ![session[r].conn].asked = IF net[session[r].conn].up THEN Append(@, r) ELSE @]

\* What r's socket has for it, and the k first parts of it taken.
Inbox(r) == net[session[r].conn].inbox
Take(r, k) == net' = [net EXCEPT ![session[r].conn].inbox = SubSeq(@, k + 1, Len(@))]
First(r, k) == session[r].buf \o SubSeq(Inbox(r), 1, k)

EndsInBlankLine(part) == part.kind \in {"head", "event", "tail"}
HasBlankLine(parts) == \E i \in 1..Len(parts) : EndsInBlankLine(parts[i])

\* ResponseMessage::parse wants a space in the first line, no more: an event,
\* or content, may pass for the head of a response of no version, which ends
\* with the connection.
ParsedAs(part) ==
    CASE part.kind = "head"                -> {part.framing}
      [] part.kind \in {"event", "astray"} -> {"malformed", "eof"}
      [] OTHER                             -> {"malformed"}

\* slip: only a failed write is tried again.
RetriableWrite(r) ==
    conn[session[r].conn].again /\ ~session[r].cut /\ session[r].stage = "write"

Retriable(r) == conn[session[r].conn].again /\ ~session[r].cut

\* The request did not get out, or nothing came back.
WriteOrReadFails(r) ==
    /\ Free
    /\ \/ session[r].stage = "write"
       \/ session[r].stage = "read" /\ ~HasBlankLine(First(r, Len(Inbox(r))))
    /\ Broken(r)
    /\ IF Retriable(r) THEN reconnect(r) ELSE Fail(r)

\* What follows a head: s is the session with it, and rest was read along with
\* it.  (again is not read before the connection is requested anew, which sets
\* it.)
AfterHead(r, head, framing, rest) ==
    LET total  == Contents(KindsOf(framing))
        bodies == IF Len(rest) < total THEN Len(rest) ELSE total
        s == [session[r] EXCEPT !.head = head, !.framing = framing]
        content == [s EXCEPT !.held = bodies, !.got = bodies, !.left = total - bodies]
        again == [conn EXCEPT ![s.conn].again = TRUE]
        Ends(t, ec, next) == UNCHANGED pool /\ Callback(r, t, ec, TRUE, next)
        Goes(t, stage) == /\ UNCHANGED <<pool, calling, running, calls>>
                          /\ Start(r, t, stage, again)
    IN  CASE framing = "malformed" -> Ends(s, TRUE, "done")
          [] framing = "none"      -> Ends(s, FALSE, "done")
          [] framing \in {"length", "long"} ->
                IF content.left = 0 THEN Ends(content, FALSE, "done")
                ELSE Goes(content, "content")
          [] framing = "eof"       -> Goes(content, "rest")
          [] framing \in {"chunked", "overlong"} -> Goes([s EXCEPT !.buf = rest], "size")
          [] framing = "events"    -> Ends([s EXCEPT !.buf = rest], FALSE, "events")
          [] framing = "bad_length" ->
                \* stoull throws: no callback, and run is left.
                /\ UNCHANGED <<pool, calling, calls, sends>>
                /\ running' = FALSE
                /\ session' = [session EXCEPT ![r] = [NewSession EXCEPT !.stage = "done"]]
                /\ conn' = Forget(again, NewConn)

ReadHead(r) ==
    /\ Free
    /\ session[r].stage = "read"
    /\ \E k \in 1..Len(Inbox(r)) :
          /\ k <= Limit + 1 /\ HasBlankLine(First(r, k))
          /\ Take(r, k)
          /\ \E framing \in ParsedAs(Inbox(r)[1]) :
                AfterHead(r, Inbox(r)[1].req, framing, SubSeq(First(r, k), 2, k))

\* read_content: the rest of the content, or a buffer full of it.
ReadContent(r) ==
    /\ Free
    /\ session[r].stage = "content"
    /\ LET s == session[r]
           n == IF s.left < Limit - s.held THEN s.left ELSE Limit - s.held
           t == [s EXCEPT !.held = s.held + n, !.got = s.got + n, !.left = s.left - n]
       IN  /\ Len(Inbox(r)) >= n
           /\ Take(r, n)
           /\ UNCHANGED pool
           /\ IF t.left = 0 THEN Callback(r, t, FALSE, TRUE, "done")
              ELSE Partial(r, t, "content")

\* read_content up to the end of the connection, which cannot be used again.
ReadRest(r) ==
    /\ Free
    /\ session[r].stage = "rest"
    /\ LET s    == session[r]
           room == Limit - s.held
           n    == IF Len(Inbox(r)) < room THEN Len(Inbox(r)) ELSE room
       IN  /\ n = room \/ (Broken(r) /\ ~s.cut /\ ~conn[s.conn].shut)
           /\ Take(r, n)
           /\ pool' = pool \ {s.conn}
           /\ IF n = room THEN Partial(r, [s EXCEPT !.got = @ + n], "rest")
              ELSE Callback(r, [s EXCEPT !.got = @ + n], FALSE, TRUE, "done")

\* slip: any chunk fits.
OverflowsNever(s, line) == FALSE

Overflows(s, line) == line = "big" \/ s.held = Limit

\* stoul on a line: content may begin with a number, too.
SizeLine(part) ==
    CASE part.kind \in {"zero", "size", "big"} -> {part.kind}
      [] part.kind = "astray"                 -> {"zero", "size", "big", "other"}
      [] OTHER                                -> {"other"}

\* The line with the size of a chunk, and the chunk if it came along.  If the
\* chunk does not fit, what there is is passed on before it.
ReadSize(r) ==
    /\ Free
    /\ session[r].stage = "size"
    /\ \E k \in (IF session[r].buf = <<>> THEN 1 ELSE 0)..Len(Inbox(r)) :
          /\ session[r].buf # <<>> => k = 0
          /\ Take(r, k)
          /\ UNCHANGED pool
          /\ LET parts == First(r, k)
                 s == [session[r] EXCEPT !.buf = Tail(parts)]
             IN  \E line \in SizeLine(parts[1]) :
                    CASE line = "zero" -> Callback(r, s, FALSE, TRUE, "done")
                      [] line \in {"size", "big"} ->
                            IF Overflows(s, line) THEN Partial(r, s, "data")
                            ELSE Start(r, s, "data", conn) /\ UNCHANGED <<calling, running, calls>>
                      [] line = "other" -> Callback(r, s, TRUE, TRUE, "done")

\* s with the data of a chunk: reading stops without an error when the buffer
\* is full, and the size of another chunk is expected where this one goes on.
WithData(s, part) ==
    [s EXCEPT !.held = IF part.kind = "fill" THEN Limit ELSE @ + 1, !.got = @ + 1]

\* The chunk itself.
ReadData(r) ==
    /\ Free
    /\ session[r].stage = "data"
    /\ LET s == session[r]
       IN  \/ /\ s.buf # <<>> /\ UNCHANGED net
              /\ Continue(r, [WithData(s, Head(s.buf)) EXCEPT !.buf = Tail(@)], "size")
           \/ /\ s.buf = <<>> /\ Inbox(r) # <<>> /\ Take(r, 1)
              /\ Continue(r, WithData(s, Head(Inbox(r))), "size")

\* read_server_sent_event: what comes before the next blank line.
ReadEvent(r) ==
    /\ Free
    /\ session[r].stage = "events"
    /\ \E k \in 0..Len(Inbox(r)) :
          LET parts == First(r, k)
          IN  /\ HasBlankLine(session[r].buf) => k = 0
              /\ Take(r, k)
              /\ \E i \in 1..Len(parts) :
                    /\ EndsInBlankLine(parts[i]) /\ ~HasBlankLine(SubSeq(parts, 1, i - 1))
                    /\ Callback(r, [session[r] EXCEPT !.buf = SubSeq(parts, i + 1, Len(parts))],
                                FALSE, FALSE, "events")
    /\ UNCHANGED pool

\* slip: a response that breaks off is asked for again.
BrokenOffAgain(r) == IF Retriable(r) THEN reconnect(r) ELSE Fail(r)

BrokenOff(r) == Fail(r)

\* The connection ends within a response.  What ends with the connection is
\* whole at its eof; any other end is an error.
ContentFails(r) ==
    /\ Free
    /\ LET s == session[r]
       IN  \/ s.stage = "content" /\ Len(Inbox(r)) < s.left /\ Len(Inbox(r)) < Limit - s.held
           \/ s.stage = "rest" /\ Len(Inbox(r)) < Limit - s.held
           \/ s.stage \in {"size", "data"} /\ s.buf \o Inbox(r) = <<>>
           \/ s.stage = "events" /\ ~HasBlankLine(First(r, Len(Inbox(r))))
    /\ Broken(r)
    /\ BrokenOff(r)

-----------------------------------------------------------------------------
(* Devices.                                                                *)

PartsOf(r, framing) ==
    LET kinds == KindsOf(framing)
    IN  [i \in 1..Len(kinds) |-> [kind |-> kinds[i], req |-> r, framing |-> framing]]

Answer(c) ==
    /\ net[c].up /\ net[c].out = <<>> /\ net[c].asked # <<>>
    /\ \E framing \in FramingsOf[Head(net[c].asked)] :
          net' = [net EXCEPT ![c].out = PartsOf(Head(net[c].asked), framing), ![c].asked = Tail(@)]
    /\ UNCHANGED <<pool, conn, session, calling, running, calls, sends>>

Deliver(c) ==
    /\ net[c].up /\ ~conn[c].shut
    /\ \E k \in 1..Len(net[c].out) :
          net' = [net EXCEPT ![c].inbox = @ \o SubSeq(net[c].out, 1, k),
                             ![c].out = SubSeq(@, k + 1, Len(@))]
    /\ UNCHANGED <<pool, conn, session, calling, running, calls, sends>>

DeviceCloses(c) ==
    /\ net[c].up
    /\ net' = [net EXCEPT ![c].up = FALSE, ![c].asked = <<>>, ![c].out = <<>>]
    /\ UNCHANGED <<pool, conn, session, calling, running, calls, sends>>

-----------------------------------------------------------------------------

Handlers(r) ==
    \/ Established(r) \/ EstablishFails(r) \/ Written(r) \/ WriteOrReadFails(r)
    \/ ReadHead(r) \/ ReadContent(r) \/ ReadRest(r) \/ ReadSize(r) \/ ReadData(r)
    \/ ReadEvent(r) \/ ContentFails(r)

Next ==
    \/ \E r \in Requests : Request(r) \/ Handlers(r)
    \/ \E c \in Conns : \/ TimerExpires(c) \/ TimeoutHandler(c)
                        \/ Answer(c) \/ Deliver(c) \/ DeviceCloses(c)
    \/ Prune
    \/ stop

Spec == Init /\ [][Next]_vars

\* The thread runs the handlers of operations that have ended.  Those of a
\* device, a handshake among them, need never end of themselves: only names
\* are resolved, in the end, and operations on a broken connection fail.
Completed(r) ==
    \/ Established(r) /\ session[r].stage = "resolve"
    \/ EstablishFails(r) /\ Broken(r) /\ session[r].stage \in Establishing \ {"connect"}
    \/ EstablishFails(r) /\ session[r].cut
    \/ WriteOrReadFails(r) \/ ReadHead(r) \/ ReadContent(r) \/ ReadRest(r)
    \/ ReadSize(r) \/ ReadData(r) \/ ReadEvent(r) \/ ContentFails(r)

FairSpec ==
    /\ Spec
    /\ \A r \in Requests : WF_vars(Completed(r))
    /\ \A c \in Conns : WF_vars(TimerExpires(c)) /\ WF_vars(TimeoutHandler(c))
    /\ WF_vars(Prune)
-----------------------------------------------------------------------------
(* Properties.                                                             *)

Active == {r \in Requests : session[r].stage \notin {"idle", "done"}}

\* The state has its types.
TypeOK ==
    /\ pool \subseteq Conns
    /\ \A c \in Conns :
          /\ conn[c] \in [DOMAIN NewConn -> BOOLEAN]
          /\ net[c].asked \in Seq(Requests)
    /\ \A r \in Requests :
          /\ session[r].conn \in IF r \in Active THEN Conns ELSE {None}
          /\ session[r].head \in Requests \cup {None}
          /\ session[r].held \in 0..Limit /\ session[r].left \in Nat
          /\ calls[r] \in Seq({"part", "end", "error"})
    /\ calling # None => session[calling.req].stage = "callback"

\* A connection carries one request at a time: get_connection and reconnect
\* hand out none that another request is still using, though other threads
\* take connections between a request's giving its own back and the pruning
\* of the pool.  Streams of events give theirs back and keep reading.
Exclusive ==
    \A q, r \in Active :
        q # r /\ session[q].conn = session[r].conn =>
            \/ conn[session[q].conn].stream
            \/ calling # None /\ calling.req \in {q, r} /\ calling.end

\* The blank line at the end of a chunked response may be left on its
\* connection: the next response there is malformed.  If that is the head of a
\* stream of events, they are left too, and a third request, given the
\* connection before Prune, may take one for its response.  Unmixed: no two
\* requests are answered in these ways.
Unmixed ==
    \A q, r \in Requests :
        q # r => ~("chunked" \in FramingsOf[q] /\ "events" \in FramingsOf[r])

\* Fitting: no chunk is larger than the response buffer, as none is unless
\* max_response_streambuf_size is set.  One that is comes without its end, or
\* with an error, or its rest is left to the next request.
Fitting == \A r \in Requests : "overlong" \notin FramingsOf[r]

\* Unmixed and Fitting, a request that ends without an error was answered by
\* the response to it, with all of its content, over whatever connection, in
\* however many parts and attempts.  Only content that ends with the connection
\* may be cut short.  (A full buffer is passed on as a part, and there is none
\* of the message_size errors of client_http.hpp:143-144.)
AnsweredWhole ==
    Unmixed /\ Fitting /\ calling # None /\ calling.end /\ ~calling.ec /\ calling.next = "done" =>
        LET s == session[calling.req]
        IN  \/ /\ s.head = calling.req
               /\ s.framing # "eof" => s.got = Contents(KindsOf(s.framing))
            \/ conn[s.conn].stream

\* The application is told of the end of a request once: by an error or by
\* the last part, after which nothing comes; only a stream of events says
\* "end" when it is opened, and "error" when it ends.  No request is over
\* without a word, except when run has been left.
CalledOnce ==
    \A r \in Requests :
        /\ \A i \in 1..(Len(calls[r]) - 1) :
              /\ calls[r][i] # "error"
              /\ calls[r][i] = "end" => i = 1 /\ calls[r][Len(calls[r])] # "end"
        /\ session[r].stage = "done" /\ running =>
              calls[r] # <<>> /\ calls[r][Len(calls[r])] # "part"

\* Between callbacks at most one connection is open and unused.
OneIdle == calling = None => Cardinality({c \in pool : ~conn[c].inUse}) <= 1

\* Connections in use have a user: none is lost to the pool.
NoLeak == \A c \in pool : running /\ conn[c].inUse => c \in Held

\* The pool as a whole, at every point at which another thread may lock it.
PoolInv == TypeOK /\ OneIdle /\ NoLeak

\* That a persistent connection has gone while it was idle, or under a
\* request nobody answered, is not the application's business: a request
\* fails on a connection that was made for it, or after its response began,
\* or by a timeout or stop; or else it was given the connection of a request
\* that had just failed, before Prune removed it.
FailsForCause ==
    calling # None /\ calling.ec =>
        LET s == session[calling.req]
        IN  s.from \in {"own", "released"} \/ s.head # None \/ conn[s.conn].shut

\* However often connections break, a request is written twice at most, and
\* one whose response has begun is never connected and written again:
\* attempt_reconnect, true from then on, is for the next request.
SentSparingly ==
    /\ [](\A r \in Requests : sends[r] <= 2)
    /\ [][\A r \in Requests :
             session[r].head # None => session'[r].stage \notin {"resolve", "write"}]_vars

\* With both timeouts set a request ends, or becomes a stream of events,
\* whatever the device does; in vain if an exception has left run.
RequestEnds ==
    \A r \in Requests : r \in Active ~>
        \/ r \notin Active
        \/ session[r].conn \in Conns /\ conn[session[r].conn].stream
        \/ ~running
=============================================================================
