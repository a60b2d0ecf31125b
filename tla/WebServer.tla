------------------------------ MODULE WebServer ------------------------------
(***************************************************************************)
(* The connections of SimpleWeb::Server (src/http/server_http.hpp) as the  *)
(* gateway runs it: one thread in io_service::run, default timeouts.       *)
(*                                                                         *)
(* Every asynchronous operation of a connection ends in a completion       *)
(* handler that the one thread runs to its end; a handler that has found a *)
(* resource calls the resource function, during which everything else      *)
(* waits: for ever, if the function waits for a device that never answers, *)
(* as observe-once does.  A client's bytes are counted in parts: a head up to its blank   *)
(* line, a body, or the pieces of a chunked body.  A read may bring in     *)
(* more parts than it needs; they stay in the buffer of the session.       *)
(*                                                                         *)
(* Nobody stops the gateway's server, and on_upgrade is not set: stop and  *)
(* upgrades are left out.                                                  *)
(***************************************************************************)
EXTENDS Naturals, Sequences, FiniteSets

CONSTANTS
    Conns,        \* connections clients may open
    Requests,     \* Requests[c]: the requests sent on connection c
    MaxRequests,  \* MaxRequests[c], a bound: how many of them
    None          \* no connection

Framings == {"none", "length", "chunked"}

\* What becomes of a request: its resource function answers it, returns or
\* throws without having written anything, or never returns; no resource
\* matches; the head, or the size of a chunk, cannot be parsed.
Outcomes == {"answer", "nothing", "hangs", "unmatched", "malformed", "bad_size"}

ASSUME RequestsAssumption ==
    Requests \in [Conns -> SUBSET [framing : Framings, outcome : Outcomes, last : BOOLEAN]]

ASSUME NumbersAssumption == MaxRequests \in [Conns -> Nat] /\ None \notin Conns

VARIABLES
    sent,     \* sent[c]: the requests the client has begun to send
    unsent,   \* parts of the latest of them not on their way yet
    wire,     \* parts on their way or in the socket
    closing,  \* the client has closed its end
    stage,    \* "absent", the pending operation, "handle", or "gone"
    buf,      \* parts in the session's buffers that no one has used yet
    cur,      \* the request being served
    shut,     \* Connection::close has been called
    timer,    \* the timer's wait is pending
    expired,  \* a wait has completed whose handler has not run yet; the timer
              \* may have been replaced since
    handling, \* the connection whose resource function the thread is in
    answered  \* answered[c]: requests whose answers reached the client

client_vars == <<sent, unsent, closing>>
session_vars == <<stage, buf, cur>>
timeout_vars == <<timer, expired>>
vars == <<client_vars, wire, session_vars, shut, timeout_vars, handling, answered>>

Parts(c) == [kind : {"head", "body", "size", "data", "zero", "end"}, req : 1..MaxRequests[c]]

Init ==
    /\ sent = [c \in Conns |-> <<>>]
    /\ unsent = [c \in Conns |-> <<>>]
    /\ wire = [c \in Conns |-> <<>>]
    /\ closing = [c \in Conns |-> FALSE]
    /\ stage = [c \in Conns |-> "absent"]
    /\ buf = [c \in Conns |-> <<>>]
    /\ cur = [c \in Conns |-> 0]
    /\ shut = [c \in Conns |-> FALSE]
    /\ timer = [c \in Conns |-> FALSE]
    /\ expired = [c \in Conns |-> FALSE]
    /\ handling = None
    /\ answered = [c \in Conns |-> <<>>]

-----------------------------------------------------------------------------
(* Clients.                                                                *)

\* The parts of the n-th request.
KindsOf(framing) ==
    CASE framing = "none"    -> <<"head">>
      [] framing = "length"  -> <<"head", "body">>
      [] framing = "chunked" -> <<"head", "size", "data", "zero", "end">>

PartsOf(r, n) ==
    LET kinds == KindsOf(r.framing)
    IN  [i \in 1..Len(kinds) |-> [kind |-> kinds[i], req |-> n]]

\* A client awaits each answer before it sends its next request.
Begin(c, r) ==
    /\ stage[c] # "absent" /\ ~closing[c]
    /\ unsent[c] = <<>>
    /\ Len(sent[c]) < MaxRequests[c]
    /\ Len(answered[c]) = Len(sent[c])
    /\ sent' = [sent EXCEPT ![c] = Append(@, r)]
    /\ unsent' = [unsent EXCEPT ![c] = PartsOf(r, Len(sent[c]) + 1)]
    /\ UNCHANGED <<closing, wire, session_vars, shut, timeout_vars, handling, answered>>

\* The network may keep parts back, never reorder them.
Transmit(c) ==
    /\ stage[c] # "gone"
    /\ \E k \in 1..Len(unsent[c]) :
          /\ wire' = [wire EXCEPT ![c] = @ \o SubSeq(unsent[c], 1, k)]
          /\ unsent' = [unsent EXCEPT ![c] = SubSeq(@, k + 1, Len(@))]
    /\ UNCHANGED <<sent, closing, session_vars, shut, timeout_vars, handling, answered>>

ClientCloses(c) ==
    /\ stage[c] \notin {"absent", "gone"} /\ ~closing[c]
    /\ closing' = [closing EXCEPT ![c] = TRUE]
    /\ UNCHANGED <<sent, unsent, wire, session_vars, shut, timeout_vars, handling, answered>>

-----------------------------------------------------------------------------
(* Timeouts.  A wait that has completed cannot be taken back: replacing or *)
(* cancelling the timer leaves its handler in the queue.                   *)

set_timeout(c) ==
    /\ timer' = [timer EXCEPT ![c] = TRUE]
    /\ UNCHANGED expired

TimerExpires(c) ==
    /\ timer[c]
    /\ timer' = [timer EXCEPT ![c] = FALSE]
    /\ expired' = [expired EXCEPT ![c] = TRUE]
    /\ UNCHANGED <<client_vars, wire, session_vars, shut, handling, answered>>

\* slip: only reads are given up.
TimeoutHandlerReads(c) ==
    /\ handling = None
    /\ expired[c]
    /\ expired' = [expired EXCEPT ![c] = FALSE]
    /\ shut' = [shut EXCEPT ![c] = stage[c] # "send"]
    /\ UNCHANGED <<client_vars, wire, session_vars, timer, handling, answered>>

\* The handler of the wait closes the connection, whatever it does now.
TimeoutHandler(c) ==
    /\ handling = None
    /\ expired[c]
    /\ expired' = [expired EXCEPT ![c] = FALSE]
    /\ shut' = [shut EXCEPT ![c] = TRUE]
    /\ UNCHANGED <<client_vars, wire, session_vars, timer, handling, answered>>

-----------------------------------------------------------------------------
(* Completion handlers.                                                    *)

\* The last reference to the session goes, and with it the connection: its
\* timer is destroyed, and waits that completed find no connection any more.
Drop(c) ==
    /\ stage' = [stage EXCEPT ![c] = "gone"]
    /\ buf' = [buf EXCEPT ![c] = <<>>]
    /\ timer' = [timer EXCEPT ![c] = FALSE]
    /\ expired' = [expired EXCEPT ![c] = FALSE]

\* accept: the handler starts to read the first request.
Accept(c) ==
    /\ handling = None
    /\ stage[c] = "absent"
    /\ stage' = [stage EXCEPT ![c] = "header"]
    /\ set_timeout(c)
    /\ UNCHANGED <<client_vars, wire, buf, cur, shut, handling, answered>>

\* Also after close: what had arrived may have completed the read before it,
\* or is still there to be read.
CanRead(c) == handling = None

\* A read brings in k of the parts that have arrived; Read is the buffer then.
Read(c, k) == buf[c] \o SubSeq(wire[c], 1, k)

Consume(c, k) == wire' = [wire EXCEPT ![c] = SubSeq(@, k + 1, Len(@))]

HasHead(p) == \E i \in 1..Len(p) : p[i].kind = "head"

Request(c) == sent[c][cur[c]]

\* find_resource has found one: the thread enters the resource function, with
\* rest left over in the buffer.
Handle(c, rest) ==
    /\ stage' = [stage EXCEPT ![c] = "handle"]
    /\ buf' = [buf EXCEPT ![c] = rest]
    /\ handling' = c

Await(c, next, rest) ==
    /\ stage' = [stage EXCEPT ![c] = next]
    /\ buf' = [buf EXCEPT ![c] = rest]
    /\ UNCHANGED handling

\* The head is there and perhaps more.  Without content, or with all of it in
\* the buffer, the request is complete.
ReadHeader(c) ==
    /\ CanRead(c)
    /\ stage[c] = "header"
    /\ \E k \in 0..Len(wire[c]) :
          LET p == Read(c, k)  r == sent[c][p[1].req] IN
          /\ p # <<>> /\ p[1].kind = "head"
          /\ r.outcome # "malformed"
          /\ Consume(c, k)
          /\ cur' = [cur EXCEPT ![c] = p[1].req]
          /\ CASE r.framing = "chunked" -> Await(c, "size", Tail(p))
               [] r.framing = "length" /\ Len(p) = 1 -> Await(c, "body", <<>>)
               [] r.framing = "length" /\ Len(p) > 1 -> Handle(c, Tail(Tail(p)))
               [] r.framing = "none" -> Handle(c, Tail(p))
    /\ set_timeout(c)
    /\ UNCHANGED <<client_vars, shut, answered>>

\* What was read up to the blank line does not begin with a head, or with one
\* that cannot be parsed.
ParseFails(c) ==
    /\ CanRead(c)
    /\ stage[c] = "header"
    /\ \E k \in 0..Len(wire[c]) :
          LET p == Read(c, k) IN
          /\ HasHead(p)
          /\ p[1].kind # "head" \/ sent[c][p[1].req].outcome = "malformed"
          /\ Consume(c, k)
    /\ Drop(c)
    /\ UNCHANGED <<client_vars, cur, shut, handling, answered>>

\* A read of the content's exact length.
ReadBody(c) ==
    /\ CanRead(c)
    /\ stage[c] = "body"
    /\ wire[c] # <<>>
    /\ Consume(c, 1)
    /\ Handle(c, <<>>)
    /\ UNCHANGED <<client_vars, cur, shut, timeout_vars, answered>>

\* slip: the first chunk is taken for the whole content.
ReadSizeOnce(c) ==
    /\ CanRead(c)
    /\ stage[c] = "size"
    /\ \E k \in 0..Len(wire[c]) :
          LET p == Read(c, k) IN
          /\ p # <<>> /\ (buf[c] # <<>> => k = 0)
          /\ Consume(c, k)
          /\ CASE p[1].kind # "zero" /\ Len(p) = 1 -> Await(c, "data", <<>>)
               [] OTHER -> Handle(c, Tail(p))
    /\ UNCHANGED <<client_vars, cur, shut, timeout_vars, answered>>

\* read_chunked_transfer_encoded: a line with the size of the next chunk, in
\* the buffer already or read with whatever follows it.  The chunk's data may
\* have come along; the size zero ends the content.
ReadSize(c) ==
    /\ CanRead(c)
    /\ stage[c] = "size"
    /\ \E k \in 0..Len(wire[c]) :
          LET p == Read(c, k) IN
          /\ p # <<>> /\ (buf[c] # <<>> => k = 0)
          /\ Request(c).outcome # "bad_size"
          /\ Consume(c, k)
          /\ CASE p[1].kind = "zero" -> Handle(c, Tail(p))
               [] p[1].kind # "zero" /\ Len(p) = 1 -> Await(c, "data", <<>>)
               [] OTHER -> Await(c, "size", Tail(Tail(p)))
    /\ UNCHANGED <<client_vars, cur, shut, timeout_vars, answered>>

BadSize(c) ==
    /\ CanRead(c)
    /\ stage[c] = "size"
    /\ Read(c, Len(wire[c])) # <<>>
    /\ Request(c).outcome = "bad_size"
    /\ Drop(c)
    /\ UNCHANGED <<client_vars, wire, cur, shut, handling, answered>>

ReadData(c) ==
    /\ CanRead(c)
    /\ stage[c] = "data"
    /\ wire[c] # <<>>
    /\ Consume(c, 1)
    /\ Await(c, "size", <<>>)
    /\ UNCHANGED <<client_vars, cur, shut, timeout_vars, answered>>

\* A read that ends in an error: the socket was shut down or cancelled, or
\* the client has closed and what it sent does not complete the read.
ReadFails(c) ==
    /\ handling = None
    /\ stage[c] \in {"header", "body", "size", "data"}
    /\ stage[c] = "size" => buf[c] = <<>>
    /\ \/ shut[c]
       \/ closing[c] /\ (IF stage[c] = "header" THEN ~HasHead(wire[c]) ELSE wire[c] = <<>>)
    /\ Drop(c)
    /\ UNCHANGED <<client_vars, wire, cur, shut, handling, answered>>

\* find_resource finds neither a resource nor a default for the method.
NoResource(c) ==
    /\ handling = c
    /\ Request(c).outcome = "unmatched"
    /\ Drop(c)
    /\ handling' = None
    /\ UNCHANGED <<client_vars, wire, cur, shut, answered>>

\* slip: the answer leaves before the resource function has returned.
HandlerReturnsLate(c) ==
    /\ handling = c
    /\ Request(c).outcome \notin {"unmatched", "hangs"}
    /\ stage' = [stage EXCEPT ![c] = "send"]
    /\ UNCHANGED <<client_vars, wire, buf, cur, shut, timeout_vars, handling, answered>>

\* The resource function returns or throws, the Response is deleted, and
\* send_on_delete sends what was written: at once, or as the client takes it.
HandlerReturns(c) ==
    /\ handling = c
    /\ Request(c).outcome \notin {"unmatched", "hangs"}
    /\ handling' = None
    /\ stage' = [stage EXCEPT ![c] = "send"]
    /\ UNCHANGED <<client_vars, wire, buf, cur, shut, timeout_vars, answered>>

\* slip: the answer stays in the queue.
SentAgain(c) ==
    /\ stage[c] = "send"
    /\ ~shut[c]
    /\ answered' = IF Request(c).outcome = "answer" /\ Len(answered[c]) < MaxRequests[c]
                   THEN [answered EXCEPT ![c] = Append(@, cur[c])]
                   ELSE answered
    /\ UNCHANGED <<client_vars, wire, session_vars, shut, timeout_vars, handling>>

\* All bytes are out.
Sent(c) ==
    /\ stage[c] = "send"
    /\ ~shut[c]
    /\ stage' = [stage EXCEPT ![c] = "sent"]
    /\ answered' = IF Request(c).outcome = "answer"
                   THEN [answered EXCEPT ![c] = Append(@, cur[c])]
                   ELSE answered
    /\ UNCHANGED <<client_vars, wire, buf, cur, shut, timeout_vars, handling>>

SendFails(c) ==
    /\ handling = None
    /\ stage[c] = "send"
    /\ shut[c] \/ closing[c]
    /\ Drop(c)
    /\ UNCHANGED <<client_vars, wire, cur, shut, handling, answered>>

\* slip: the timeout is cancelled after the next read has set it.
ContinueUntimed(c) ==
    /\ handling = None
    /\ stage[c] = "sent"
    /\ ~Request(c).last
    /\ stage' = [stage EXCEPT ![c] = "header"]
    /\ buf' = [buf EXCEPT ![c] = <<>>]
    /\ timer' = [timer EXCEPT ![c] = FALSE]
    /\ UNCHANGED <<client_vars, wire, cur, shut, expired, handling, answered>>

\* The handler of send_on_delete: a persistent connection reads its next
\* request into a new session, whose buffer is empty.
Continue(c) ==
    /\ handling = None
    /\ stage[c] = "sent"
    /\ ~Request(c).last
    /\ stage' = [stage EXCEPT ![c] = "header"]
    /\ buf' = [buf EXCEPT ![c] = <<>>]
    /\ set_timeout(c)
    /\ UNCHANGED <<client_vars, wire, cur, shut, handling, answered>>

\* slip: every connection ends with its first request.
FinishAlways(c) ==
    /\ handling = None
    /\ stage[c] = "sent"
    /\ Drop(c)
    /\ UNCHANGED <<client_vars, wire, cur, shut, handling, answered>>

Finish(c) ==
    /\ handling = None
    /\ stage[c] = "sent"
    /\ Request(c).last
    /\ Drop(c)
    /\ UNCHANGED <<client_vars, wire, cur, shut, handling, answered>>

ServerStep(c) ==
    \/ ReadHeader(c) \/ ParseFails(c) \/ ReadBody(c) \/ ReadSize(c) \/ BadSize(c)
    \/ ReadData(c)
    \/ ReadFails(c)
    \/ NoResource(c) \/ HandlerReturns(c)
    \/ Sent(c) \/ SendFails(c) \/ Continue(c) \/ Finish(c)
    \/ TimeoutHandler(c)

Next == \E c \in Conns :
    \/ \E r \in Requests[c] : Begin(c, r)
    \/ Transmit(c) \/ ClientCloses(c)
    \/ Accept(c)
    \/ TimerExpires(c)
    \/ ServerStep(c)

Spec == Init /\ [][Next]_vars

\* The handlers of operations that need nothing more of the client.
Completion(c) == \/ ReadSize(c) \/ BadSize(c) \/ ReadFails(c) \/ SendFails(c)
                 \/ Continue(c) \/ Finish(c)

\* Timers expire, the thread runs the handlers of what has completed in the
\* order of their completion, so that none is passed over for ever while others
\* run, and resource functions return that do not hang.  Clients owe nothing,
\* not even to read an answer.
Fairness == \A c \in Conns :
    /\ WF_vars(TimerExpires(c))
    /\ SF_vars(TimeoutHandler(c))
    /\ SF_vars(Completion(c))
    /\ WF_vars(NoResource(c) \/ HandlerReturns(c))

FairSpec == Spec /\ Fairness

-----------------------------------------------------------------------------

Waiting == {"header", "body", "size", "data", "send"}

TypeOK ==
    /\ \A c \in Conns :
          /\ sent[c] \in Seq(Requests[c])
          /\ unsent[c] \in Seq(Parts(c)) /\ wire[c] \in Seq(Parts(c)) /\ buf[c] \in Seq(Parts(c))
          /\ cur[c] \in 0..MaxRequests[c]
          /\ answered[c] \in Seq(1..MaxRequests[c])
          /\ stage[c] = "handle" <=> handling = c
    /\ closing \in [Conns -> BOOLEAN]
    /\ stage \in [Conns -> Waiting \cup {"absent", "handle", "sent", "gone"}]
    /\ shut \in [Conns -> BOOLEAN]
    /\ timer \in [Conns -> BOOLEAN]
    /\ expired \in [Conns -> BOOLEAN]
    /\ handling \in Conns \cup {None}

\* No connection waits for its client without a limit: while an operation is
\* pending a timer runs, or its expiry is queued, or the socket has been shut
\* down already.  The timer that covers a resource function and the sending
\* of its answer is the one read set when the head arrived.
Timed ==
    \A c \in Conns : stage[c] \in Waiting =>
        timer[c] \/ expired[c] \/ shut[c]

\* A resource function is called with the whole request, however its content
\* was framed and in whatever portions it arrived.
ServedWhole ==
    \A c \in Conns : stage[c] = "handle" =>
        LET left == buf[c] \o wire[c] \o unsent[c]
        IN  \A i \in 1..Len(left) : left[i].req = cur[c] => left[i].kind = "end"

\* The n-th answer on a connection answers the n-th request.
AnswersInOrder ==
    \A c \in Conns : \A i \in 1..Len(answered[c]) : answered[c][i] = i

\* What keeps connections going and clients in step with their answers.
ConnectionsInv == TypeOK /\ Timed /\ AnswersInOrder

\* Connections are persistent: one goes only for a reason.  Its client closed
\* it, a timeout shut it down, or the request in hand asked for it, has no
\* resource, or does not parse.
DroppedForCause ==
    [][\A c \in Conns : stage[c] # "gone" /\ stage'[c] = "gone" =>
          \/ closing[c] \/ shut[c]
          \/ stage[c] = "sent" /\ Request(c).last
          \/ stage[c] = "handle" /\ Request(c).outcome = "unmatched"
          \/ stage[c] = "header" /\ sent[c][Len(sent[c])].outcome = "malformed"
          \/ stage[c] = "size" /\ Request(c).outcome = "bad_size"]_vars

\* The one thread is in a resource function that never returns.
Held == handling # None /\ Request(handling).outcome = "hangs"

\* Whatever its client does or fails to do, and whatever the other clients do,
\* a connection waits for its client only so long: the reading of a request
\* comes to the call of its resource function, the sending of an answer to the
\* reading of the next request, or the connection goes.  The exception is a
\* resource function that never returns: it keeps the one thread, and with it
\* every connection.
\* (A client that goes on to send requests keeps its connection for ever.)
WaitsEnd ==
    \A c \in Conns :
        /\ (stage[c] \in {"header", "body", "size", "data"})
               ~> (stage[c] \in {"handle", "gone"} \/ Held)
        /\ (stage[c] \in {"send", "sent"}) ~> (stage[c] \in {"header", "gone"} \/ Held)
==============================================================================
