----------------------------- MODULE StaticFiles -----------------------------
(***************************************************************************)
(* Files sent by the default resource of the gateway                       *)
(* (src/http-server.cpp) through Response::send of the server: a block is  *)
(* read into one static buffer that all responses share, copied into the   *)
(* stream of the response and sent; when it has been sent, a callback      *)
(* reads the next.  What the last reads leave in the stream goes out when  *)
(* the Response is deleted, and the connection takes its next request.     *)
(*                                                                         *)
(* Files do not change while they are sent.                                *)
(***************************************************************************)
EXTENDS Naturals, Sequences, FiniteSets, SequencesExt

CONSTANTS
    Conns,        \* persistent connections
    Files,        \* the files of web/
    Full,         \* Full[f]: whole blocks in f
    Rest,         \* Rest[f]: f has bytes after them
    Threads,      \* threads in io_service::run; the gateway has one
    MaxRequests,  \* bound: requests on one connection
    None          \* no block

ASSUME FilesAssumption == Full \in [Files -> Nat] /\ Rest \in [Files -> BOOLEAN]
ASSUME NumbersAssumption == Threads \in Nat \ {0} /\ MaxRequests \in Nat

VARIABLES
    asked,     \* asked[c]: the files requested, the last being sent
    stage,     \* what the connection is doing
    position,  \* of the next block in the open file
    stream,    \* the stream buffer of the Response
    queue,     \* its send_queue; each entry has the callback
    shared,    \* the static buffer
    received,  \* received[c]: what reached the client
    timer,     \* the timer's wait is pending
    shut,      \* Connection::close has been called
    closing    \* the client has closed its end

response_vars == <<position, stream, queue>>
vars == <<asked, stage, response_vars, shared, received, timer, shut, closing>>

Size(f) == IF Rest[f] THEN Full[f] + 1 ELSE Full[f]

\* A file's answer: its head, with the length, and its blocks in order.
Answer(f) == <<[file |-> f, block |-> 0]>> \o [i \in 1..Size(f) |-> [file |-> f, block |-> i]]

Init ==
    /\ asked = [c \in Conns |-> <<>>]
    /\ stage = [c \in Conns |-> "idle"]
    /\ position = [c \in Conns |-> 1]
    /\ stream = [c \in Conns |-> <<>>]
    /\ queue = [c \in Conns |-> <<>>]
    /\ shared = None
    /\ received = [c \in Conns |-> <<>>]
    /\ timer = [c \in Conns |-> TRUE]
    /\ shut = [c \in Conns |-> FALSE]
    /\ closing = [c \in Conns |-> FALSE]

File(c) == Last(asked[c])

\* Connections whose handler a thread is in.
Handled == {c \in Conns : stage[c] \in {"read", "copy", "return"}}

\* slip: every connection has a thread.
ThreadAlways == TRUE

ThreadFree == Cardinality(Handled) < Threads

-----------------------------------------------------------------------------
(* The resource function, and the callback after each block.               *)

\* A request for f, with its head in the stream.
Begin(c, f) ==
    /\ ThreadFree
    /\ stage[c] = "idle"
    /\ Len(asked[c]) < MaxRequests
    /\ asked' = [asked EXCEPT ![c] = Append(@, f)]
    /\ stage' = [stage EXCEPT ![c] = "read"]
    /\ position' = [position EXCEPT ![c] = 1]
    /\ stream' = [stream EXCEPT ![c] = <<[file |-> f, block |-> 0]>>]
    /\ timer' = [timer EXCEPT ![c] = TRUE]
    /\ UNCHANGED <<queue, shared, received, shut, closing>>

ReadBlock(c) ==
    /\ stage[c] = "read"
    /\ position[c] <= Size(File(c))
    /\ shared' = [file |-> File(c), block |-> position[c]]
    /\ stage' = [stage EXCEPT ![c] = "copy"]
    /\ UNCHANGED <<asked, response_vars, received, timer, shut, closing>>

ReadNothing(c) ==
    /\ stage[c] = "read"
    /\ position[c] > Size(File(c))
    /\ stage' = [stage EXCEPT ![c] = "return"]
    /\ UNCHANGED <<asked, response_vars, shared, received, timer, shut, closing>>

\* Response::send: the buffer waits in the queue, and the response has a new
\* stream.
Send(c, buffer) ==
    /\ queue' = [queue EXCEPT ![c] = Append(@, buffer)]
    /\ stream' = [stream EXCEPT ![c] = <<>>]

\* slip: the next block is read without waiting for the callback.
CopyBlockEager(c) ==
    /\ stage[c] = "copy"
    /\ position' = [position EXCEPT ![c] = @ + 1]
    /\ IF position[c] <= Full[File(c)]
       THEN /\ Send(c, Append(stream[c], shared))
            /\ stage' = [stage EXCEPT ![c] = "read"]
       ELSE /\ stream' = [stream EXCEPT ![c] = Append(@, shared)]
            /\ stage' = [stage EXCEPT ![c] = "return"]
            /\ UNCHANGED queue
    /\ UNCHANGED <<asked, shared, received, timer, shut, closing>>

\* The block goes into the stream; a whole one is sent with what is there,
\* the rest of the file stays for the deletion of the Response.  Nobody reads the buffer
\* again before it is filled anew.
CopyBlock(c) ==
    /\ stage[c] = "copy"
    /\ position' = [position EXCEPT ![c] = @ + 1]
    /\ IF position[c] <= Full[File(c)]
       THEN Send(c, Append(stream[c], shared))
       ELSE /\ stream' = [stream EXCEPT ![c] = Append(@, shared)]
            /\ UNCHANGED queue
    /\ stage' = [stage EXCEPT ![c] = "return"]
    /\ shared' = None
    /\ UNCHANGED <<asked, received, timer, shut, closing>>

\* slip: the Response is kept for the callback even if there is none.
ReturnKeeps(c) ==
    /\ stage[c] = "return"
    /\ stage' = [stage EXCEPT ![c] = "send"]
    /\ UNCHANGED <<asked, response_vars, shared, received, timer, shut, closing>>

\* A callback in the queue keeps the Response; without one it is deleted,
\* which sends what is left in its stream.
Return(c) ==
    /\ stage[c] = "return"
    /\ stage' = [stage EXCEPT ![c] = IF queue[c] # <<>> THEN "send" ELSE "final"]
    /\ UNCHANGED <<asked, response_vars, shared, received, timer, shut, closing>>

-----------------------------------------------------------------------------
(* Completion handlers of the writes.                                      *)

\* The first entry is out, even to a client that has closed its end and only
\* reads: it leaves the queue and its callback is called.
Sent(c) ==
    /\ ThreadFree
    /\ stage[c] = "send" /\ ~shut[c]
    /\ received' = [received EXCEPT ![c] = @ \o Head(queue[c])]
    /\ queue' = [queue EXCEPT ![c] = Tail(@)]
    /\ stage' = [stage EXCEPT ![c] = "read"]
    /\ UNCHANGED <<asked, position, stream, shared, timer, shut, closing>>

\* slip: after an error the connection waits for another request.
SendFailsIdle(c) ==
    /\ ThreadFree
    /\ stage[c] = "send" /\ (shut[c] \/ closing[c])
    /\ queue' = [queue EXCEPT ![c] = <<>>]
    /\ stage' = [stage EXCEPT ![c] = "idle"]
    /\ UNCHANGED <<asked, position, stream, shared, received, timer, shut, closing>>

\* The callbacks are told of the error, the queue is emptied, and with the
\* last callback the Response is deleted.  Part of the entry may have arrived;
\* the socket takes nothing more.
SendFails(c) ==
    /\ ThreadFree
    /\ stage[c] = "send" /\ (shut[c] \/ closing[c])
    /\ \E k \in 0..Len(Head(queue[c])) :
          received' = [received EXCEPT ![c] = @ \o SubSeq(Head(queue[c]), 1, k)]
    /\ queue' = [queue EXCEPT ![c] = <<>>]
    /\ stage' = [stage EXCEPT ![c] = "final"]
    /\ shut' = [shut EXCEPT ![c] = TRUE]
    /\ UNCHANGED <<asked, position, stream, shared, timer, closing>>

\* The timeout is cancelled and set again for the next request.
FinalSent(c) ==
    /\ ThreadFree
    /\ stage[c] = "final" /\ ~shut[c]
    /\ received' = [received EXCEPT ![c] = @ \o stream[c]]
    /\ stream' = [stream EXCEPT ![c] = <<>>]
    /\ stage' = [stage EXCEPT ![c] = "idle"]
    /\ timer' = [timer EXCEPT ![c] = TRUE]
    /\ UNCHANGED <<asked, position, queue, shared, shut, closing>>

Drop(c) ==
    /\ ThreadFree
    /\ stage[c] \in {"idle", "final"} /\ (shut[c] \/ closing[c])
    /\ stage' = [stage EXCEPT ![c] = "gone"]
    /\ timer' = [timer EXCEPT ![c] = FALSE]
    /\ UNCHANGED <<asked, response_vars, shared, received, shut, closing>>

-----------------------------------------------------------------------------
(* Timeouts, and clients that go away.  A timer set for the content of a   *)
(* request covers the whole answer; sending does not renew it.             *)

\* slip: the timer is for requests only.
TimesOutIdle(c) ==
    /\ ThreadFree
    /\ timer[c] /\ stage[c] = "idle"
    /\ timer' = [timer EXCEPT ![c] = FALSE]
    /\ shut' = [shut EXCEPT ![c] = TRUE]
    /\ UNCHANGED <<asked, stage, response_vars, shared, received, closing>>

TimesOut(c) ==
    /\ ThreadFree
    /\ timer[c]
    /\ timer' = [timer EXCEPT ![c] = FALSE]
    /\ shut' = [shut EXCEPT ![c] = TRUE]
    /\ UNCHANGED <<asked, stage, response_vars, shared, received, closing>>

ClientCloses(c) ==
    /\ stage[c] # "gone" /\ ~closing[c]
    /\ closing' = [closing EXCEPT ![c] = TRUE]
    /\ UNCHANGED <<asked, stage, response_vars, shared, received, timer, shut>>

Handler(c) == ReadBlock(c) \/ ReadNothing(c) \/ CopyBlock(c) \/ Return(c)

Next == \E c \in Conns :
    \/ \E f \in Files : Begin(c, f)
    \/ Handler(c)
    \/ Sent(c) \/ SendFails(c) \/ FinalSent(c) \/ Drop(c)
    \/ TimesOut(c) \/ ClientCloses(c)

Spec == Init /\ [][Next]_vars

\* Handlers return, timers expire and failed operations are noticed.  That
\* clients read what is sent to them is nowhere assumed.
Fairness == \A c \in Conns :
    WF_vars(Handler(c) \/ SendFails(c) \/ Drop(c) \/ TimesOut(c))

FairSpec == Spec /\ Fairness

-----------------------------------------------------------------------------

Parts == [file : Files, block : Nat]

TypeOK ==
    /\ asked \in [Conns -> Seq(Files)]
    /\ stage \in [Conns -> {"idle", "read", "copy", "return", "send", "final", "gone"}]
    /\ position \in [Conns -> Nat]
    /\ stream \in [Conns -> Seq(Parts)]
    /\ queue \in [Conns -> Seq(Seq(Parts))]
    /\ shared \in Parts \cup {None}
    /\ received \in [Conns -> Seq(Parts)]
    /\ {timer, shut, closing} \subseteq [Conns -> BOOLEAN]
    /\ \A c \in Conns : stage[c] = "send" => queue[c] # <<>>

\* What a client receives, over all its requests, are the answers to them in
\* order: each head followed by the blocks of that file, none missing, none
\* twice, and none of a file another client is being sent.  A connection that
\* takes another request has sent the whole answer to the last: a reader that
\* counts bytes finds the next head where it looks for it.
ReceivesItsFiles ==
    \A c \in Conns :
        LET answers == FlattenSeq([i \in 1..Len(asked[c]) |-> Answer(asked[c][i])])
        IN  /\ IsPrefix(received[c], answers)
            /\ stage[c] = "idle" => received[c] = answers

\* However large a file, a response holds one block of it besides its head.
OneBlockHeld ==
    \A c \in Conns :
        LET held == FlattenSeq(queue[c]) \o stream[c]
        IN  \A i, j \in 1..Len(held) : held[i].block > 0 /\ held[j].block > 0 => i = j

\* The buffers, at every return to the event loop.
BuffersInv == TypeOK /\ OneBlockHeld

\* Every connection that is sending ends or comes back for the next request,
\* even if its client stops reading or another's does.
Ends == \A c \in Conns : (stage[c] = "send") ~> (stage[c] \in {"idle", "gone"})
==============================================================================
