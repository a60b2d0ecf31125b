------------------------------ MODULE Startup --------------------------------
(***************************************************************************)
(* How the gateway comes up: main (src/source.cpp) starts three threads    *)
(* that share the counter load_progress.  The first brings up libcoap, the *)
(* second the HTTP server, whose event loop runs in a fourth thread and    *)
(* reports its port through a promise; the third, the command line, spins  *)
(* until both servers have counted themselves and then reads commands.     *)
(*                                                                         *)
(* A step is what a thread does between two points at which another thread *)
(* or the world outside can tell the difference.  The handlers of the      *)
(* event loop are queued in the order in which they become ready.          *)
(***************************************************************************)
EXTENDS Naturals, Sequences

CONSTANTS
    Interfaces,   \* the lists of addresses getifaddrs may return
    MaxClients,   \* bound: clients that connect to the HTTP server
    MaxLines      \* bound: lines typed

\* Entries of such a list: a packet socket, the loopback addresses, others.
\* An interface without an address has a null pointer there.
Addresses == {"packet", "127.0.0.1", "ipv4", "::1", "ipv6", "null"}

ASSUME InterfacesAssumption == Interfaces \subseteq Seq(Addresses)
ASSUME BoundsAssumption == MaxClients \in Nat /\ MaxLines \in Nat

VARIABLES
    process,    \* "up", or how it ended: "abort", "terminate", "crash"
    started,    \* threads main has started
    progress,   \* load_progress
    coap,       \* where start_coap_server is; "ended": it has returned
    endpoint,   \* the address the CoAP server was given, or "none"
    http,       \* where start_http_server is
    server,     \* where the thread of server.start is
    family,     \* of the acceptor's socket
    accepting,  \* an async_accept is pending
    queue,      \* handlers the event loop is to run
    port,       \* the promise has its value
    connected,  \* clients that have connected
    backlog,    \* of them, not yet accepted
    reading,    \* accepted, their request not yet read
    served,     \* resource functions that have returned
    cli,        \* where start_tcli_server is
    typed,      \* lines getline has not read
    eof         \* nothing more will be typed

coap_vars == <<coap, endpoint>>
loop_vars == <<accepting, queue, port, backlog, reading, served>>
http_vars == <<http, server, family, connected, loop_vars>>
cli_vars == <<cli, typed, eof>>
vars == <<process, started, progress, coap_vars, http_vars, cli_vars>>

Up == process = "up"

\* main sets load_progress before it starts a thread.
Init ==
    /\ process = "up" /\ started = 0 /\ progress = 0
    /\ coap = "unborn" /\ endpoint = "none"
    /\ http = "unborn" /\ server = "unborn" /\ family = "none"
    /\ accepting = FALSE /\ queue = <<>> /\ port = FALSE
    /\ connected = 0 /\ backlog = 0 /\ reading = 0 /\ served = 0
    /\ cli = "unborn" /\ typed = <<>> /\ eof = FALSE

-----------------------------------------------------------------------------
(* main.  It never gets past the join of the second thread.                *)

StartThread ==
    /\ Up /\ started < 3
    /\ started' = started + 1
    /\ coap' = IF started = 0 THEN "resolve" ELSE coap
    /\ http' = IF started = 1 THEN "setup" ELSE http
    /\ cli' = IF started = 2 THEN "spin" ELSE cli
    /\ UNCHANGED <<process, progress, endpoint, server, family, connected, loop_vars, typed, eof>>

-----------------------------------------------------------------------------
(* start_coap_server.                                                      *)

\* first_ipv4_address takes the first address of either family that is not
\* the IPv4 loopback, and looks into every entry up to it.
Chosen(list) == {i \in 1..Len(list) : list[i] \in {"ipv4", "::1", "ipv6"}
                    /\ \A j \in 1..(i - 1) : list[j] \in {"packet", "127.0.0.1"}}

MeetsNull(list) == \E i \in 1..Len(list) : list[i] = "null"
                    /\ \A j \in 1..(i - 1) : list[j] \in {"packet", "127.0.0.1"}

\* The list is not to be had, has no such address, or getaddrinfo does not
\* resolve it: the exception is caught, and the function returns.
ResolveFails ==
    /\ Up /\ coap = "resolve"
    /\ coap' = "ended"
    /\ UNCHANGED <<process, started, progress, endpoint, http_vars, cli_vars>>

Resolve(list) ==
    /\ Up /\ coap = "resolve"
    /\ \E i \in Chosen(list) : endpoint' = list[i]
    /\ coap' = "endpoint"
    /\ UNCHANGED <<process, started, progress, http_vars, cli_vars>>

\* An entry without an address is dereferenced.
ResolveCrashes(list) ==
    /\ Up /\ coap = "resolve" /\ MeetsNull(list)
    /\ process' = "crash"
    /\ UNCHANGED <<started, progress, coap_vars, http_vars, cli_vars>>

\* coap_new_context and coap_new_endpoint: without them the function returns.
NewEndpoint ==
    /\ Up /\ coap = "endpoint"
    /\ \/ coap' = "count" /\ UNCHANGED endpoint
       \/ coap' = "ended" /\ endpoint' = "none"
    /\ UNCHANGED <<process, started, progress, http_vars, cli_vars>>

\* slip: the counter is raised in the loop that serves.
CoapCountAgain ==
    /\ Up /\ coap \in {"count", "serve"} /\ progress < 3
    /\ progress' = progress + 1
    /\ coap' = "serve"
    /\ UNCHANGED <<process, started, endpoint, http_vars, cli_vars>>

CoapCount ==
    /\ Up /\ coap = "count"
    /\ progress' = progress + 1
    /\ coap' = "serve"
    /\ UNCHANGED <<process, started, endpoint, http_vars, cli_vars>>

-----------------------------------------------------------------------------
(* server.start, in its own thread.  What it throws nobody catches: the    *)
(* process terminates.                                                     *)

ServerThrows ==
    /\ Up /\ server \in {"open", "bind", "listen"}
    /\ process' = "terminate"
    /\ UNCHANGED <<started, progress, coap_vars, http_vars, cli_vars>>

\* An IPv6 socket, or an IPv4 one where IPv6 is not supported.
Open ==
    /\ Up /\ server = "open"
    /\ server' = "bind"
    /\ family' \in {"v6", "v4"}
    /\ UNCHANGED <<process, started, progress, coap_vars, http, connected, loop_vars, cli_vars>>

\* slip: the port is reported as soon as it is known.
BindReports ==
    /\ Up /\ server = "bind"
    /\ server' = "listen"
    /\ port' = TRUE
    /\ UNCHANGED <<process, started, progress, coap_vars, http, family, accepting, queue,
                   connected, backlog, reading, served, cli_vars>>

Bind ==
    /\ Up /\ server = "bind"
    /\ server' = "listen"
    /\ UNCHANGED <<process, started, progress, coap_vars, http, family, connected, loop_vars, cli_vars>>

Listen ==
    /\ Up /\ server = "listen"
    /\ server' = "accept"
    /\ UNCHANGED <<process, started, progress, coap_vars, http, family, connected, loop_vars, cli_vars>>

Accept ==
    /\ Up /\ server = "accept"
    /\ server' = "post"
    /\ accepting' = TRUE
    /\ UNCHANGED <<process, started, progress, coap_vars, http, family, queue, port,
                   connected, backlog, reading, served, cli_vars>>

\* The callback is posted, to be called by the event loop.
Post ==
    /\ Up /\ server = "post"
    /\ server' = "run"
    /\ queue' = Append(queue, "callback")
    /\ UNCHANGED <<process, started, progress, coap_vars, http, family, accepting, port,
                   connected, backlog, reading, served, cli_vars>>

Listening == server \in {"accept", "post", "run", "hung"}

Connect ==
    /\ Up /\ Listening
    /\ connected < MaxClients
    /\ connected' = connected + 1
    /\ backlog' = backlog + 1
    /\ UNCHANGED <<process, started, progress, coap_vars, http, server, family, accepting, queue,
                   port, reading, served, cli_vars>>

\* A pending accept completes, at the latest when the event loop polls.
AcceptCompletes ==
    /\ Up /\ accepting /\ backlog > 0
    /\ accepting' = FALSE
    /\ backlog' = backlog - 1
    /\ queue' = Append(queue, "accepted")
    /\ UNCHANGED <<process, started, progress, coap_vars, http, server, family, port,
                   connected, reading, served, cli_vars>>

ReadCompletes ==
    /\ Up /\ reading > 0
    /\ reading' = reading - 1
    /\ queue' = Append(queue, "request")
    /\ UNCHANGED <<process, started, progress, coap_vars, http, server, family, accepting, port,
                   connected, backlog, served, cli_vars>>

\* slip: the handler of an accept does not accept again.
RunAcceptedOnce ==
    /\ Up /\ server = "run"
    /\ queue # <<>> /\ Head(queue) = "accepted"
    /\ queue' = Tail(queue)
    /\ reading' = reading + 1
    /\ UNCHANGED <<process, started, progress, coap_vars, http, server, family, accepting, port,
                   connected, backlog, served, cli_vars>>

RunAccepted ==
    /\ Up /\ server = "run"
    /\ queue # <<>> /\ Head(queue) = "accepted"
    /\ queue' = Tail(queue)
    /\ accepting' = TRUE
    /\ reading' = reading + 1
    /\ UNCHANGED <<process, started, progress, coap_vars, http, server, family, port,
                   connected, backlog, served, cli_vars>>

\* slip: the callback yields to handlers that are ready.
RunCallbackLast ==
    /\ Up /\ server = "run"
    /\ queue # <<>> /\ Head(queue) = "callback"
    /\ queue' = IF Len(queue) = 1 THEN <<>> ELSE Append(Tail(queue), "callback")
    /\ port' = (Len(queue) = 1)
    /\ UNCHANGED <<process, started, progress, coap_vars, http, server, family, accepting,
                   connected, backlog, reading, served, cli_vars>>

RunCallback ==
    /\ Up /\ server = "run"
    /\ queue # <<>> /\ Head(queue) = "callback"
    /\ queue' = Tail(queue)
    /\ port' = TRUE
    /\ UNCHANGED <<process, started, progress, coap_vars, http, server, family, accepting,
                   connected, backlog, reading, served, cli_vars>>

\* A resource function returns, or waits for a device that never answers and
\* keeps the one thread of the event loop.
RunRequest ==
    /\ Up /\ server = "run"
    /\ queue # <<>> /\ Head(queue) = "request"
    /\ queue' = Tail(queue)
    /\ \/ served' = served + 1 /\ UNCHANGED server
       \/ server' = "hung" /\ UNCHANGED served
    /\ UNCHANGED <<process, started, progress, coap_vars, http, family, accepting, port,
                   connected, backlog, reading, cli_vars>>

-----------------------------------------------------------------------------
(* start_http_server.                                                      *)

HttpSetup ==
    /\ Up /\ http = "setup"
    /\ http' = "await"
    /\ server' = "open"
    /\ UNCHANGED <<process, started, progress, coap_vars, family, connected, loop_vars, cli_vars>>

\* slip: the counter is raised without waiting for the port.
HttpCountEarly ==
    /\ Up /\ http = "await"
    /\ progress' = progress + 1
    /\ http' = "join"
    /\ UNCHANGED <<process, started, coap_vars, server, family, connected, loop_vars, cli_vars>>

\* The future is ready; the port is printed and the counter raised.
HttpCount ==
    /\ Up /\ http = "await" /\ port
    /\ progress' = progress + 1
    /\ http' = "join"
    /\ UNCHANGED <<process, started, coap_vars, server, family, connected, loop_vars, cli_vars>>

-----------------------------------------------------------------------------
(* start_tcli_server and its user.                                         *)

Type(line) ==
    /\ Up /\ ~eof /\ Len(typed) < MaxLines
    /\ typed' = Append(typed, line)
    /\ UNCHANGED <<process, started, progress, coap_vars, http_vars, cli, eof>>

CloseInput ==
    /\ Up /\ ~eof
    /\ eof' = TRUE
    /\ UNCHANGED <<process, started, progress, coap_vars, http_vars, cli, typed>>

\* The loop that waits for the servers ends, and the prompt is printed.
Prompt ==
    /\ Up /\ cli = "spin" /\ progress >= 2
    /\ cli' = "getline"
    /\ UNCHANGED <<process, started, progress, coap_vars, http_vars, typed, eof>>

\* slip: exit leaves the loop.
GetExitReturns ==
    /\ Up /\ cli = "getline"
    /\ typed # <<>> /\ Head(typed) = "exit"
    /\ typed' = Tail(typed)
    /\ cli' = "ended"
    /\ UNCHANGED <<process, started, progress, coap_vars, http_vars, eof>>

GetExit ==
    /\ Up /\ cli = "getline"
    /\ typed # <<>> /\ Head(typed) = "exit"
    /\ process' = "abort"
    /\ UNCHANGED <<started, progress, coap_vars, http_vars, cli_vars>>

GetOther ==
    /\ Up /\ cli = "getline"
    /\ typed # <<>> /\ Head(typed) # "exit"
    /\ typed' = Tail(typed)
    /\ UNCHANGED <<process, started, progress, coap_vars, http_vars, cli, eof>>

\* At the end of the input getline fails at once, and the loop goes on
\* printing prompts.
GetNothing ==
    /\ Up /\ cli = "getline"
    /\ typed = <<>> /\ eof
    /\ cli' = "flood"
    /\ UNCHANGED <<process, started, progress, coap_vars, http_vars, typed, eof>>

-----------------------------------------------------------------------------

CoapStep ==
    \/ ResolveFails
    \/ \E list \in Interfaces : Resolve(list) \/ ResolveCrashes(list)
    \/ NewEndpoint \/ CoapCount

ServerStep ==
    \/ ServerThrows \/ Open \/ Bind \/ Listen \/ Accept \/ Post
    \/ AcceptCompletes \/ ReadCompletes
    \/ RunAccepted \/ RunCallback \/ RunRequest

HttpStep == HttpSetup \/ HttpCount

CliStep == Prompt \/ GetExit \/ GetOther \/ GetNothing

World ==
    \/ Connect
    \/ \E line \in {"exit", "other"} : Type(line)
    \/ CloseInput

Next == StartThread \/ CoapStep \/ ServerStep \/ HttpStep \/ CliStep \/ World

Spec == Init /\ [][Next]_vars

\* Every thread runs, and what has arrived is noticed.
Fairness ==
    /\ WF_vars(StartThread) /\ WF_vars(CoapStep) /\ WF_vars(HttpStep) /\ WF_vars(CliStep)
    /\ WF_vars(ServerThrows \/ Open \/ Bind \/ Listen \/ Accept \/ Post
                  \/ RunAccepted \/ RunCallback \/ RunRequest)
    /\ WF_vars(AcceptCompletes) /\ WF_vars(ReadCompletes)

FairSpec == Spec /\ Fairness

-----------------------------------------------------------------------------

TypeOK ==
    /\ process \in {"up", "abort", "terminate", "crash"}
    /\ started \in 0..3 /\ progress \in 0..2
    /\ coap \in {"unborn", "resolve", "endpoint", "count", "serve", "ended"}
    /\ endpoint \in {"none", "ipv4", "::1", "ipv6"}
    /\ http \in {"unborn", "setup", "await", "join"}
    /\ server \in {"unborn", "open", "bind", "listen", "accept", "post", "run", "hung"}
    /\ family \in {"none", "v6", "v4"}
    /\ accepting \in BOOLEAN /\ port \in BOOLEAN /\ eof \in BOOLEAN
    /\ queue \in Seq({"callback", "accepted", "request"})
    /\ connected \in 0..MaxClients
    /\ backlog \in 0..MaxClients /\ reading \in 0..MaxClients /\ served \in 0..MaxClients
    /\ cli \in {"unborn", "spin", "getline", "flood"}
    /\ typed \in Seq({"exit", "other"})

\* The prompt says that the gateway is up: the CoAP server has an endpoint
\* and serves it, and the HTTP server listens and has reported its port.
PromptMeansServing ==
    cli \in {"getline", "flood"} =>
        /\ coap = "serve" /\ endpoint # "none"
        /\ Listening /\ port

\* The port is reported neither before clients can connect nor after one of
\* them has been served: a request that keeps the event loop for ever cannot
\* come before it.
ReportedFirst ==
    /\ port => Listening
    /\ served > 0 \/ server = "hung" => port

\* Unless the CoAP server gave up, which leaves the command line spinning, or
\* the process ended, the prompt appears.
Prompts == <>(cli \in {"getline", "flood"} \/ coap = "ended" \/ ~Up)

\* The HTTP server serves whoever connects, whether or not the CoAP server and
\* the command line came up.
Serves ==
    \A n \in 1..MaxClients :
        connected >= n ~> (served >= n \/ server = "hung" \/ ~Up)

\* Once prompted for, "exit" ends the process, whatever was typed before it.
ExitObeyed == (cli = "getline" /\ \E i \in 1..Len(typed) : typed[i] = "exit") ~> ~Up

\* All that the gateway owes its clients and its operator in the end.
ComesUp == Prompts /\ Serves /\ ExitObeyed
==============================================================================
