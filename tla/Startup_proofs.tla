--------------------------- MODULE Startup_proofs ----------------------------
(***************************************************************************)
(* What the prompt tells, and when the port is reported, for any number of *)
(* clients and lines and any lists of interfaces.                          *)
(*                                                                         *)
(* The invariant: the counter is the number of servers that are up, what   *)
(* start_http_server knows of the port is true, and as long as the port    *)
(* has not been reported, the callback that reports it is in the queue     *)
(* with only accepts before it.                                            *)
(***************************************************************************)
EXTENDS Startup, SequenceTheorems, TLAPS

Handlers == {"callback", "accepted", "request"}

One(b) == IF b THEN 1 ELSE 0

Counted ==
    /\ progress = One(coap = "serve") + One(http = "join")
    /\ coap \in {"endpoint", "count", "serve"} => endpoint # "none"
    /\ http = "join" => port
    /\ cli \in {"getline", "flood"} => progress >= 2

\* A thread that has not been started has done nothing.
Births ==
    /\ started \in 0..3
    /\ started = 0 => coap = "unborn"
    /\ started <= 1 => http = "unborn"
    /\ started <= 2 => cli = "unborn"
    /\ http \in {"unborn", "setup"} => server = "unborn"

CallbackFirst ==
    \E i \in 1..Len(queue) :
        queue[i] = "callback" /\ \A j \in 1..(i - 1) : queue[j] = "accepted"

LoopInv ==
    /\ queue \in Seq(Handlers)
    /\ backlog \in Nat /\ reading \in Nat /\ served \in Nat
    /\ ~Listening => queue = <<>> /\ ~accepting /\ reading = 0 /\ ~port
    /\ server \in {"accept", "post"} =>
          reading = 0 /\ ~port /\ \A i \in 1..Len(queue) : queue[i] = "accepted"
    /\ server = "run" /\ ~port => CallbackFirst
    /\ server = "hung" => port
    /\ served > 0 => port

IInv == Counted /\ Births /\ LoopInv

\* What a handler appended to the queue leaves as it was.
LEMMA Appended ==
    ASSUME NEW S, NEW q \in Seq(S), NEW e \in S
    PROVE  /\ Append(q, e) \in Seq(S)
           /\ Len(q) \in Nat /\ Len(Append(q, e)) = Len(q) + 1
           /\ \A i \in 1..Len(q) : Append(q, e)[i] = q[i]
           /\ Append(q, e)[Len(q) + 1] = e
OBVIOUS

\* What running the first handler leaves.
LEMMA Taken ==
    ASSUME NEW S, NEW q \in Seq(S), q # <<>>
    PROVE  /\ Tail(q) \in Seq(S) /\ Head(q) = q[1]
           /\ Len(q) \in Nat /\ Len(q) >= 1 /\ Len(Tail(q)) = Len(q) - 1
           /\ \A i \in 1..Len(Tail(q)) : Tail(q)[i] = q[i + 1]
<1>1. \A i \in 1..Len(Tail(q)) : Tail(q)[i] = q[i + 1]
  BY HeadTailProperties
<1>2. QED
  BY <1>1

\* Nothing has started.
LEMMA InitInv == Init => IInv
BY DEF Init, IInv, Counted, Births, LoopInv, One, Listening

\* The counter rises with the servers, and only theirs do the steps touch.
LEMMA CountedKept ==
    ASSUME IInv, [Next]_vars
    PROVE  Counted' /\ Births'
<1> USE DEF IInv, Counted, Births, One
<1>1. CASE UNCHANGED vars
  BY <1>1 DEF vars, coap_vars, http_vars, cli_vars, loop_vars
<1>2. CASE StartThread
  BY <1>2 DEF StartThread, loop_vars
<1>3. CASE CoapStep
  <2>1. ASSUME NEW list \in Interfaces, Resolve(list) PROVE Counted' /\ Births'
    BY <2>1 DEF Resolve, Chosen, http_vars, cli_vars, loop_vars
  <2>2. ASSUME NEW list \in Interfaces, ResolveCrashes(list) PROVE Counted' /\ Births'
    BY <2>2 DEF ResolveCrashes, coap_vars, http_vars, cli_vars, loop_vars
  <2>3. CASE ResolveFails
    BY <2>3 DEF ResolveFails, http_vars, cli_vars, loop_vars
  <2>4. CASE NewEndpoint
    BY <2>4 DEF NewEndpoint, http_vars, cli_vars, loop_vars
  <2>5. CASE CoapCount
    BY <2>5 DEF CoapCount, http_vars, cli_vars, loop_vars
  <2>6. QED
    BY <1>3, <2>1, <2>2, <2>3, <2>4, <2>5 DEF CoapStep
<1>4. CASE ServerStep
  <2>1. /\ UNCHANGED <<progress, started, coap_vars, http, cli_vars>>
        /\ port => port'
        /\ (server # "unborn" /\ server' # "unborn") \/ UNCHANGED server
    BY <1>4 DEF ServerStep, ServerThrows, Open, Bind, Listen, Accept, Post, AcceptCompletes,
      ReadCompletes, RunAccepted, RunCallback, RunRequest, http_vars, loop_vars
  <2>2. QED
    BY <2>1 DEF coap_vars, cli_vars
<1>5. CASE HttpStep
  BY <1>5 DEF HttpStep, HttpSetup, HttpCount, coap_vars, cli_vars, loop_vars
<1>6. CASE CliStep
  BY <1>6 DEF CliStep, Prompt, GetExit, GetOther, GetNothing, coap_vars, cli_vars, http_vars, loop_vars
<1>7. CASE World
  BY <1>7 DEF World, Connect, Type, CloseInput, coap_vars, cli_vars, http_vars, loop_vars
<1>8. QED
  BY <1>1, <1>2, <1>3, <1>4, <1>5, <1>6, <1>7 DEF Next

\* Until the port is reported, only accepts come before the callback.
LEMMA LoopKept ==
    ASSUME IInv, [Next]_vars
    PROVE  LoopInv'
<1> USE DEF IInv, Births, LoopInv, CallbackFirst, Listening, Handlers
<1>1. CASE UNCHANGED <<server, loop_vars>>
  BY <1>1 DEF loop_vars
<1>2. CASE ServerThrows \/ Open \/ Bind \/ Listen \/ Accept
  BY <1>2 DEF ServerThrows, Open, Bind, Listen, Accept, http_vars, loop_vars
<1>3. CASE Post
  <2>1. /\ queue' = Append(queue, "callback") /\ server = "post" /\ server' = "run"
        /\ UNCHANGED <<port, backlog, reading, served>>
    BY <1>3 DEF Post
  <2>2. /\ queue' \in Seq(Handlers) /\ Len(queue) \in Nat /\ Len(queue') = Len(queue) + 1
        /\ \A i \in 1..Len(queue) : queue'[i] = queue[i]
        /\ queue'[Len(queue) + 1] = "callback"
    BY <2>1, Appended
  <2>3. CallbackFirst'
    BY <2>1, <2>2
  <2>4. QED
    BY <2>1, <2>2, <2>3
<1>4. CASE AcceptCompletes
  <2>1. /\ queue' = Append(queue, "accepted") /\ accepting /\ backlog' = backlog - 1
        /\ backlog > 0 /\ UNCHANGED <<server, port, reading, served>>
    BY <1>4 DEF AcceptCompletes
  <2>2. /\ queue' \in Seq(Handlers) /\ Len(queue) \in Nat /\ Len(queue') = Len(queue) + 1
        /\ \A i \in 1..Len(queue) : queue'[i] = queue[i]
        /\ queue'[Len(queue) + 1] = "accepted"
    BY <2>1, Appended
  <2>3. CallbackFirst => CallbackFirst'
    BY <2>2
  <2>4. ASSUME \A i \in 1..Len(queue) : queue[i] = "accepted"
        PROVE  \A i \in 1..Len(queue') : queue'[i] = "accepted"
    BY <2>2, <2>4
  <2>5. backlog' \in Nat
    BY <2>1
  <2>6. QED
    BY <2>1, <2>2, <2>3, <2>4, <2>5
<1>5. CASE ReadCompletes
  <2>1. /\ queue' = Append(queue, "request") /\ reading' = reading - 1
        /\ reading > 0 /\ UNCHANGED <<server, accepting, port, backlog, served>>
    BY <1>5 DEF ReadCompletes
  <2>2. /\ queue' \in Seq(Handlers) /\ Len(queue) \in Nat /\ Len(queue') = Len(queue) + 1
        /\ \A i \in 1..Len(queue) : queue'[i] = queue[i]
    BY <2>1, Appended
  <2>3. CallbackFirst => CallbackFirst'
    BY <2>2
  <2>4. reading' \in Nat /\ server \notin {"accept", "post"} /\ Listening
    BY <2>1
  <2>5. QED
    BY <2>1, <2>2, <2>3, <2>4
<1>6. ASSUME RunAccepted \/ RunCallback \/ RunRequest PROVE LoopInv'
  <2>1. /\ server = "run" /\ queue # <<>> /\ queue' = Tail(queue) /\ backlog' = backlog
    BY <1>6 DEF RunAccepted, RunCallback, RunRequest
  <2>2. /\ Tail(queue) \in Seq(Handlers) /\ Head(queue) = queue[1]
        /\ Len(queue) \in Nat /\ Len(queue) >= 1 /\ Len(Tail(queue)) = Len(queue) - 1
        /\ \A i \in 1..Len(Tail(queue)) : Tail(queue)[i] = queue[i + 1]
    BY <2>1, Taken
  <2>3. CASE RunAccepted
    <3>1. Head(queue) = "accepted" /\ reading' = reading + 1 /\ UNCHANGED <<server, port, served>>
      BY <2>3 DEF RunAccepted
    <3>2. ASSUME ~port PROVE CallbackFirst'
      <4>1. PICK i \in 1..Len(queue) :
              queue[i] = "callback" /\ \A j \in 1..(i - 1) : queue[j] = "accepted"
        BY <2>1, <3>2
      <4>2. i # 1 /\ i - 1 \in 1..Len(Tail(queue)) /\ (i - 1) + 1 = i
        BY <2>2, <3>1, <4>1
      <4>3. Tail(queue)[i - 1] = "callback"
        BY <2>2, <4>1, <4>2
      <4>4. ASSUME NEW j \in 1..((i - 1) - 1) PROVE Tail(queue)[j] = "accepted"
        <5>1. j \in 1..Len(Tail(queue)) /\ j + 1 \in 1..(i - 1)
          BY <2>2, <4>2
        <5>2. QED
          BY <2>2, <4>1, <5>1
      <4>5. QED
        BY <2>1, <4>2, <4>3, <4>4
    <3>3. QED
      BY <2>1, <2>2, <3>1, <3>2
  <2>4. CASE RunCallback
    <3>1. port' = TRUE /\ UNCHANGED <<server, reading, served>>
      BY <2>4 DEF RunCallback
    <3>2. QED
      BY <2>1, <2>2, <3>1
  <2>5. CASE RunRequest
    <3>1. /\ Head(queue) = "request" /\ UNCHANGED <<port, reading>>
          /\ server' \in {"run", "hung"} /\ served' \in {served, served + 1}
      BY <2>1, <2>5 DEF RunRequest
    <3>2. port
      <4>1. SUFFICES ASSUME ~port PROVE FALSE
        OBVIOUS
      <4>2. PICK i \in 1..Len(queue) :
              queue[i] = "callback" /\ \A j \in 1..(i - 1) : queue[j] = "accepted"
        BY <2>1, <4>1
      <4>3. CASE i = 1
        BY <2>2, <3>1, <4>2, <4>3
      <4>4. CASE i # 1
        <5>1. 1 \in 1..(i - 1)
          BY <2>2, <4>4
        <5>2. QED
          BY <2>2, <3>1, <4>2, <5>1
      <4>5. QED
        BY <4>3, <4>4
    <3>3. QED
      BY <2>1, <2>2, <3>1, <3>2
  <2>6. QED
    BY <1>6, <2>3, <2>4, <2>5
<1>7. CASE HttpSetup
  BY <1>7 DEF HttpSetup, loop_vars
<1>8. CASE HttpCount
  BY <1>8, <1>1 DEF HttpCount
<1>9. CASE Connect
  BY <1>9 DEF Connect
<1>10. CASE StartThread \/ CoapStep \/ CliStep \/ UNCHANGED vars
  <2>1. UNCHANGED <<server, loop_vars>>
    BY <1>10 DEF StartThread, CoapStep, ResolveFails, Resolve, ResolveCrashes, NewEndpoint,
      CoapCount, CliStep, Prompt, GetExit, GetOther, GetNothing, http_vars, vars
  <2>2. QED
    BY <1>1, <2>1
<1>11. CASE CloseInput \/ \E line \in {"exit", "other"} : Type(line)
  <2>1. UNCHANGED <<server, loop_vars>>
    BY <1>11 DEF CloseInput, Type, http_vars
  <2>2. QED
    BY <1>1, <2>1
<1>12. QED
  BY <1>2, <1>3, <1>4, <1>5, <1>6, <1>7, <1>8, <1>9, <1>10, <1>11
    DEF Next, ServerStep, HttpStep, World

\* So the invariant holds throughout.
LEMMA Invariance == Spec => []IInv
<1>1. IInv /\ [Next]_vars => IInv'
  BY CountedKept, LoopKept DEF IInv
<1>2. QED
  BY InitInv, <1>1, PTL DEF Spec

\* Whoever sees the prompt finds both servers up, whatever the interfaces and
\* however the four threads interleave.
THEOREM PromptCorrect == Spec => []PromptMeansServing
<1>1. IInv => PromptMeansServing
  BY DEF IInv, Counted, LoopInv, One, PromptMeansServing
<1>2. QED
  BY <1>1, Invariance, PTL

\* The port is reported once clients can connect and before any is served.
THEOREM ReportCorrect == Spec => []ReportedFirst
<1>1. IInv => ReportedFirst
  BY DEF IInv, LoopInv, ReportedFirst
<1>2. QED
  BY <1>1, Invariance, PTL

\* Clients are not counted twice: each is waiting to be accepted, in the queue,
\* being read from or served, and the callback is in the queue besides.
Flow ==
    /\ connected \in 0..MaxClients
    /\ backlog + Len(queue) + reading + served <= connected + One(server = "run" /\ ~port)

\* What the other parts of TypeOK say.
Kinds ==
    /\ process \in {"up", "abort", "terminate", "crash"}
    /\ coap \in {"unborn", "resolve", "endpoint", "count", "serve", "ended"}
    /\ endpoint \in {"none", "ipv4", "::1", "ipv6"}
    /\ http \in {"unborn", "setup", "await", "join"}
    /\ server \in {"unborn", "open", "bind", "listen", "accept", "post", "run", "hung"}
    /\ family \in {"none", "v6", "v4"}
    /\ accepting \in BOOLEAN /\ port \in BOOLEAN /\ eof \in BOOLEAN
    /\ cli \in {"unborn", "spin", "getline", "flood"}
    /\ typed \in Seq({"exit", "other"})

\* A client moves on from one place to the next.
LEMMA FlowKept ==
    ASSUME IInv, Flow, [Next]_vars
    PROVE  Flow'
<1> USE BoundsAssumption DEF IInv, LoopInv, Flow, One
<1>1. Len(queue) \in Nat /\ queue \in Seq(Handlers)
  OBVIOUS
<1>2. CASE UNCHANGED <<server, connected, loop_vars>>
  BY <1>2 DEF loop_vars
<1>3. CASE ServerThrows \/ Open \/ Bind \/ Listen \/ Accept
  BY <1>3 DEF ServerThrows, Open, Bind, Listen, Accept, http_vars, loop_vars
<1>4. CASE Post \/ AcceptCompletes \/ ReadCompletes
  <2>1. Len(queue') = Len(queue) + 1
    BY <1>1, <1>4, Appended DEF Post, AcceptCompletes, ReadCompletes, Handlers
  <2>2. QED
    BY <1>1, <1>4, <2>1 DEF Post, AcceptCompletes, ReadCompletes, Listening
<1>5. CASE RunAccepted \/ RunCallback \/ RunRequest
  <2>1. Len(queue') = Len(queue) - 1 /\ Len(queue') \in Nat
    <3>1. queue # <<>> /\ queue' = Tail(queue)
      BY <1>5 DEF RunAccepted, RunCallback, RunRequest
    <3>2. QED
      BY <1>1, <3>1, Taken
  <2>2. QED
    BY <1>1, <1>5, <2>1 DEF RunAccepted, RunCallback, RunRequest
<1>6. CASE Connect
  BY <1>1, <1>6 DEF Connect
<1>7. CASE HttpSetup
  BY <1>1, <1>7 DEF HttpSetup, loop_vars, Births
<1>8. CASE HttpCount \/ StartThread \/ CoapStep \/ CliStep \/ UNCHANGED vars \/ CloseInput
             \/ \E line \in {"exit", "other"} : Type(line)
  <2>1. UNCHANGED <<server, connected, loop_vars>>
    BY <1>8 DEF HttpCount, StartThread, CoapStep, ResolveFails, Resolve, ResolveCrashes,
      NewEndpoint, CoapCount, CliStep, Prompt, GetExit, GetOther, GetNothing, CloseInput, Type,
      http_vars, vars
  <2>2. QED
    BY <1>2, <2>1
<1>9. QED
  BY <1>3, <1>4, <1>5, <1>6, <1>7, <1>8 DEF Next, ServerStep, HttpStep, World

\* Every step leaves its variables in their sets.
LEMMA KindsKept ==
    ASSUME Kinds, [Next]_vars
    PROVE  Kinds'
<1> USE DEF Kinds
<1>1. CASE UNCHANGED vars
  BY <1>1 DEF vars, coap_vars, http_vars, cli_vars, loop_vars
<1>2. CASE StartThread
  BY <1>2 DEF StartThread, loop_vars
<1>3. CASE CoapStep
  <2>1. ASSUME NEW list \in Interfaces, Resolve(list) PROVE Kinds'
    BY <2>1 DEF Resolve, Chosen, http_vars, cli_vars, loop_vars
  <2>2. ASSUME NEW list \in Interfaces, ResolveCrashes(list) PROVE Kinds'
    BY <2>2 DEF ResolveCrashes, coap_vars, http_vars, cli_vars, loop_vars
  <2>3. CASE ResolveFails \/ NewEndpoint \/ CoapCount
    BY <2>3 DEF ResolveFails, NewEndpoint, CoapCount, http_vars, cli_vars, loop_vars
  <2>4. QED
    BY <1>3, <2>1, <2>2, <2>3 DEF CoapStep
<1>4. CASE ServerStep
  <2>1. /\ UNCHANGED <<coap_vars, http, cli_vars>> /\ process' \in {process, "terminate"}
        /\ server' \in {server, "bind", "listen", "accept", "post", "run", "hung"}
        /\ family' \in {family, "v6", "v4"}
        /\ accepting' \in BOOLEAN /\ port' \in BOOLEAN
    BY <1>4 DEF ServerStep, ServerThrows, Open, Bind, Listen, Accept, Post, AcceptCompletes,
      ReadCompletes, RunAccepted, RunCallback, RunRequest, http_vars, loop_vars
  <2>2. QED
    BY <2>1 DEF coap_vars, cli_vars
<1>5. CASE HttpStep
  BY <1>5 DEF HttpStep, HttpSetup, HttpCount, coap_vars, cli_vars, loop_vars
<1>6. CASE CliStep
  <2>1. /\ UNCHANGED <<coap_vars, http_vars, eof>> /\ process' \in {process, "abort"}
        /\ cli' \in {cli, "getline", "flood"}
        /\ typed' = typed \/ (typed # <<>> /\ typed' = Tail(typed))
    BY <1>6 DEF CliStep, Prompt, GetExit, GetOther, GetNothing, cli_vars
  <2>2. typed' \in Seq({"exit", "other"})
    BY <2>1, Taken
  <2>3. QED
    BY <2>1, <2>2 DEF coap_vars, http_vars, loop_vars
<1>7. CASE World
  <2>1. ASSUME NEW line \in {"exit", "other"}, Type(line) PROVE typed' \in Seq({"exit", "other"})
    BY <2>1, Appended DEF Type
  <2>2. QED
    BY <1>7, <2>1 DEF World, Connect, Type, CloseInput, coap_vars, cli_vars, http_vars, loop_vars
<1>8. QED
  BY <1>1, <1>2, <1>3, <1>4, <1>5, <1>6, <1>7 DEF Next

\* The state has its types: above all, the counters of clients stay within
\* those that have connected, and load_progress within the two servers.
THEOREM StartupTypes == Spec => []TypeOK
<1>1. Init => Flow /\ Kinds
  <2>1. Init => Kinds
    <3>1. <<>> \in Seq({"exit", "other"})
      OBVIOUS
    <3>2. Init => typed \in Seq({"exit", "other"})
      BY <3>1, Zenon DEF Init
    <3>3. QED
      BY <3>2, Zenon DEF Init, Kinds
  <2>2. Init => Flow
    BY BoundsAssumption DEF Init, Flow, One
  <2>3. QED
    BY <2>1, <2>2
<1>2. IInv /\ Flow /\ Kinds /\ [Next]_vars => Flow' /\ Kinds'
  BY FlowKept, KindsKept
<1>3. ASSUME IInv, Flow, Kinds PROVE TypeOK
  <2>1. Len(queue) \in Nat /\ (server = "run" /\ ~port => Len(queue) >= 1)
    BY <1>3 DEF IInv, LoopInv, CallbackFirst
  <2>2. backlog \in 0..MaxClients /\ reading \in 0..MaxClients /\ served \in 0..MaxClients
    BY <1>3, <2>1, BoundsAssumption DEF IInv, LoopInv, Flow, One
  <2>3. QED
    BY <1>3, <2>2 DEF IInv, Counted, Births, LoopInv, Flow, Kinds, One, TypeOK, Handlers
<1>4. QED
  BY <1>1, <1>2, <1>3, Invariance, PTL DEF Spec

==============================================================================
