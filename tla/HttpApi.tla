------------------------------ MODULE HttpApi --------------------------------
(***************************************************************************)
(* What the resource functions of start_http_server (src/http-server.cpp)  *)
(* answer: how a request finds its function, the checks of its body in     *)
(* their order, the exceptions caught and not caught, and what is left in  *)
(* the session manager.                                                    *)
(*                                                                         *)
(* The server has one thread, so requests are served one at a time; how    *)
(* their steps interleave with the timer is the subject of Gateway.  Here  *)
(* connect finds room in the signal or throws.  Fields of a body are       *)
(* told apart by what the checks make of them.                             *)
(***************************************************************************)
EXTENDS Naturals, Sequences, FiniteSets, Functions

CONSTANTS
    MaxSessions,  \* capacity of the session manager
    MaxInt,       \* the largest int
    Requests,     \* the requests clients send
    None          \* no request

Handles == 0..MaxSessions   \* what create draws from
TooLong(h) == h > MaxInt     \* the path's digits make no int

\* Schemes the URL pattern admits; a location that does not match is "bad".
Schemes == {"http", "https", "coap", "coaps"}
Fields == [json : BOOLEAN, device : Schemes \cup {"bad", "missing"},
           param : {"a", "b", "bad", "missing"}, names : {"given", "missing"},
           interval : {"5", "-1", "text", "missing"}]

Paths == {"/get-uptime", "/add-new-observable", "/update-observable/", "/remove-observable/",
          "/observe-once", "/get-iotdata", "/get-iotdata/", "file", "no file"}

\* What the device that a body names does when it is asked: it answers with an
\* object or an array, with a bare JSON scalar, with a Content-Length that is
\* no number, or in any other way; or it cannot be reached.  (With one that
\* stays silent the function does not return: see Gateway and WebServer.)
DeviceAnswers == {"json", "scalar", "bad_length", "other"}

ASSUME RequestsAssumption ==
    \A r \in Requests :
        /\ r.method \in {"GET", "POST"} /\ r.path \in Paths
        /\ r.handle \in Nat /\ r.body \in Fields /\ r.device \in DeviceAnswers

ASSUME SessionsAssumption ==
    MaxSessions \in Nat \ {0} /\ MaxInt \in Nat /\ MaxSessions <= MaxInt /\ None \notin Requests

VARIABLES
    store,    \* store[h]: what the session with handle h observes
    request,  \* the request being served, or None
    reply,    \* "waiting", what was written, or "dropped": nothing was
    told      \* told[h]: what clients were told that h observes

vars == <<store, request, reply, told>>

Errors == {"format", "members", "interval", "handle", "param", "url"}
Results == {"success", "observable", "observables", "uptime", "json", "{}", "file", "not a file"}

Init ==
    /\ store = <<>> /\ told = <<>>
    /\ request = None /\ reply = "waiting"

Live == DOMAIN store

-----------------------------------------------------------------------------
(* find_resource: by method and path, or the default for the method.       *)

\* slip: the method is not looked at.
FindByPath(r) ==
    IF r.path \in {"file", "no file"} THEN "files" ELSE r.path

FindResource(r) ==
    CASE r.method = "GET" /\ r.path \in {"/get-uptime", "/get-iotdata", "/get-iotdata/"} -> r.path
      [] r.method = "POST" /\ r.path \in {"/add-new-observable", "/update-observable/",
                                          "/remove-observable/", "/observe-once"} -> r.path
      [] r.method = "GET" /\ r.path \in {"file", "no file", "/add-new-observable",
                "/update-observable/", "/remove-observable/", "/observe-once"} -> "files"
      [] OTHER -> "none"

Receive(r) ==
    /\ request = None \/ reply # "waiting"
    /\ request' = r
    /\ reply' = "waiting"
    /\ UNCHANGED <<store, told>>

Serving(resource) ==
    /\ request # None /\ reply = "waiting"
    /\ FindResource(request) = resource

\* The function writes an answer and changes nothing.
Answer(what) ==
    /\ reply' = what
    /\ UNCHANGED <<store, request, told>>

\* The function throws, or returns without having written anything; or there
\* is no function.
Drop == Answer("dropped")

Unmatched == Serving("none") /\ Drop

-----------------------------------------------------------------------------
(* Validation: the first check that fails gives the answer.                *)

Check(fails, error) == [fails |-> fails, error |-> error]

Failing(checks) == {i \in 1..Len(checks) : checks[i].fails}

FirstError(checks) ==
    checks[CHOOSE i \in Failing(checks) : \A j \in Failing(checks) : i <= j].error

\* slip: the interval is read like the other members.
AddChecksUnlike(b) ==
    <<Check(~b.json, "format"),
      Check(b.device = "missing", "members"), Check(b.device = "bad", "url"),
      Check(b.param = "missing", "members"), Check(b.param = "bad", "param"),
      Check(b.names = "missing", "members"),
      Check(b.interval \in {"missing", "text"}, "members")>>

\* A missing interval is caught where a bad one is.  "-1" is read as the
\* largest size_t there is.
AddChecks(b) ==
    <<Check(~b.json, "format"),
      Check(b.device = "missing", "members"), Check(b.device = "bad", "url"),
      Check(b.param = "missing", "members"), Check(b.param = "bad", "param"),
      Check(b.names = "missing", "members"),
      Check(b.interval \in {"missing", "text"}, "interval")>>

UpdateChecks(b) ==
    <<Check(~b.json, "format"),
      Check(b.param = "missing", "members"), Check(b.param = "bad", "param"),
      Check(b.names = "missing", "members")>>

OnceChecks(b) ==
    <<Check(~b.json, "format"),
      Check(b.device = "missing", "members"), Check(b.device = "bad", "url")>>

ChecksOf(resource, b) ==
    CASE resource = "/add-new-observable" -> AddChecks(b)
      [] resource = "/update-observable/" -> UpdateChecks(b)
      [] resource = "/observe-once" -> OnceChecks(b)
      [] OTHER -> <<>>

Checks == ChecksOf(FindResource(request), request.body)

Valid(resource) == Serving(resource) /\ Failing(Checks) = {}

\* stoi throws before the function's try block.
HandleTooLong ==
    /\ \E p \in {"/update-observable/", "/remove-observable/", "/get-iotdata/"} : Serving(p)
    /\ TooLong(request.handle)
    /\ Drop

\* slip: the new parameter is stored before the names are looked at.
RejectLate ==
    /\ \E p \in {"/add-new-observable", "/update-observable/", "/observe-once"} : Serving(p)
    /\ Failing(Checks) # {}
    /\ reply' = FirstError(Checks)
    /\ store' = IF FindResource(request) = "/update-observable/" /\ request.handle \in Live
                   /\ request.body.param \in {"a", "b"}
                THEN [store EXCEPT ![request.handle].param = request.body.param] ELSE store
    /\ UNCHANGED <<request, told>>

Reject ==
    /\ \E p \in {"/add-new-observable", "/update-observable/", "/observe-once"} : Serving(p)
    /\ FindResource(request) = "/update-observable/" => ~TooLong(request.handle)
    /\ Failing(Checks) # {}
    /\ Answer(FirstError(Checks))

\* slip: the session manager is asked outside of the try block.
UnknownHandleThrows ==
    /\ \E p \in {"/update-observable/", "/remove-observable/", "/get-iotdata/"} : Valid(p)
    /\ request.handle \notin Live /\ ~TooLong(request.handle)
    /\ Drop

\* No session has the handle, and the session manager throws.
UnknownHandle ==
    /\ \E p \in {"/update-observable/", "/remove-observable/", "/get-iotdata/"} : Valid(p)
    /\ request.handle \notin Live /\ ~TooLong(request.handle)
    /\ Answer("handle")

-----------------------------------------------------------------------------
(* The functions proper.                                                   *)

Observed(b) == [device |-> b.device, param |-> b.param, interval |-> b.interval]

\* slip: create takes the first handle drawn.
AddDrawsOnce(h, connects) ==
    /\ Valid("/add-new-observable")
    /\ Cardinality(Live) < MaxSessions
    /\ store' = [k \in Live \cup {h} |-> IF k = h THEN Observed(request.body) ELSE store[k]]
    /\ reply' = IF connects THEN "success" ELSE "dropped"
    /\ told' = IF connects THEN [k \in DOMAIN told \cup {h} |-> store'[k]] ELSE told
    /\ UNCHANGED request

\* slip: the test of the size is off by one.
AddOverfull(h, connects) ==
    /\ Valid("/add-new-observable")
    /\ Cardinality(Live) <= MaxSessions
    /\ h \notin Live
    /\ store' = [k \in Live \cup {h} |-> IF k = h THEN Observed(request.body) ELSE store[k]]
    /\ reply' = "success"
    /\ UNCHANGED <<request, told>>

\* create draws until a handle is free; if connect throws, the session stays
\* and the client is told nothing.
Add(h, connects) ==
    /\ Valid("/add-new-observable")
    /\ Cardinality(Live) < MaxSessions
    /\ h \notin Live
    /\ store' = [k \in Live \cup {h} |-> IF k = h THEN Observed(request.body) ELSE store[k]]
    /\ reply' = IF connects THEN "success" ELSE "dropped"
    /\ told' = IF connects
               THEN [k \in DOMAIN told \cup {h} |-> IF k = h THEN store'[k] ELSE told[k]] ELSE told
    /\ UNCHANGED request

\* create throws outside of any try block.
AddFull ==
    /\ Valid("/add-new-observable")
    /\ Cardinality(Live) >= MaxSessions
    /\ Drop

Update ==
    /\ Valid("/update-observable/")
    /\ request.handle \in Live
    /\ store' = [store EXCEPT ![request.handle].param = request.body.param]
    /\ told' = [k \in DOMAIN told |->
                   IF k = request.handle THEN store'[k] ELSE told[k]]
    /\ reply' = "success"
    /\ UNCHANGED request

Remove ==
    /\ Valid("/remove-observable/")
    /\ request.handle \in Live
    /\ store' = Restrict(store, Live \ {request.handle})
    /\ told' = Restrict(told, DOMAIN told \ {request.handle})
    /\ reply' = "success"
    /\ UNCHANGED request

GetOne ==
    /\ Valid("/get-iotdata/")
    /\ request.handle \in Live
    /\ Answer("observable")

GetAll == Valid("/get-iotdata") /\ Answer("observables")

GetUptime == Valid("/get-uptime") /\ Answer("uptime")

\* slip: no try block around read_json.
RelayedUncaught(answer) == IF answer = "json" THEN "json" ELSE "dropped"

\* What fails in the client, and what read_json refuses, leaves an empty tree.
\* But stoull throws out of io_service->run, and write_json does on a scalar.
Relayed(answer) ==
    CASE answer = "json"                    -> "json"
      [] answer = "other"                   -> "{}"
      [] answer \in {"scalar", "bad_length"} -> "dropped"

\* For CoAP there is no branch.
ObserveOnce ==
    /\ Valid("/observe-once")
    /\ \/ request.body.device \in {"http", "https"} /\ Answer(Relayed(request.device))
       \/ request.body.device \in {"coap", "coaps"} /\ Drop

\* Whatever goes wrong on the way to the file is answered with 404.
GetFile ==
    /\ Serving("files")
    /\ IF request.path = "file" THEN Answer("file") ELSE Answer("not a file")

Next ==
    \/ \E r \in Requests : Receive(r)
    \/ Unmatched \/ HandleTooLong \/ Reject \/ UnknownHandle
    \/ \E h \in Handles, connects \in BOOLEAN : Add(h, connects)
    \/ AddFull \/ Update \/ Remove
    \/ GetOne \/ GetAll \/ GetUptime \/ ObserveOnce \/ GetFile

Spec == Init /\ [][Next]_vars

-----------------------------------------------------------------------------

Observables == [device : Schemes, param : {"a", "b"}, interval : {"5", "-1"}]

TypeOK ==
    /\ Live \subseteq Handles /\ Cardinality(Live) <= MaxSessions
    /\ \A h \in Live : store[h] \in Observables
    /\ request \in Requests \cup {None}
    /\ reply \in Errors \cup Results \cup {"waiting", "dropped"}
    /\ \A h \in DOMAIN told : told[h] \in Observables

\* What a client was told last of a handle is still so, whatever other clients
\* asked for, and whatever was refused or dropped in between.
Kept ==
    \A h \in DOMAIN told : h \in Live /\ store[h] = told[h]

\* The sessions are of the kind the checks admit, and are what clients think.
StoreInv == TypeOK /\ Kept

\* The faults of a request, as the README's table of errors has them, except
\* that a missing interval may be called a bad interval, as the code does,
\* where the table (src/README.md:245) calls it a missing member.
Faults ==
    LET b == request.body
        op == FindResource(request)
        required == CASE op = "/add-new-observable" -> {b.device, b.param, b.names, b.interval}
                      [] op = "/update-observable/" -> {b.param, b.names}
                      [] op = "/observe-once" -> {b.device}
                      [] OTHER -> {}
        hasBody == required # {}
    IN  (IF hasBody /\ ~b.json THEN {"format"} ELSE {})
        \cup (IF "missing" \in required THEN {"members"} ELSE {})
        \cup (IF op = "/add-new-observable" /\ b.interval \in {"text", "missing"}
              THEN {"interval"} ELSE {})
        \cup (IF op \in {"/add-new-observable", "/update-observable/"} /\ b.param = "bad"
              THEN {"param"} ELSE {})
        \cup (IF op \in {"/add-new-observable", "/observe-once"} /\ b.device = "bad"
              THEN {"url"} ELSE {})
        \cup (IF op \in {"/update-observable/", "/remove-observable/", "/get-iotdata/"}
                 /\ request.handle \notin Live
              THEN {"handle"} ELSE {})

Answered == reply = "waiting" /\ reply' # "waiting" /\ UNCHANGED request

\* An error names a fault that the request has, and no request with a fault is
\* answered with a result.  An error or a GET leaves everything as it was.
TrueAnswers ==
    [][Answered =>
          /\ reply' \in Errors => reply' \in Faults
          /\ reply' \in Results => Faults = {}
          /\ reply' \in Errors \/ request.method = "GET" => store' = store]_vars

\* A client is left without an answer only by a handle too long for an int
\* (src/README.md:247 has 404 for an invalid handle), a POST to a path that has
\* no function, an observable for which the session manager or the signal had
\* no room, a CoAP address to be observed once, or a device observed once that
\* sends a bare scalar or a Content-Length that is no number (src/README.md:95
\* has "{}" for a response that is not JSON).
DroppedForCause ==
    [][Answered /\ reply' = "dropped" =>
          \/ TooLong(request.handle)
          \/ request.path = "/observe-once" /\ Faults = {}
             /\ \/ request.body.device \in {"coap", "coaps"}
                \/ request.device \in {"scalar", "bad_length"}
          \/ FindResource(request) = "none"
          \/ request.path = "/add-new-observable" /\ Faults = {}
             /\ (store' # store \/ Cardinality(Live) = MaxSessions)]_vars
==============================================================================
