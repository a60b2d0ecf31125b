---------------------------- MODULE HttpApi_proofs ----------------------------
(* For any requests and any capacity of the session manager: the sessions   *)
(* are what clients were told, answers are true, and requests are dropped   *)
(* for the known causes only.                                               *)
EXTENDS HttpApi, FiniteSetTheorems, TLAPS

\* Among the checks that fail there is a first.
LEMMA FirstExists ==
    ASSUME NEW F \in SUBSET (1..7), F # {}
    PROVE  \E i \in F : \A j \in F : i <= j
<1>1. \E i \in 1..7 : i \in F  OBVIOUS
<1>2. CASE 1 \in F  BY <1>2
<1>3. CASE 1 \notin F /\ 2 \in F  BY <1>3
<1>4. CASE 1 \notin F /\ 2 \notin F /\ 3 \in F  BY <1>4
<1>5. CASE 1 \notin F /\ 2 \notin F /\ 3 \notin F /\ 4 \in F  BY <1>5
<1>6. CASE 1 \notin F /\ 2 \notin F /\ 3 \notin F /\ 4 \notin F
  <2>1. CASE 5 \in F  BY <1>6, <2>1
  <2>2. CASE 5 \notin F /\ 6 \in F  BY <1>6, <2>2
  <2>3. CASE 5 \notin F /\ 6 \notin F
    <3>1. 7 \in F /\ \A j \in F : j = 7  BY <1>1, <1>6, <2>3
    <3>2. QED  BY <3>1
  <2>4. QED  BY <2>1, <2>2, <2>3
<1>7. QED  BY <1>2, <1>3, <1>4, <1>5, <1>6

\* The error is that of a check that fails.
LEMMA ErrorOfFailing ==
    ASSUME NEW checks, Len(checks) \in 0..7, Failing(checks) # {}
    PROVE  \E i \in 1..Len(checks) :
              checks[i].fails /\ FirstError(checks) = checks[i].error
<1>1. Failing(checks) \in SUBSET (1..7)  BY DEF Failing
<1>2. \E i \in Failing(checks) : \A j \in Failing(checks) : i <= j
  BY <1>1, FirstExists
<1> DEFINE least == CHOOSE i \in Failing(checks) : \A j \in Failing(checks) : i <= j
<1>3. least \in Failing(checks)  BY <1>2
<1>4. FirstError(checks) = checks[least].error  BY DEF FirstError
<1>5. QED  BY <1>3, <1>4 DEF Failing

\* What the checks of add-new-observable look at, in their order.
LEMMA AddChecksAre ==
    ASSUME NEW b \in Fields
    PROVE  LET checks == AddChecks(b) IN
           /\ Len(checks) = 7
           /\ checks[1].fails <=> ~b.json
           /\ checks[1].error = "format"
           /\ checks[2].fails <=> (b.device = "missing")
           /\ checks[2].error = "members"
           /\ checks[3].fails <=> (b.device = "bad")
           /\ checks[3].error = "url"
           /\ checks[4].fails <=> (b.param = "missing")
           /\ checks[4].error = "members"
           /\ checks[5].fails <=> (b.param = "bad")
           /\ checks[5].error = "param"
           /\ checks[6].fails <=> (b.names = "missing")
           /\ checks[6].error = "members"
           /\ checks[7].fails <=> (b.interval \in {"missing", "text"})
           /\ checks[7].error = "interval"
BY DEF AddChecks, Check, Fields

\* So for update-observable.
LEMMA UpdateChecksAre ==
    ASSUME NEW b \in Fields
    PROVE  LET checks == UpdateChecks(b) IN
           /\ Len(checks) = 4
           /\ checks[1].fails <=> ~b.json
           /\ checks[1].error = "format"
           /\ checks[2].fails <=> (b.param = "missing")
           /\ checks[2].error = "members"
           /\ checks[3].fails <=> (b.param = "bad")
           /\ checks[3].error = "param"
           /\ checks[4].fails <=> (b.names = "missing")
           /\ checks[4].error = "members"
BY DEF UpdateChecks, Check, Fields

\* And for observe-once.
LEMMA OnceChecksAre ==
    ASSUME NEW b \in Fields
    PROVE  LET checks == OnceChecks(b) IN
           /\ Len(checks) = 3
           /\ checks[1].fails <=> ~b.json
           /\ checks[1].error = "format"
           /\ checks[2].fails <=> (b.device = "missing")
           /\ checks[2].error = "members"
           /\ checks[3].fails <=> (b.device = "bad")
           /\ checks[3].error = "url"
BY DEF OnceChecks, Check, Fields

\* A body that passes the checks of add-new-observable can be observed.
LEMMA AddChecksPass ==
    ASSUME NEW b \in Fields, Failing(AddChecks(b)) = {}
    PROVE  /\ b.json /\ b.names # "missing"
           /\ Observed(b) \in Observables
<1>1. \A i \in 1..7 : ~AddChecks(b)[i].fails  BY AddChecksAre DEF Failing
<1>2. /\ ~AddChecks(b)[1].fails
      /\ ~AddChecks(b)[2].fails
      /\ ~AddChecks(b)[3].fails
      /\ ~AddChecks(b)[4].fails
      /\ ~AddChecks(b)[5].fails
      /\ ~AddChecks(b)[6].fails
      /\ ~AddChecks(b)[7].fails
  BY <1>1
<1>3. /\ b.json
      /\ b.device # "missing" /\ b.device # "bad"
      /\ b.param # "missing" /\ b.param # "bad"
      /\ b.names # "missing"
      /\ b.interval \notin {"missing", "text"}
  BY <1>2, AddChecksAre
<1>4. QED  BY <1>3 DEF Fields, Observed, Observables

\* A body that passes the checks of update-observable has a new parameter.
LEMMA UpdateChecksPass ==
    ASSUME NEW b \in Fields, Failing(UpdateChecks(b)) = {}
    PROVE  b.json /\ b.names # "missing" /\ b.param \in {"a", "b"}
<1>1. \A i \in 1..4 : ~UpdateChecks(b)[i].fails  BY UpdateChecksAre DEF Failing
<1>2. /\ ~UpdateChecks(b)[1].fails
      /\ ~UpdateChecks(b)[2].fails
      /\ ~UpdateChecks(b)[3].fails
      /\ ~UpdateChecks(b)[4].fails
  BY <1>1
<1>3. b.json /\ b.names # "missing" /\ b.param # "missing" /\ b.param # "bad"
  BY <1>2, UpdateChecksAre
<1>4. QED  BY <1>3 DEF Fields

\* A body that passes the checks of observe-once has an address.
LEMMA OnceChecksPass ==
    ASSUME NEW b \in Fields, Failing(OnceChecks(b)) = {}
    PROVE  b.json /\ b.device \in Schemes
<1>1. \A i \in 1..3 : ~OnceChecks(b)[i].fails  BY OnceChecksAre DEF Failing
<1>2. /\ ~OnceChecks(b)[1].fails
      /\ ~OnceChecks(b)[2].fails
      /\ ~OnceChecks(b)[3].fails
  BY <1>1
<1>3. b.json /\ b.device # "missing" /\ b.device # "bad"
  BY <1>2, OnceChecksAre
<1>4. QED  BY <1>3 DEF Fields

\* A request that is being served.
LEMMA Served ==
    ASSUME TypeOK, NEW p, Serving(p)
    PROVE  /\ request \in Requests /\ request.body \in Fields
           /\ request.method \in {"GET", "POST"} /\ request.path \in Paths
           /\ request.handle \in Nat
           /\ reply = "waiting" /\ FindResource(request) = p
BY RequestsAssumption DEF TypeOK, Serving

\* What becomes of a device's answer, by its kind.
LEMMA RelayedAre ==
    ASSUME NEW answer \in DeviceAnswers
    PROVE  /\ Relayed(answer) \in {"json", "{}", "dropped"}
           /\ Relayed(answer) = "dropped" <=> answer \in {"scalar", "bad_length"}
BY DEF DeviceAnswers, Relayed

\* What is served by the function of a path was sent to it.
LEMMA PathOf ==
    ASSUME TypeOK, NEW p \in Paths \ {"file", "no file"}, Serving(p)
    PROVE  /\ request.path = p
           /\ request.method = IF p \in {"/get-uptime", "/get-iotdata", "/get-iotdata/"}
                               THEN "GET" ELSE "POST"
BY Served DEF FindResource, Paths

\* The error that refuses a request names one of its faults.
LEMMA RejectFaults ==
    ASSUME TypeOK, Reject
    PROVE  FirstError(Checks) \in Errors \cap Faults
<1>1. PICK p \in {"/add-new-observable", "/update-observable/", "/observe-once"} : Serving(p)
  BY DEF Reject
<1>2. request.body \in Fields /\ FindResource(request) = p  BY <1>1, Served
<1>3. Failing(Checks) # {}  BY DEF Reject
<1> DEFINE b == request.body
<1>4. CASE p = "/add-new-observable"
  <2>1. Checks = AddChecks(b)  BY <1>2, <1>4 DEF Checks, ChecksOf
  <2>2. Len(AddChecks(b)) = 7  BY <1>2, AddChecksAre
  <2>3. PICK i \in 1..7 : AddChecks(b)[i].fails /\ FirstError(Checks) = AddChecks(b)[i].error
    BY <2>1, <2>2, <1>3, ErrorOfFailing
  <2>4. \/ FirstError(Checks) = "format" /\ ~b.json
        \/ FirstError(Checks) = "members" /\ "missing" \in {b.device, b.param, b.names, b.interval}
        \/ FirstError(Checks) = "url" /\ b.device = "bad"
        \/ FirstError(Checks) = "param" /\ b.param = "bad"
        \/ FirstError(Checks) = "interval" /\ b.interval \in {"missing", "text"}
    BY <1>2, <2>3, AddChecksAre
  <2>5. QED  BY <2>4, <1>2, <1>4 DEF Faults, Errors
<1>5. CASE p = "/update-observable/"
  <2>1. Checks = UpdateChecks(b)  BY <1>2, <1>5 DEF Checks, ChecksOf
  <2>2. Len(UpdateChecks(b)) = 4  BY <1>2, UpdateChecksAre
  <2>3. PICK i \in 1..4 :
            UpdateChecks(b)[i].fails /\ FirstError(Checks) = UpdateChecks(b)[i].error
    BY <2>1, <2>2, <1>3, ErrorOfFailing
  <2>4. \/ FirstError(Checks) = "format" /\ ~b.json
        \/ FirstError(Checks) = "members" /\ "missing" \in {b.param, b.names}
        \/ FirstError(Checks) = "param" /\ b.param = "bad"
    BY <1>2, <2>3, UpdateChecksAre
  <2>5. QED  BY <2>4, <1>2, <1>5 DEF Faults, Errors
<1>6. CASE p = "/observe-once"
  <2>1. Checks = OnceChecks(b)  BY <1>2, <1>6 DEF Checks, ChecksOf
  <2>2. Len(OnceChecks(b)) = 3  BY <1>2, OnceChecksAre
  <2>3. PICK i \in 1..3 : OnceChecks(b)[i].fails /\ FirstError(Checks) = OnceChecks(b)[i].error
    BY <2>1, <2>2, <1>3, ErrorOfFailing
  <2>4. \/ FirstError(Checks) = "format" /\ ~b.json
        \/ FirstError(Checks) = "members" /\ "missing" \in {b.device}
        \/ FirstError(Checks) = "url" /\ b.device = "bad"
    BY <1>2, <2>3, OnceChecksAre
  <2>5. QED  BY <2>4, <1>2, <1>6 DEF Faults, Errors
<1>7. QED  BY <1>1, <1>4, <1>5, <1>6

\* Who passes the checks has none of the faults they are about.
LEMMA ValidFaults ==
    ASSUME TypeOK, NEW p \in Paths \ {"file", "no file"}, Valid(p)
    PROVE  /\ Faults \subseteq {"handle"}
           /\ Faults = {"handle"} <=>
                 /\ p \in {"/update-observable/", "/remove-observable/", "/get-iotdata/"}
                 /\ request.handle \notin Live
           /\ p = "/add-new-observable" => Observed(request.body) \in Observables
           /\ p = "/update-observable/" => request.body.param \in {"a", "b"}
<1> DEFINE b == request.body
<1>1. /\ Serving(p) /\ FindResource(request) = p /\ b \in Fields
      /\ Failing(ChecksOf(p, b)) = {}
  BY Served DEF Valid, Checks
<1>2. CASE p = "/add-new-observable"
  <2>1. ChecksOf(p, b) = AddChecks(b)  BY <1>2 DEF ChecksOf
  <2>2. b.json /\ b.names # "missing" /\ Observed(b) \in Observables
    BY <1>1, <2>1, AddChecksPass
  <2>3. b.device \in Schemes /\ b.param \in {"a", "b"} /\ b.interval \in {"5", "-1"}
    BY <2>2 DEF Observed, Observables
  <2>4. "missing" \notin {b.device, b.param, b.names, b.interval}
    BY <2>2, <2>3 DEF Schemes
  <2>5. Faults = {}  BY <1>1, <1>2, <2>2, <2>3, <2>4 DEF Faults, Schemes
  <2>6. QED  BY <1>2, <2>2, <2>5
<1>3. CASE p = "/update-observable/"
  <2>1. ChecksOf(p, b) = UpdateChecks(b)  BY <1>3 DEF ChecksOf
  <2>2. b.json /\ b.names # "missing" /\ b.param \in {"a", "b"}
    BY <1>1, <2>1, UpdateChecksPass
  <2>3. "missing" \notin {b.param, b.names}  BY <2>2
  <2>4. Faults = IF request.handle \notin Live THEN {"handle"} ELSE {}
    BY <1>1, <1>3, <2>2, <2>3 DEF Faults
  <2>5. QED  BY <1>3, <2>2, <2>4
<1>4. CASE p = "/observe-once"
  <2>1. ChecksOf(p, b) = OnceChecks(b)  BY <1>4 DEF ChecksOf
  <2>2. b.json /\ b.device \in Schemes  BY <1>1, <2>1, OnceChecksPass
  <2>3. Faults = {}  BY <1>1, <1>4, <2>2 DEF Faults, Schemes
  <2>4. QED  BY <1>4, <2>3
<1>5. CASE p \in {"/get-uptime", "/remove-observable/", "/get-iotdata", "/get-iotdata/"}
  <2>1. Faults = IF /\ p \in {"/remove-observable/", "/get-iotdata/"}
                    /\ request.handle \notin Live
                 THEN {"handle"} ELSE {}
    BY <1>1, <1>5 DEF Faults
  <2>2. QED  BY <1>5, <2>1
<1>6. QED  BY <1>2, <1>3, <1>4, <1>5 DEF Paths

-----------------------------------------------------------------------------

\* Nothing is stored, and nobody has been told anything.
LEMMA InitInv == Init => StoreInv
<1> SUFFICES ASSUME Init PROVE StoreInv  OBVIOUS
<1>1. Live = {} /\ DOMAIN told = {}  BY DEF Init, Live
<1>2. Cardinality({}) = 0  BY FS_EmptySet
<1>3. TypeOK  BY <1>1, <1>2, SessionsAssumption DEF Init, TypeOK
<1>4. QED  BY <1>1, <1>3 DEF Kept, StoreInv

\* An answer that changes nothing else keeps the sessions as they are.
LEMMA AnswerInv ==
    ASSUME StoreInv, NEW what \in Errors \cup Results \cup {"dropped"}, Answer(what)
    PROVE  StoreInv'
BY DEF StoreInv, TypeOK, Kept, Answer, Live

\* Requests that are refused, dropped or only read.
LEMMA AnswersInv ==
    ASSUME StoreInv,
           \/ Unmatched \/ HandleTooLong \/ Reject \/ UnknownHandle \/ AddFull
           \/ GetOne \/ GetAll \/ GetUptime \/ ObserveOnce \/ GetFile
    PROVE  StoreInv'
<1>1. CASE Unmatched \/ HandleTooLong \/ AddFull
  BY <1>1, AnswerInv DEF Unmatched, HandleTooLong, AddFull, Drop
<1>2. CASE Reject
  <2>1. FirstError(Checks) \in Errors  BY <1>2, RejectFaults DEF StoreInv
  <2>2. QED  BY <1>2, <2>1, AnswerInv DEF Reject
<1>3. CASE UnknownHandle  BY <1>3, AnswerInv DEF UnknownHandle, Errors
<1>4. CASE GetOne \/ GetAll \/ GetUptime
  BY <1>4, AnswerInv DEF GetOne, GetAll, GetUptime, Results
<1>5. CASE ObserveOnce \/ GetFile
  <2>1. CASE ObserveOnce
    <3>1. request.device \in DeviceAnswers
      BY <2>1, Served, RequestsAssumption DEF ObserveOnce, Valid, StoreInv
    <3>2. Relayed(request.device) \in {"json", "{}", "dropped"}
      BY <3>1, RelayedAre
    <3>3. QED  BY <2>1, <3>2, AnswerInv DEF ObserveOnce, Drop, Results
  <2>2. CASE GetFile  BY <2>2, AnswerInv DEF GetFile, Results
  <2>3. QED  BY <1>5, <2>1, <2>2
<1>6. QED  BY <1>1, <1>2, <1>3, <1>4, <1>5

\* A new session takes a free handle, so it spoils nothing a client was told.
LEMMA AddInv ==
    ASSUME StoreInv, NEW h \in Handles, NEW connects \in BOOLEAN, Add(h, connects)
    PROVE  StoreInv'
<1>1. TypeOK /\ Kept  BY DEF StoreInv
<1>2. Valid("/add-new-observable") /\ h \notin Live /\ Cardinality(Live) < MaxSessions
  BY DEF Add
<1>3. Observed(request.body) \in Observables  BY <1>1, <1>2, ValidFaults DEF Paths
<1>4. /\ Live' = Live \cup {h}
      /\ \A k \in Live' : store'[k] = IF k = h THEN Observed(request.body) ELSE store[k]
  BY DEF Add, Live
<1>5. Live' \subseteq Handles /\ Cardinality(Live') <= MaxSessions
  <2>1. IsFiniteSet(Handles)  BY FS_Interval, SessionsAssumption DEF Handles
  <2>2. IsFiniteSet(Live)  BY <1>1, <2>1, FS_Subset DEF TypeOK
  <2>3. Cardinality(Live') = Cardinality(Live) + 1  BY <1>2, <1>4, <2>2, FS_AddElement
  <2>4. Cardinality(Live) \in Nat  BY <2>2, FS_CardinalityType
  <2>5. QED  BY <1>1, <1>2, <1>4, <2>3, <2>4, SessionsAssumption DEF TypeOK
<1>6. /\ DOMAIN told' \subseteq DOMAIN told \cup {h}
      /\ \A k \in DOMAIN told' : told'[k] = IF k = h THEN store'[h] ELSE told[k]
      /\ \A k \in DOMAIN told : k # h
  <2>1. \A k \in DOMAIN told : k # h  BY <1>1, <1>2 DEF Kept
  <2>2. CASE connects  BY <2>1, <2>2 DEF Add
  <2>3. CASE ~connects  BY <2>1, <2>3 DEF Add
  <2>4. QED  BY <2>1, <2>2, <2>3
<1>7. Kept'  BY <1>1, <1>4, <1>6 DEF Kept
<1>8. request' = request /\ reply' \in {"success", "dropped"}  BY DEF Add
<1>9. TypeOK'
  <2>1. \A k \in Live' : store'[k] \in Observables  BY <1>1, <1>3, <1>4 DEF TypeOK
  <2>2. \A k \in DOMAIN told' : told'[k] \in Observables  BY <1>7, <2>1 DEF Kept
  <2>3. QED  BY <1>1, <1>5, <1>8, <2>1, <2>2 DEF TypeOK, Results
<1>10. QED  BY <1>7, <1>9 DEF StoreInv

\* The session and what clients were told of it change together.
LEMMA UpdateInv ==
    ASSUME StoreInv, Update
    PROVE  StoreInv'
<1>1. TypeOK /\ Kept  BY DEF StoreInv
<1> DEFINE h == request.handle
<1>2. request.body.param \in {"a", "b"}  BY <1>1, ValidFaults DEF Update, Paths
<1>3. h \in Live /\ store[h] \in Observables  BY <1>1 DEF Update, TypeOK
<1>4. /\ Live' = Live
      /\ \A k \in Live : store'[k] = IF k = h THEN [store[h] EXCEPT !.param = request.body.param]
                                              ELSE store[k]
  BY DEF Update, Live
<1>5. \A k \in Live : store'[k] \in Observables
  BY <1>1, <1>2, <1>3, <1>4 DEF TypeOK, Observables
<1>6. /\ DOMAIN told' = DOMAIN told
      /\ \A k \in DOMAIN told : told'[k] = IF k = h THEN store'[k] ELSE told[k]
  BY DEF Update
<1>7. Kept'  BY <1>1, <1>4, <1>6 DEF Kept
<1>8. request' = request /\ reply' = "success"  BY DEF Update
<1>9. \A k \in DOMAIN told' : told'[k] \in Observables  BY <1>4, <1>5, <1>7 DEF Kept
<1>10. TypeOK'  BY <1>1, <1>4, <1>5, <1>8, <1>9 DEF TypeOK, Results
<1>11. QED  BY <1>7, <1>10 DEF StoreInv

\* A handle that goes leaves nothing behind that a client was told.
LEMMA RemoveInv ==
    ASSUME StoreInv, Remove
    PROVE  StoreInv'
<1>1. TypeOK /\ Kept  BY DEF StoreInv
<1> DEFINE h == request.handle
<1>2. /\ Live' = Live \ {h} /\ \A k \in Live' : store'[k] = store[k]
      /\ DOMAIN told' = DOMAIN told \ {h} /\ \A k \in DOMAIN told' : told'[k] = told[k]
  BY DEF Remove, Live, Restrict
<1>3. Kept'  BY <1>1, <1>2 DEF Kept
<1>4. Cardinality(Live') <= MaxSessions
  <2>1. IsFiniteSet(Handles)  BY FS_Interval, SessionsAssumption DEF Handles
  <2>2. IsFiniteSet(Live)  BY <1>1, <2>1, FS_Subset DEF TypeOK
  <2>3. Live' \in SUBSET Live /\ Cardinality(Live') <= Cardinality(Live)
        /\ IsFiniteSet(Live')
    BY <1>2, <2>2, FS_Subset
  <2>4. Cardinality(Live) \in Nat /\ Cardinality(Live') \in Nat
    BY <2>2, <2>3, FS_CardinalityType
  <2>5. QED  BY <1>1, <2>3, <2>4, SessionsAssumption DEF TypeOK
<1>5. request' = request /\ reply' = "success"  BY DEF Remove
<1>6. TypeOK'  BY <1>1, <1>2, <1>4, <1>5 DEF TypeOK, Results
<1>7. QED  BY <1>3, <1>6 DEF StoreInv

\* Every step keeps sessions and answers in agreement.
LEMMA NextInv == StoreInv /\ [Next]_vars => StoreInv'
<1> SUFFICES ASSUME StoreInv, [Next]_vars PROVE StoreInv'  OBVIOUS
<1>1. CASE \E r \in Requests : Receive(r)
  BY <1>1 DEF Receive, StoreInv, TypeOK, Kept, Live
<1>2. CASE \/ Unmatched \/ HandleTooLong \/ Reject \/ UnknownHandle \/ AddFull
           \/ GetOne \/ GetAll \/ GetUptime \/ ObserveOnce \/ GetFile
  BY <1>2, AnswersInv
<1>3. CASE \E h \in Handles, connects \in BOOLEAN : Add(h, connects)
  BY <1>3, AddInv
<1>4. CASE Update  BY <1>4, UpdateInv
<1>5. CASE Remove  BY <1>5, RemoveInv
<1>6. CASE UNCHANGED vars
  BY <1>6 DEF vars, StoreInv, TypeOK, Kept, Live
<1>7. QED  BY <1>1, <1>2, <1>3, <1>4, <1>5, <1>6 DEF Next

\* Whatever clients send, for any capacity of the session manager: what one was
\* told last of its observable is what the session manager holds.
THEOREM StoreCorrect == Spec => []StoreInv
BY InitInv, NextInv, PTL DEF Spec

-----------------------------------------------------------------------------

\* What TrueAnswers and DroppedForCause say of one step.
Truth ==
    /\ reply' \in Errors => reply' \in Faults
    /\ reply' \in Results => Faults = {}
    /\ reply' \in Errors \/ request.method = "GET" => store' = store

Cause ==
    reply' = "dropped" =>
        \/ TooLong(request.handle)
        \/ request.path = "/observe-once" /\ Faults = {}
           /\ \/ request.body.device \in {"coap", "coaps"}
              \/ request.device \in {"scalar", "bad_length"}
        \/ FindResource(request) = "none"
        \/ request.path = "/add-new-observable" /\ Faults = {}
           /\ (store' # store \/ Cardinality(Live) = MaxSessions)

\* Requests that never get to a function of the API, or not past its handle.
LEMMA UnservedAnswers ==
    ASSUME TypeOK, Unmatched \/ HandleTooLong \/ GetFile
    PROVE  Truth /\ Cause
<1>1. CASE Unmatched
  BY <1>1 DEF Unmatched, Serving, Drop, Answer, Truth, Cause, Errors, Results
<1>2. CASE HandleTooLong
  BY <1>2 DEF HandleTooLong, Drop, Answer, Truth, Cause, Errors, Results
<1>3. CASE GetFile
  <2>1. FindResource(request) = "files"  BY <1>3 DEF GetFile, Serving
  <2>2. Faults = {}  BY <2>1 DEF Faults
  <2>3. QED  BY <1>3, <2>2 DEF GetFile, Answer, Truth, Cause, Errors
<1>4. QED  BY <1>1, <1>2, <1>3

\* Who is refused gets an error that the request deserves.
LEMMA RefusedAnswers ==
    ASSUME TypeOK, Reject \/ UnknownHandle
    PROVE  Truth /\ Cause
<1>1. CASE Reject
  <2>1. reply' \in Errors \cap Faults /\ store' = store
    BY <1>1, RejectFaults DEF Reject, Answer
  <2>2. QED  BY <2>1 DEF Truth, Cause, Errors, Results
<1>2. CASE UnknownHandle
  <2>1. "handle" \in Faults  BY <1>2, ValidFaults DEF UnknownHandle, Paths
  <2>2. reply' = "handle" /\ store' = store  BY <1>2 DEF UnknownHandle, Answer
  <2>3. QED  BY <2>1, <2>2 DEF Truth, Cause, Errors, Results
<1>3. QED  BY <1>1, <1>2

\* Requests that read succeed without a fault and change nothing.
LEMMA ReadingAnswers ==
    ASSUME TypeOK, GetOne \/ GetAll \/ GetUptime \/ ObserveOnce
    PROVE  Truth /\ Cause
<1>1. Faults = {} /\ store' = store
  <2>1. PICK p \in {"/get-iotdata/", "/get-iotdata", "/get-uptime", "/observe-once"} :
            /\ Valid(p)
            /\ p = "/get-iotdata/" => request.handle \in Live
    BY DEF GetOne, GetAll, GetUptime, ObserveOnce
  <2>2. Faults = {}  BY <2>1, ValidFaults DEF Paths
  <2>3. store' = store  BY DEF GetOne, GetAll, GetUptime, ObserveOnce, Drop, Answer
  <2>4. QED  BY <2>2, <2>3
<1>2. CASE ObserveOnce
  <2>1. Serving("/observe-once")  BY <1>2 DEF ObserveOnce, Valid
  <2>2. request.path = "/observe-once"  BY <2>1, PathOf DEF Paths
  <2>3. request.device \in DeviceAnswers  BY <2>1, Served, RequestsAssumption
  <2>4. CASE request.body.device \in {"coap", "coaps"}
    <3>1. reply' = "dropped" \/ reply' \in {"json", "{}", "dropped"}
      BY <1>2, <2>3, RelayedAre DEF ObserveOnce, Drop, Answer
    <3>2. QED  BY <1>1, <2>2, <2>4, <3>1 DEF Truth, Cause, Errors
  <2>5. CASE request.body.device \notin {"coap", "coaps"}
    <3>1. reply' = Relayed(request.device)  BY <1>2, <2>5 DEF ObserveOnce, Answer
    <3>2. QED  BY <1>1, <2>2, <2>3, <3>1, RelayedAre DEF Truth, Cause, Errors
  <2>6. QED  BY <2>4, <2>5
<1>3. CASE GetOne \/ GetAll \/ GetUptime
  BY <1>1, <1>3 DEF GetOne, GetAll, GetUptime, Answer, Truth, Cause, Errors
<1>4. QED  BY <1>2, <1>3

\* Requests that change sessions have no fault and are no GETs.
LEMMA ChangingAnswers ==
    ASSUME TypeOK,
           \/ \E h \in Handles, connects \in BOOLEAN : Add(h, connects)
           \/ AddFull \/ Update \/ Remove
    PROVE  Truth /\ Cause
<1>1. PICK p \in {"/add-new-observable", "/update-observable/", "/remove-observable/"} :
          /\ Valid(p)
          /\ p = "/add-new-observable" \/ request.handle \in Live
  BY DEF Add, AddFull, Update, Remove
<1>2. Faults = {}  BY <1>1, ValidFaults DEF Paths
<1>3. request.path = p /\ request.method = "POST"  BY <1>1, PathOf DEF Valid, Paths
<1>4. CASE Update \/ Remove
  BY <1>2, <1>3, <1>4 DEF Update, Remove, Truth, Cause, Errors
<1>5. CASE AddFull
  <2>1. p = "/add-new-observable"  BY <1>1, <1>3, <1>5, PathOf DEF AddFull, Valid, Paths
  <2>2. Cardinality(Live) = MaxSessions
    <3>1. IsFiniteSet(Handles)  BY FS_Interval, SessionsAssumption DEF Handles
    <3>2. Cardinality(Live) \in Nat  BY <3>1, FS_Subset, FS_CardinalityType DEF TypeOK
    <3>3. QED  BY <1>5, <3>2, SessionsAssumption DEF AddFull, TypeOK
  <2>3. QED  BY <1>2, <1>3, <1>5, <2>1, <2>2 DEF AddFull, Drop, Answer, Truth, Cause, Errors
<1>6. ASSUME NEW h \in Handles, NEW connects \in BOOLEAN, Add(h, connects)
      PROVE  Truth /\ Cause
  <2>1. p = "/add-new-observable"  BY <1>1, <1>3, <1>6, PathOf DEF Add, Valid, Paths
  <2>2. store' # store  BY <1>6 DEF Add, Live
  <2>3. reply' \in {"success", "dropped"}  BY <1>6 DEF Add
  <2>4. QED  BY <1>2, <1>3, <2>1, <2>2, <2>3 DEF Truth, Cause, Errors
<1>7. QED  BY <1>4, <1>5, <1>6

\* An answer comes from one of these; receiving a request answers nothing.
LEMMA AnswersTrue ==
    ASSUME StoreInv, [Next]_vars, Answered
    PROVE  Truth /\ Cause
<1>1. TypeOK  BY DEF StoreInv
<1>2. ~UNCHANGED vars  BY DEF Answered, vars
<1>3. ASSUME NEW r \in Requests PROVE ~Receive(r)  BY DEF Receive, Answered
<1>4. QED
  BY <1>1, <1>2, <1>3, UnservedAnswers, RefusedAnswers, ReadingAnswers, ChangingAnswers DEF Next

\* For any requests: an error names a fault the request has, a result is given
\* to requests without a fault, and errors and GETs change nothing.
THEOREM AnswersCorrect == Spec => TrueAnswers
<1>1. StoreInv /\ [Next]_vars => (Answered => Truth)  BY AnswersTrue
<1>2. QED  BY <1>1, StoreCorrect, PTL DEF Spec, TrueAnswers, Truth

\* For any requests: only the causes that DroppedForCause lists leave a client
\* without an answer.
THEOREM DropsCaused == Spec => DroppedForCause
<1>1. StoreInv /\ [Next]_vars => (Answered /\ reply' = "dropped" =>
          \/ TooLong(request.handle)
          \/ request.path = "/observe-once" /\ Faults = {}
             /\ \/ request.body.device \in {"coap", "coaps"}
                \/ request.device \in {"scalar", "bad_length"}
          \/ FindResource(request) = "none"
          \/ request.path = "/add-new-observable" /\ Faults = {}
             /\ (store' # store \/ Cardinality(Live) = MaxSessions))
  BY AnswersTrue DEF Cause
<1>2. QED  BY <1>1, StoreCorrect, PTL DEF Spec, DroppedForCause
==============================================================================
