------------------------------ MODULE MCHttpApi ------------------------------
(* Requests for checking HttpApi with TLC: bodies with at most two faults. *)
EXTENDS HttpApi

Plain == [json |-> TRUE, device |-> "http", param |-> "a", names |-> "given", interval |-> "5"]

Bodies ==
    {[Plain EXCEPT !.device = d, !.param = p] :
        d \in {"http", "coap", "bad", "missing"}, p \in {"a", "b", "bad", "missing"}}
    \cup {[Plain EXCEPT !.names = n, !.interval = i] :
        n \in {"given", "missing"}, i \in {"5", "-1", "text", "missing"}}
    \cup {[Plain EXCEPT !.param = "bad", !.interval = "text"], [Plain EXCEPT !.param = "missing", !.json = FALSE]}

Sent(m, p, h, b, d) == [method |-> m, path |-> p, handle |-> h, body |-> b, device |-> d]

R(m, p, h, b) == Sent(m, p, h, b, "json")

WithHandle == {"/update-observable/", "/remove-observable/", "/get-iotdata/"}

MCRequests ==
    {R("POST", p, 0, b) : p \in {"/add-new-observable", "/observe-once"}, b \in Bodies}
    \cup {Sent("POST", "/observe-once", 0, [Plain EXCEPT !.device = d], a) :
             d \in {"https", "coaps"}, a \in DeviceAnswers}
    \cup {R("POST", "/update-observable/", h, b) : h \in {0, 1, 7, 9}, b \in Bodies}
    \cup {R(m, p, h, Plain) : m \in {"GET", "POST"}, p \in WithHandle, h \in {0, 1, 2, 7, 9}}
    \cup {R(m, p, 0, Plain) : m \in {"GET", "POST"}, p \in Paths \ WithHandle}
==============================================================================
