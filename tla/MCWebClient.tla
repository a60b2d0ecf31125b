---------------------------- MODULE MCWebClient -----------------------------
(* Requests, connections and framings for checking WebClient with TLC.     *)
EXTENDS WebClient, TLC

CONSTANTS r1, r2, c1, c2, c3

TwoRequests == {r1, r2}
TwoConns == {c1, c2}
ThreeConns == {c1, c2, c3}

\* Every framing for one request, content of a given length for the other.
OneOfAll ==
    (r1 :> {"none", "length", "long", "eof", "chunked", "events", "malformed", "bad_length"})
    @@ (r2 :> {"length"})

\* One request, and all there is but the end of io_service::run.
OneRequest == {r1}
Answered == (r1 :> {"none", "length", "long", "eof", "chunked", "overlong", "events", "malformed"})

Symmetry == Permutations(ThreeConns)
==============================================================================
