---------------------------- MODULE MCWebServer -----------------------------
(* Connections and requests for checking WebServer with TLC.               *)
EXTENDS WebServer, TLC

CONSTANTS k1, k2

R(f, o, l) == [framing |-> f, outcome |-> o, last |-> l]

\* Every framing and every outcome but one; chunked content only in requests
\* that close the connection.
Mixed == {R("none", "answer", FALSE), R("length", "answer", FALSE), R("chunked", "answer", TRUE),
          R("length", "nothing", FALSE), R("none", "unmatched", FALSE),
          R("none", "malformed", FALSE), R("chunked", "bad_size", FALSE)}

\* The other client asks for what never returns.
MCRequests == k1 :> Mixed @@ k2 :> {R("none", "hangs", TRUE)}

MCMaxRequests == k1 :> 2 @@ k2 :> 1
==============================================================================
