---------------------------- MODULE MCHttpParsing ----------------------------
(* Tokens for checking HttpParsing with TLC: short texts in which every    *)
(* character that a parser looks at can follow every other.                *)
EXTENDS HttpParsing, TLC

a == <<97>>
b == <<98>>

MCTokens ==
    "percent" :> {a, <<Percent>>, <<Plus>>, <<SP>>, <<53>>, <<66>>, <<255>>}
    @@ "query" :> {a, b, <<Equal>>, <<Amp>>, <<Percent>>, <<50, 54>>}
    @@ "header" :> {a, <<Colon>>, <<SP>>, <<CR>>, <<CR, LF>>, <<LF>>}
    @@ "request" :> {a, <<SP>>, <<Question>>, HTTP, <<Slash>>, <<CR, LF>>}
    @@ "status" :> {a, HTTP \o <<Slash>>, <<SP>>, <<50, 48, 48>>, <<CR, LF>>}
    @@ "attributes" :> {a, b, <<Equal>>, <<Semicolon>>, <<SP>>, <<Quote>>}
    @@ "end" :> {a, <<CR>>, <<LF>>}

MCMaxTokens ==
    "percent" :> 4 @@ "query" :> 6 @@ "header" :> 6 @@ "request" :> 7
    @@ "status" :> 6 @@ "attributes" :> 6 @@ "end" :> 8
==============================================================================
