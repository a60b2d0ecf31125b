SPECIFICATION Growth
CONSTANTS
    Tokens <- MCTokens
    MaxTokens <- MCMaxTokens
INVARIANTS
    NeverThrows
    TakenApart
    RoundTrip
    HeadEndIsBlankLine
CHECK_DEADLOCK FALSE
