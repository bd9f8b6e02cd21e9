\* Concurrent prepareRequest calls on one template request.
CONSTANTS
    Callers <- MCCallers
    Tokens <- MCTokens
    MaxCalls = 2
    MaxRefresh = 2
    NoToken = NoToken
    Missing = Missing
    TokenErr = TokenErr
SPECIFICATION Spec
INVARIANT TypeOK
INVARIANT SentWithOwnToken
INVARIANT BodyNeverReused
