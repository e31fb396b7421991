SPECIFICATION FairSpec
CONSTANTS
    TokenCap = 2
    RespCap = 2
    MaxTokens = 6
    Calls = {"stream", "unary"}
INVARIANTS PipelineIntact
PROPERTIES WorkerFreed HandlerEnds
