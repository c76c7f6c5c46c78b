\* Every engine operation, two requests in flight at any time.
SPECIFICATION EngineSpec
CONSTANTS
    Reqs = {r1, r2}
    Ops = {"start", "answer", "turn", "leave", "continue", "finalize"}
    Utterances = {"question", "signoff", "handoff"}
    MaxTurns = 2
    FirstStates = {"ACCEPTED"}
SYMMETRY Slots
INVARIANTS
    TypeOK
    OneAssessment
    ReviewReadyIsComplete
    Alternates
    CreditedToQuestionOnScreen
    TranscriptBounded
    RequestExcludesScore
PROPERTY KeepsPromise
