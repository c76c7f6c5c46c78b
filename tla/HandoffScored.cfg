\* A handoff reply against a finalisation from another tab.
SPECIFICATION EngineSpec
CONSTANTS
    Reqs = {r1, r2}
    Ops = {"start", "answer", "finalize"}
    Utterances = {"question", "handoff"}
    MaxTurns = 2
    FirstStates = {"ACCEPTED"}
SYMMETRY Slots
PROPERTY HandoffNeverScored
