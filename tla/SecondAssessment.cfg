\* The sweep against a finalisation, then a partial assessment.
SPECIFICATION RoutesSpec
CONSTANTS
    Reqs = {r1, r2}
    Ops = {"start", "finalize"}
    Mixes = {{"start", "finalize", "sweep", "partial"}}
    Utterances = {"question"}
    MaxTurns = 1
    MaxReopens = 0
    FirstStates = {"CONSENTED"}
SYMMETRY Slots
INVARIANT OneAssessment
