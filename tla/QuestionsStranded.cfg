\* A finalisation that dies after its first state write, and the sweep.
SPECIFICATION RoutesFairSpec
CONSTANTS
    Reqs = {r1, r2}
    Ops = {"start", "finalize"}
    Mixes = {{"start", "finalize", "sweep", "partial"}}
    Utterances = {"question"}
    MaxTurns = 1
    MaxReopens = 0
    FirstStates = {"CONSENTED"}
PROPERTIES
   QuietQuestionsClosedOut
