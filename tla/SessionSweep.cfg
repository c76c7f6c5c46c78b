\* A sweep that keeps firing against starts and finalisations that may die at
\* any step.  No symmetry: fairness names the request slots.
SPECIFICATION RoutesFairSpec
CONSTANTS
    Reqs = {r1, r2}
    Ops = {"start", "finalize"}
    Mixes = {{"start", "finalize", "sweep", "partial"}}
    Utterances = {"question"}
    MaxTurns = 1
    MaxReopens = 0
    FirstStates = {"CONSENTED"}
PROPERTIES
   FinalisationNeverStrands
