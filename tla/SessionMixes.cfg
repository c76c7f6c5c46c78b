\* Two requests in flight and three mixes of routes beside the engine: re-invites
\* and reopened handoffs; everything from the invitation to a retake; the routes
\* that write the link by id.  They are kept apart because a by-id write of the
\* first undoes what the second relies on.
SPECIFICATION RoutesSpec
CONSTANTS
    Reqs = {r1, r2}
    Ops = {"start", "turn", "finalize"}
    Mixes = {{"start", "turn", "invite", "reopen"},
             {"start", "turn", "finalize", "accept", "consent", "accommodate", "cancel", "retake"},
             {"start", "open", "accept", "consent", "resend"}}
    Utterances = {"question", "postponed", "handoff"}
    MaxTurns = 2
    MaxReopens = 1
    FirstStates = {"CONSENTED", "INVITED"}
SYMMETRY Slots
INVARIANTS
    RoutesTypeOK
    GreetedOncePerSitting
    OneSuccessor
PROPERTIES
    RetakeNeverScored
    LiveOnlyWithConsent
