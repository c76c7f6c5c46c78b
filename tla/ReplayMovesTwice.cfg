\* A review sent twice, for a candidate who stands before the AI round.
SPECIFICATION Spec
CONSTANTS
    press = press
    mine = mine
    theirs = theirs
    one = one
    two = two
    cv = cv
    first = first
    second = second
    Plans <- MCPlans
    Presses = {press}
    Reviews = {mine, theirs}
    Deliveries = {one, two}
    Uploads = {cv}
    Approved = {cv}
    Promised = {first, second}
    Interviews = {first, second}
    Verdicts <- MCVerdicts
    Retries = 2
SYMMETRY Copies
CHECK_DEADLOCK FALSE
INVARIANTS
    OneVerdictOneStage
