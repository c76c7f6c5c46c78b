\* Two requests, copies of one or of two acts: a press, a review, a colleague's
\* review; two interviews, and a CV being read.
SPECIFICATION Spec
CONSTANTS
    press = press
    mine = mine
    theirs = theirs
    one = one
    two = two
    cv = cv
    first = first
    second = second
    Plans <- MCPlans
    Presses = {press}
    Reviews = {mine, theirs}
    Deliveries = {one, two}
    Uploads = {cv}
    Approved = {cv}
    Promised = {first, second}
    Interviews = {first, second}
    Verdicts <- MCVerdicts
    Retries = 2
SYMMETRY Copies
CHECK_DEADLOCK FALSE
INVARIANTS
    TypeOK
    PressMovesOnce
    VerdictCarried
    EventsLand
PROPERTIES
    KeepsTheJourney
    PromiseKept
    NoFalseRefusal
