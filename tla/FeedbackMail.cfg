\* The job and a person, a review and one that supersedes it.
SPECIFICATION FairSpec
CONSTANTS
    job = job
    press = press
    reviewer = reviewer
    Jobs = {job}
    Presses = {press}
    Reviewers = {reviewer}
    MaxReviews = 2
    SendTimeout = 1
    Grace = 1
    Stale = 5
    MaxPassAge = 1
    MaxAttempts = 2
    MaxGranted = 2
INVARIANTS
    TypeOK
    OneCopyInFlight
    ReviewedWordsOnly
    CopiesAskedFor
PROPERTIES
    LetterSettles
