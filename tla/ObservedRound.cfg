SPECIFICATION FairSpec
CONSTANTS
    ann = ann
    bob = bob
    Candidate = candidate
    Staff <- MCStaff
    Panels <- MCPanels
    Requests = {one, two}
    MaxSegments = 2
INVARIANTS
    TypeOK
    ListeningMeansAgreed
    StatusKeepsStep
    QuotesOfWholeRecord
    NoQuotesOfWithdrawn
PROPERTIES
    NothingUnderANo
    ClosedForGood
    EndedSettles
CHECK_DEADLOCK FALSE
