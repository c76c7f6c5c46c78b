SPECIFICATION Spec
CONSTANTS
    ann = ann
    bob = bob
    Candidate = candidate
    Staff <- MCStaff
    Panels <- MCPanels
    Requests = {one, two}
    MaxSegments = 1
PROPERTIES
    ListeningReachedOnYes
CHECK_DEADLOCK FALSE
