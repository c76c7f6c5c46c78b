\* Two processes, three runs, a lease of two ticks, statements up to one tick
\* late.
SPECIFICATION FairSpec
CONSTANTS
    i1 = i1
    i2 = i2
    r1 = r1
    r2 = r2
    r3 = r3
    Instances = {i1, i2}
    Runs = {r1, r2, r3}
    Home <- MCHome
    TTL = 2
    MaxLag = 1
INVARIANTS
    TypeOK
    OneBeliever
    BelieverHolds
PROPERTIES
    OwnershipKept
    NoForeignRelease
    JobKeepsRunning
