\* Two polls in flight let a stale answer arrive after a fresher one.
CONSTANTS
    Absent = Absent
    MaxInFlight = 2
    FaultyCalls <- AsyncFaults
SPECIFICATION FairSpec
INVARIANT TypeOK
PROPERTY IconFollowsCE CountersCatchUp
