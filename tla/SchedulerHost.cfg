SPECIFICATION FairSpec
CONSTANTS
    o1 = o1
    o2 = o2
    discovery = discovery
    drain = drain
    Owners = {o1, o2}
    NoOwner = none
    Jobs = {discovery, drain}
    Timetables <- MCTimetables
    StartupJobs = {drain}
    Discovery = discovery
    BufferDrain = drain
    OwnershipHeartbeat = 1
    HeartbeatTimeout = 1
    OwnershipLease = 3
    StartupLease = 4
    JobLease = 2
    MaxReply = 1
    Shutdowns = TRUE
    JobsWithinLease = TRUE
INVARIANTS DomainIsHeld JobsAreHeld
PROPERTIES DomainIsTakenOver HostStops
