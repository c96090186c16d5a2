\* Two concurrent RemoveHost calls on h1 with store and stop faults,
\* cancellation, instance placement until the calls list the instances.
CONSTANTS
    h1 = h1  h2 = h2  i1 = i1  i2 = i2  i3 = i3  r1 = r1  r2 = r2  r3 = r3
    Hosts = {h1, h2}
    Instances = {i1, i2, i3}
    Removers = {r1, r2}
    Target <- MCTargetOne
    StoreFaults = TRUE
    StopFaults = TRUE
    SchedulePendingRemoval = FALSE
SPECIFICATION Spec
INVARIANT NoWatchLeak
PROPERTY NoRunningInstanceDeleted
PROPERTY Termination
\* and every behaviour is one of the abstract HostRemoveSpec
PROPERTY ImplementsSpec
CHECK_DEADLOCK FALSE
