\* One RemoveHost call, no store or stop faults: the spec's error surface
\* leaves no room for ErrNoNode while the host still exists.
CONSTANTS
    h1 = h1  h2 = h2  i1 = i1  i2 = i2  i3 = i3  r1 = r1  r2 = r2  r3 = r3
    Hosts = {h1}
    Instances = {i1}
    Removers = {r1}
    Target <- MCTargetOne
    StoreFaults = FALSE
    StopFaults = FALSE
    SchedulePendingRemoval = FALSE
SPECIFICATION Spec
INVARIANT NoNodeOnlyForVanishedHost
CHECK_DEADLOCK FALSE
