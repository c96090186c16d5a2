CONSTANTS
    h1 = h1  h2 = h2  i1 = i1  s1 = s1
    Hosts = {h1, h2}
    Instances = {i1}
    Syncers = {s1}
    Desired <- MCDesired
    StoreFaults = TRUE
SPECIFICATION Spec
PROPERTY SyncNoRunningInstanceDeleted
CHECK_DEADLOCK FALSE
