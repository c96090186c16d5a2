\* WatchTokenFile while another process writes the token file once; reads
\* and the watch registration never fail.
CONSTANTS
    t1 = t1  t2 = t2  c1 = c1  c2 = c2  p1 = p1  u1 = u1  u2 = u2  i1 = i1
    IdReaders = {}
    IdentityOf <- MCIdentityOf
    Tokens = {t1, t2}
    Callers = {c1}
    Peekers = {}
    Source = "file"
    Lifetimes = {7}
    MaxTime = 0
    MaxWrites = 1
    FetchFaults = FALSE
    ReadFaults = FALSE
    WatchFaults = FALSE
SPECIFICATION Spec
PROPERTY FileChangesLoaded
CHECK_DEADLOCK FALSE
