\* TokenLoop with a TokenFunc whose tokens live 50 seconds, less than the
\* one-minute refresh margin.
CONSTANTS
    t1 = t1  t2 = t2  c1 = c1  c2 = c2  p1 = p1  u1 = u1  u2 = u2  i1 = i1
    IdReaders = {}
    IdentityOf <- MCIdentityOf
    Tokens = {t1}
    Callers = {c1}
    Peekers = {}
    Source = "loop"
    Lifetimes = {5}
    MaxTime = 3
    MaxWrites = 0
    FetchFaults = FALSE
    ReadFaults = FALSE
    WatchFaults = FALSE
SPECIFICATION Spec
PROPERTY RefreshSleeps
CHECK_DEADLOCK FALSE
