\* WatchTokenFile feeding the cache while another process rewrites the
\* token file twice; two AuthToken callers.
CONSTANTS
    t1 = t1  t2 = t2  c1 = c1  c2 = c2  p1 = p1  u1 = u1  u2 = u2  i1 = i1
    IdReaders = {i1}
    IdentityOf <- MCIdentityOf
    Tokens = {t1, t2}
    Callers = {c1, c2}
    Peekers = {p1}
    Source = "file"
    Lifetimes = {7}
    MaxTime = 0
    MaxWrites = 2
    FetchFaults = FALSE
    ReadFaults = FALSE
    WatchFaults = TRUE
SPECIFICATION Spec
INVARIANT AuthTokenNonEmpty
PROPERTY CallersReturnOnceWritten
CHECK_DEADLOCK FALSE
