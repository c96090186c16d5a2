\* WatchTokenFile while another process rewrites the token file once;
\* reads never fail; one AuthTokenNonBlocking caller.
CONSTANTS
    t1 = t1  t2 = t2  c1 = c1  c2 = c2  p1 = p1  u1 = u1  u2 = u2  i1 = i1
    IdReaders = {}
    IdentityOf <- MCIdentityOf
    Tokens = {t1, t2}
    Callers = {c1}
    Peekers = {p1}
    Source = "file"
    Lifetimes = {7}
    MaxTime = 0
    MaxWrites = 1
    FetchFaults = FALSE
    ReadFaults = FALSE
    WatchFaults = FALSE
SPECIFICATION Spec
INVARIANT NonBlockingTokenOrError
CHECK_DEADLOCK FALSE
