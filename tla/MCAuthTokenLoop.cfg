\* TokenLoop feeding the cache; TokenFunc may fail; tokens live 70s or
\* 90s; two AuthToken callers and one AuthTokenNonBlocking caller.
CONSTANTS
    t1 = t1  t2 = t2  c1 = c1  c2 = c2  p1 = p1  u1 = u1  u2 = u2  i1 = i1
    IdReaders = {}
    IdentityOf <- MCIdentityOf
    Tokens = {t1, t2}
    Callers = {c1, c2}
    Peekers = {p1}
    Source = "loop"
    Lifetimes = {7, 9}
    MaxTime = 12
    MaxWrites = 0
    FetchFaults = TRUE
    ReadFaults = FALSE
    WatchFaults = FALSE
SPECIFICATION Spec
INVARIANT TypeOK
INVARIANT TokenNeverStale
CHECK_DEADLOCK FALSE
