\* Two CLI processes, each making any one of the service calls, with
\* connectDAO and RPC failures, against a master holding service s1.
CONSTANTS
    c1 = c1  c2 = c2  s1 = s1  s2 = s2  s3 = s3  n1 = n1  n2 = n2
    p1 = p1  p2 = p2  p3 = p3  t1 = t1  t2 = t2  t3 = t3
    ip1 = ip1  ip2 = ip2  auto = auto
    Clients = {c1, c2}
    Ids = {s1}
    NewIds = {s2, s3}
    Names = {n1, n2}
    Ports = {p1, p2, p3}
    IPs = {ip1, ip2}
    Auto = auto
    StateIds = {t1, t2, t3}
    InitStates = {t1}
    Calls <- MCCalls
    Faults = TRUE
SPECIFICATION Spec
INVARIANT TypeOK
INVARIANT LookupComplete
INVARIANT EndpointsAsConfigured
INVARIANT NoOrphanHistory
\* every CLI process makes one call and exits
CHECK_DEADLOCK FALSE
