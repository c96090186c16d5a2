\* Two `serviced key` processes, each running one `key list` or `key reset`
\* of its own host (with or without its own --key-file and --register, or without the
\* HostID argument); every driver call, filepath.Abs and the write may fail.
CONSTANTS
    a1 = a1  a2 = a2  h1 = h1  h2 = h2  ip1 = ip1  ip2 = ip2  kf1 = kf1  kf2 = kf2
    Clis = {a1, a2}
    Hosts = {h1, h2}
    HostIP <- MCHostIP
    Cmds <- MCCmdsPass
    Faults = TRUE
SPECIFICATION Spec
INVARIANT KeyDelivered
\* every CLI process runs one command and exits
CHECK_DEADLOCK FALSE
