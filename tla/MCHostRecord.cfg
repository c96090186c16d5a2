\* One agent: main with any of the argument lists, then Build with every
\* combination of ip, rpcport, poolid and ipAddrs, then refreshes while one
\* of the machine's cores, memory, kernel version and kernel release
\* changes; reading the machine may fail.
CONSTANTS
    hid = hid  hname = hname  pnet = pnet  ip1 = ip1  ip2 = ip2  ipx = ipx  v1 = v1
    HostID = hid
    HostName = hname
    PrivNet = pnet
    MachineIPs = {ip1, ip2}
    OtherIPs = {ipx}
    PoolArgs <- MCPoolArgs
    PortArgs <- MCPortArgs
    Atoi <- MCAtoi
    IPArgs <- MCIPArgs
    Hardware <- MCHardware
    ArgLists <- MCArgLists
    BuildVersion = v1
    Faults = TRUE
SPECIFICATION Spec
INVARIANT BuiltHostComplete
INVARIANT UpdateKeepsIdentity
INVARIANT UpdateDetectsChange
\* serviced exits after a failed Build
CHECK_DEADLOCK FALSE
