------------------------------ MODULE HostRecord ------------------------------
(***************************************************************************)
(* The host record of domain/host/host.go as a serviced agent builds and  *)
(* refreshes it, after main.go has run: Build fills a Host from the       *)
(* machine and the servicedversion variables main set, UpdateHostInfo     *)
(* later copies the machine's current hardware and software into it, and  *)
(* Equals compares two records.  The machine's hardware may change (more  *)
(* memory, a kernel upgrade) between two refreshes.                        *)
(*                                                                         *)
(* currentHost and getIPResources are not in this repository; they are    *)
(* modelled from the comments of Build: an empty ip means one of the       *)
(* machine's addresses, and an address that is not the machine's is an     *)
(* error.  Reading the machine may also fail (Faults).                     *)
(***************************************************************************)
EXTENDS DaemonConfig

CONSTANTS
    HostID, HostName, PrivNet,
    MachineIPs,     \* the machine's addresses
    OtherIPs,       \* addresses that are not the machine's
    PoolArgs,       \* poolid arguments (character sequences)
    PortArgs,       \* rpcport arguments
    Atoi,           \* strconv.Atoi on the numeric ones among PortArgs
    IPArgs,         \* the ipAddrs lists Build may be given
    Hardware,       \* the [cores, mem, kver, krel] the machine may have
    Faults          \* may currentHost fail in Build?

None    == "none"       \* the empty ip argument ""
NoHost  == [id |-> "none"]   \* no record yet
ZeroTime == 0           \* CreatedAt and UpdatedAt: Build leaves them zero
NoProfile == "profile"  \* the zero MonitorProfile Build leaves in place
TicksPerSecond == 2     \* time.Time resolution against Unix() seconds
Unix(t) == t \div TicksPerSecond

\* a HostIPResource; the interface and MAC are functions of the address
Resource == [host : {HostID}, ip : MachineIPs]

Host == [id : {HostID}, name : {HostName}, pool : PoolArgs,
         ip : MachineIPs \cup OtherIPs, port : Range(Atoi),
         cores : {h.cores : h \in Hardware}, mem : {h.mem : h \in Hardware},
         kver : {h.kver : h \in Hardware}, krel : {h.krel : h \in Hardware},
         privnet : {PrivNet}, ips : Seq(Resource),
         created : {ZeroTime}, updated : {ZeroTime},
         sd : {BuildVersion, Unset}, mp : {NoProfile}]

VARIABLES
    machine,    \* the machine's current hardware and kernel
    pc,         \* the agent: "main", "build", "up" or "failed"
    rec,        \* the host record
    built,      \* history: the record Build returned
    req,        \* history: the ipAddrs Build was given
    prev,       \* history: the record before the last UpdateHostInfo
    seen        \* history: the hardware that UpdateHostInfo read

vars == <<args, version, config, machine, pc, rec, built, req, prev, seen>>

HwOf(h) == [cores |-> h.cores, mem |-> h.mem, kver |-> h.kver, krel |-> h.krel]

-----------------------------------------------------------------------------

\* currentHost(ip, rpcPort, poolID): the machine as a Host
CurrentHost(ip, port, pool, addr) ==
    [id |-> HostID, name |-> HostName, pool |-> pool, ip |-> addr,
     port |-> port, cores |-> machine.cores, mem |-> machine.mem,
     kver |-> machine.kver, krel |-> machine.krel, privnet |-> PrivNet,
     ips |-> <<>>, created |-> ZeroTime, updated |-> ZeroTime, sd |-> version,
     mp |-> NoProfile]

\* mutant: UpdateHostInfo returns the fresh currentHost, not the copy
UpdateHostInfoFresh(h) == CurrentHost(h.ip, h.port, h.pool, h.ip)

\* mutant: UpdateHostInfo does not copy the kernel release
UpdateHostInfoNoKrel(h) ==
    [h EXCEPT !.mem = machine.mem, !.cores = machine.cores,
              !.kver = machine.kver, !.privnet = PrivNet, !.sd = version]

\* UpdateHostInfo(h) on the copy h: Memory, Cores, KernelRelease,
\* KernelVersion, PrivateNetwork and ServiceD from currentHost
UpdateHostInfo(h) ==
    [h EXCEPT !.mem = machine.mem, !.cores = machine.cores,
              !.krel = machine.krel, !.kver = machine.kver,
              !.privnet = PrivNet, !.sd = version]

\* (*Host).Equals: field by field, times at second resolution, IPs by
\* reflect.DeepEqual, ServiceD as a struct, the monitoring profile by its
\* own Equals; the VersionedEntity is not compared
Equals(a, b) ==
    /\ a.id = b.id /\ a.name = b.name /\ a.pool = b.pool /\ a.ip = b.ip
    /\ a.port = b.port /\ a.cores = b.cores /\ a.mem = b.mem
    /\ a.privnet = b.privnet /\ a.kver = b.kver /\ a.krel = b.krel
    /\ a.ips = b.ips
    /\ Unix(a.created) = Unix(b.created) /\ Unix(a.updated) = Unix(b.updated)
    /\ a.sd = b.sd /\ a.mp = b.mp

\* getIPResources(hostID, ipAddrs...)
IPResources(addrs) == [i \in DOMAIN addrs |-> [host |-> HostID, ip |-> addrs[i]]]

\* the errors of Build: strings.TrimSpace(poolid) == "", strconv.Atoi,
\* currentHost given an address that is not the machine's, getIPResources
\* given one
BuildError(ip, rpcport, poolid, ipAddrs) ==
    \/ TrimSpace(poolid) = <<>>
    \/ rpcport \notin DOMAIN Atoi
    \/ ip # None /\ ip \notin MachineIPs
    \/ \E i \in DOMAIN ipAddrs : ipAddrs[i] \notin MachineIPs

\* mutant: the host's own address is not used when no ipAddrs are given
DefaultIPsNone(ipAddrs, addr) == ipAddrs

\* if len(ipAddrs) == 0 { ipAddrs = append(ipAddrs, host.IPAddr) }
DefaultIPs(ipAddrs, addr) == IF ipAddrs = <<>> THEN <<addr>> ELSE ipAddrs

\* Build(ip, rpcport, poolid, ipAddrs...): returns on the first error (or a
\* failure of currentHost); else the host from currentHost with its IP
\* resources and ServiceD copied from servicedversion
Build(ip, rpcport, poolid, ipAddrs) ==
    /\ pc = "build"
    /\ \/ /\ BuildError(ip, rpcport, poolid, ipAddrs) \/ Faults
          /\ pc' = "failed" /\ UNCHANGED <<rec, built>>
       \/ /\ ~BuildError(ip, rpcport, poolid, ipAddrs)
          /\ \E addr \in IF ip = None THEN MachineIPs ELSE {ip} :
                LET h == [CurrentHost(ip, Atoi[rpcport], poolid, addr) EXCEPT
                            !.ips = IPResources(DefaultIPs(ipAddrs, addr)),
                            !.sd = version]
                IN rec' = h /\ built' = h
          /\ pc' = "up"
    /\ req' = ipAddrs
    /\ UNCHANGED <<args, version, config, machine, prev, seen>>

\* the agent refreshes its record (a failure of currentHost leaves it as
\* it is, a step that changes nothing)
Refresh ==
    /\ pc = "up"
    /\ rec' = UpdateHostInfo(rec)
    /\ prev' = rec
    /\ seen' = HwOf(machine)
    /\ UNCHANGED <<args, version, config, machine, pc, built, req>>

\* the machine's hardware or kernel changes
MachineChange ==
    /\ \E h \in Hardware \ {machine} : machine' = h
    /\ UNCHANGED <<args, version, config, pc, rec, built, req, prev, seen>>

-----------------------------------------------------------------------------

Init ==
    /\ args \in ArgLists
    /\ version = Unset
    /\ config = <<>>
    /\ machine \in Hardware
    /\ pc = "main"
    /\ rec = NoHost /\ built = NoHost /\ req = <<>> /\ prev = NoHost
    /\ seen = NoHost

\* main runs, then the agent builds its record
Start ==
    /\ pc = "main"
    /\ Main
    /\ pc' = "build"
    /\ UNCHANGED <<machine, rec, built, req, prev, seen>>

Next ==
    \/ Start
    \/ \E ip \in MachineIPs \cup OtherIPs \cup {None}, p \in PortArgs,
          pool \in PoolArgs, ips \in IPArgs : Build(ip, p, pool, ips)
    \/ Refresh
    \/ MachineChange

Spec == Init /\ [][Next]_vars

-----------------------------------------------------------------------------
(* Properties                                                              *)

\* A record Build returned carries the version main set and one IP
\* resource per requested address, or the host's own address when none was
\* requested, every one owned by the host.
BuiltHostComplete ==
    built # NoHost =>
        /\ built.sd = BuildVersion
        /\ {r.ip : r \in Range(built.ips)} =
               IF req = <<>> THEN {built.ip} ELSE Range(req)
        /\ \A i \in DOMAIN built.ips : built.ips[i].host = built.id

\* UpdateHostInfo "does not update pool or IP information": after any
\* number of refreshes the identity, pool, address, port and IP resources
\* are those Build returned.
UpdateKeepsIdentity ==
    rec # NoHost =>
        \A f \in {"id", "name", "pool", "ip", "port", "ips", "created", "updated", "mp"} :
            rec[f] = built[f]

\* A refresh is noticed exactly when the machine changed: Equals tells the
\* refreshed record from the one before it if and only if the hardware the
\* refresh read differs from the hardware in the old record.
UpdateDetectsChange ==
    prev # NoHost => (Equals(prev, rec) <=> HwOf(prev) = seen)

=============================================================================
