------------------------------ MODULE ServiceAPI ------------------------------
(***************************************************************************)
(* The service calls of cli/api/service.go, made by concurrent serviced    *)
(* CLI processes against the master.  Each API call is a sequence of RPCs  *)
(* (connectDAO and one DAO method per step); every RPC is atomic at the    *)
(* master and may fail.  Between two RPCs of one call, other clients'      *)
(* calls and instance exits change the master's store.                     *)
(*                                                                         *)
(* The master's store: the services with their names and endpoints, the   *)
(* running instance states of each service, snapshot history and the IP    *)
(* assigned to each service.  Service and state ids are never reused.      *)
(***************************************************************************)
EXTENDS Naturals, Sequences, SequencesExt

CONSTANTS
    Clients,      \* CLI processes, each making one API call
    Ids,          \* ids of the services the master starts with
    NewIds,       \* ids the master hands out to AddService
    Names, Ports, IPs,
    StateIds,     \* instance state ids the master can hand out
    InitStates,   \* state ids that may be running at the start
    Auto,         \* IPConfig.IPAddress == "": auto-assignment; also the ""
                  \* AssignIP returns when no address is assigned
    Calls,        \* the calls a client may make
    Faults        \* may connectDAO or an RPC fail?

ASSUME Faults \in BOOLEAN /\ Ids \cap NewIds = {} /\ InitStates \subseteq StateIds

AllIds == Ids \cup NewIds
None   == "none"
OK     == "nil"
Errors == {"ErrRPC", "ErrNoService", "ErrNotFound"}

\* a servicedefinition.ServiceEndpoint; the zero value has no port
Endpoint     == [port : Ports, purpose : {"local", "remote"}]
ZeroEndpoint == [port |-> None, purpose |-> None]

VARIABLES
    svcs,       \* the services the master holds
    name,       \* name[s]
    eps,        \* eps[s]: the Endpoints of service s
    states,     \* states[s]: the running instance states of s
    stUsed,     \* state ids ever handed out
    snaps,      \* snaps[s]: does s have snapshot history?
    addr,       \* addr[s]: the address assigned to s, or None
    used,       \* service ids ever handed out
    cpc,        \* control point of each client's call
    call,       \* the call each client makes
    ret,        \* the error it returned
    val,        \* the value it returned
    pending,    \* GetServiceState: listed services whose states are unread
    newId,      \* AddService: the id the master returned
    present0    \* history: was the state running when the services were listed?

store  == <<svcs, name, eps, states, stUsed, snaps, addr, used>>
client == <<cpc, call, ret, val, pending, newId, present0>>
vars   == <<store, client>>

AllStates == UNION {states[s] : s \in AllIds}

-----------------------------------------------------------------------------

\* return err (and what val holds) from the API call
Return(c, err) ==
    /\ ret' = [ret EXCEPT ![c] = err]
    /\ cpc' = [cpc EXCEPT ![c] = "done"]

\* connectDAO() or the RPC itself fails
Fail(c) == Faults /\ Return(c, "ErrRPC")

\* client.GetServices(&empty, &services)
GetServices == svcs

\* mutant: the second loop starts over at index 0 (i is not carried over)
EndpointsRestart(ol, or) ==
    [i \in 1..Len(ol) + Len(or) |->
        IF i <= Len(or) THEN [port |-> or[i], purpose |-> "remote"]
        ELSE IF i <= Len(ol) THEN [port |-> ol[i], purpose |-> "local"]
        ELSE ZeroEndpoint]

\* make([]ServiceEndpoint, len(local)+len(remote)); the local ports, in map
\* order ol, marked "local", then the remote ones, in map order or
Endpoints(ol, or) ==
    [i \in 1..Len(ol) + Len(or) |->
        IF i <= Len(ol) THEN [port |-> ol[i], purpose |-> "local"]
        ELSE [port |-> or[i - Len(ol)], purpose |-> "remote"]]

\* GetServicesByName: GetServices, then keep the services named name
GetServicesByName(c) ==
    /\ cpc[c] = "call" /\ call[c].op = "byName"
    /\ \/ Fail(c) /\ UNCHANGED val
       \/ /\ val' = [val EXCEPT ![c] = {s \in GetServices : name[s] = call[c].name}]
          /\ Return(c, OK)
    /\ UNCHANGED <<store, call, pending, newId, present0>>

\* GetServiceState: services, err := a.GetServices()
ListForState(c) ==
    /\ cpc[c] = "call" /\ call[c].op = "getState"
    /\ \/ Fail(c) /\ UNCHANGED <<pending, present0>>
       \/ /\ pending' = [pending EXCEPT ![c] = GetServices]
          /\ present0' = [present0 EXCEPT ![c] = call[c].sid \in AllStates]
          /\ cpc' = [cpc EXCEPT ![c] = "states"]
          /\ UNCHANGED ret
    /\ UNCHANGED <<store, call, val, newId>>

\* mutant: the not-found error is returned inside the loop
ReadStatesEarly(c) ==
    /\ cpc[c] = "states"
    /\ \/ pending[c] = {} /\ Return(c, "ErrNotFound") /\ UNCHANGED <<val, pending>>
       \/ \E s \in pending[c] :
             \/ Fail(c) /\ UNCHANGED <<val, pending>>
             \/ call[c].sid \in states[s] /\ Return(c, OK)
                /\ val' = [val EXCEPT ![c] = call[c].sid] /\ UNCHANGED pending
             \/ call[c].sid \notin states[s] /\ Return(c, "ErrNotFound")
                /\ UNCHANGED <<val, pending>>
    /\ UNCHANGED <<store, call, newId, present0>>

\* one iteration of the loop over the listed services:
\* getServiceStatesByServiceID(service.Id), then look for the state id;
\* after the last service: "unable to find state"
ReadStates(c) ==
    /\ cpc[c] = "states"
    /\ \/ pending[c] = {} /\ Return(c, "ErrNotFound") /\ UNCHANGED <<val, pending>>
       \/ \E s \in pending[c] :
             \/ Fail(c) /\ UNCHANGED <<val, pending>>
             \/ call[c].sid \in states[s] /\ Return(c, OK)
                /\ val' = [val EXCEPT ![c] = call[c].sid] /\ UNCHANGED pending
             \/ /\ call[c].sid \notin states[s]
                /\ pending' = [pending EXCEPT ![c] = @ \ {s}]
                /\ UNCHANGED <<cpc, ret, val>>
    /\ UNCHANGED <<store, call, newId, present0>>

\* AddService: connectDAO, build the endpoints, client.AddService(s, &id)
AddService(c) ==
    /\ cpc[c] = "call" /\ call[c].op = "add"
    /\ \/ Fail(c) /\ UNCHANGED <<store, newId>>
       \/ \E id \in NewIds \ used,
             ol \in SetToSeqs(call[c].local), or \in SetToSeqs(call[c].remote) :
             /\ svcs' = svcs \cup {id}
             /\ used' = used \cup {id}
             /\ name' = [name EXCEPT ![id] = call[c].name]
             /\ eps' = [eps EXCEPT ![id] = Endpoints(ol, or)]
             /\ newId' = [newId EXCEPT ![c] = id]
             /\ cpc' = [cpc EXCEPT ![c] = "get"]
             /\ UNCHANGED <<states, stUsed, snaps, addr, ret>>
    /\ UNCHANGED <<call, val, pending, present0>>

\* return a.GetService(id) after AddService or UpdateService
GetService(c) ==
    LET id == IF call[c].op = "add" THEN newId[c] ELSE call[c].id IN
    /\ cpc[c] = "get"
    /\ \/ Fail(c) /\ UNCHANGED val
       \/ id \notin svcs /\ Return(c, "ErrNoService") /\ UNCHANGED val
       \/ id \in svcs /\ val' = [val EXCEPT ![c] = id] /\ Return(c, OK)
    /\ UNCHANGED <<store, call, pending, newId, present0>>

\* mutant: the error of DeleteSnapshots is not checked
DeleteSnapshotsIgnoreError(c) ==
    /\ cpc[c] = "call" /\ call[c].op = "remove"
    /\ \/ Faults /\ UNCHANGED snaps
       \/ snaps' = [snaps EXCEPT ![call[c].id] = FALSE]
    /\ cpc' = [cpc EXCEPT ![c] = "remove"]
    /\ UNCHANGED <<svcs, name, eps, states, stUsed, addr, used, call, ret, val,
                   pending, newId, present0>>

\* RemoveService: connectDAO, then client.DeleteSnapshots(id)
DeleteSnapshots(c) ==
    /\ cpc[c] = "call" /\ call[c].op = "remove"
    /\ \/ Fail(c) /\ UNCHANGED snaps
       \/ /\ snaps' = [snaps EXCEPT ![call[c].id] = FALSE]
          /\ cpc' = [cpc EXCEPT ![c] = "remove"]
          /\ UNCHANGED ret
    /\ UNCHANGED <<svcs, name, eps, states, stUsed, addr, used, call, val,
                   pending, newId, present0>>

\* then client.RemoveService(id)
RemoveService(c) ==
    LET id == call[c].id IN
    /\ cpc[c] = "remove"
    /\ \/ Fail(c) /\ UNCHANGED store
       \/ id \notin svcs /\ Return(c, "ErrNoService") /\ UNCHANGED store
       \/ /\ id \in svcs
          /\ svcs' = svcs \ {id}
          /\ states' = [states EXCEPT ![id] = {}]
          /\ addr' = [addr EXCEPT ![id] = None]
          /\ Return(c, OK)
          /\ UNCHANGED <<name, eps, stUsed, snaps, used>>
    /\ UNCHANGED <<call, val, pending, newId, present0>>

\* UpdateService: decode the JSON, connectDAO, client.UpdateService(s); the
\* decoded service replaces the stored one, its endpoints included
UpdateService(c) ==
    LET id == call[c].id IN
    /\ cpc[c] = "call" /\ call[c].op = "update"
    /\ \/ Fail(c) /\ UNCHANGED <<name, eps>>
       \/ id \notin svcs /\ Return(c, "ErrNoService") /\ UNCHANGED <<name, eps>>
       \/ /\ id \in svcs
          /\ name' = [name EXCEPT ![id] = call[c].name]
          /\ eps' = [eps EXCEPT ![id] = call[c].eps]
          /\ cpc' = [cpc EXCEPT ![c] = "get"]
          /\ UNCHANGED ret
    /\ UNCHANGED <<svcs, states, stUsed, snaps, addr, used, call, val,
                   pending, newId, present0>>

\* StartService: connectDAO, client.StartService(id, &hostID)
StartService(c) ==
    LET id == call[c].id IN
    /\ cpc[c] = "call" /\ call[c].op = "start"
    /\ \/ Fail(c) /\ UNCHANGED <<states, stUsed>>
       \/ id \notin svcs /\ Return(c, "ErrNoService")
          /\ UNCHANGED <<states, stUsed>>
       \/ /\ id \in svcs
          /\ \E t \in StateIds \ stUsed :
                /\ states' = [states EXCEPT ![id] = @ \cup {t}]
                /\ stUsed' = stUsed \cup {t}
          /\ cpc' = [cpc EXCEPT ![c] = "host"]
          /\ UNCHANGED ret
    /\ UNCHANGED <<svcs, name, eps, snaps, addr, used, call, val, pending,
                   newId, present0>>

\* then return a.GetHost(hostID)
GetHost(c) ==
    /\ cpc[c] = "host"
    /\ Fail(c) \/ Return(c, OK)
    /\ UNCHANGED <<store, call, val, pending, newId, present0>>

\* StopService: connectDAO, client.StopService(id)
StopService(c) ==
    LET id == call[c].id IN
    /\ cpc[c] = "call" /\ call[c].op = "stop"
    /\ \/ Fail(c) /\ UNCHANGED states
       \/ id \notin svcs /\ Return(c, "ErrNoService") /\ UNCHANGED states
       \/ /\ id \in svcs
          /\ states' = [states EXCEPT ![id] = {}]
          /\ Return(c, OK)
    /\ UNCHANGED <<svcs, name, eps, stUsed, snaps, addr, used, call, val,
                   pending, newId, present0>>

\* AssignIP: connectDAO, client.AssignIPs(req) with AutoAssignment when the
\* requested address is ""; the master's assignment policy is not in this
\* repository, so the first assignment listed afterwards is the new address
\* or the one the service already had
AssignIPs(c) ==
    LET id == call[c].id IN
    /\ cpc[c] = "call" /\ call[c].op = "assign"
    /\ \/ Fail(c) /\ UNCHANGED addr
       \/ id \notin svcs /\ Return(c, "ErrNoService") /\ UNCHANGED addr
       \/ /\ id \in svcs
          /\ \E ip \in IF call[c].ip = Auto THEN IPs ELSE {call[c].ip} :
                addr' \in {[addr EXCEPT ![id] = a] : a \in {ip, addr[id]} \ {None}}
          /\ cpc' = [cpc EXCEPT ![c] = "addrs"]
          /\ UNCHANGED ret
    /\ UNCHANGED <<svcs, name, eps, states, stUsed, snaps, used, call, val,
                   pending, newId, present0>>

\* mutant: addresses[0] is read without the empty-list check
ReadAssignmentsNoCheck(c) ==
    /\ cpc[c] = "addrs"
    /\ \/ Fail(c) /\ UNCHANGED val
       \/ val' = [val EXCEPT ![c] = addr[call[c].id]] /\ Return(c, OK)
    /\ UNCHANGED <<store, call, pending, newId, present0>>

\* then client.GetServiceAddressAssignments(id); "" when there is none,
\* else addresses[0].IPAddr
ReadAssignments(c) ==
    /\ cpc[c] = "addrs"
    /\ \/ Fail(c) /\ UNCHANGED val
       \/ addr[call[c].id] = None /\ val' = [val EXCEPT ![c] = Auto]
          /\ Return(c, OK)
       \/ addr[call[c].id] # None /\ val' = [val EXCEPT ![c] = addr[call[c].id]]
          /\ Return(c, OK)
    /\ UNCHANGED <<store, call, pending, newId, present0>>

\* an instance of a service exits on its own
InstanceExit(s, t) ==
    /\ t \in states[s]
    /\ states' = [states EXCEPT ![s] = @ \ {t}]
    /\ UNCHANGED <<svcs, name, eps, stUsed, snaps, addr, used, client>>

-----------------------------------------------------------------------------

Init ==
    /\ svcs \in SUBSET Ids
    /\ name \in [AllIds -> Names]
    /\ eps = [s \in AllIds |-> <<>>]
    /\ states \in [AllIds -> SUBSET InitStates]
    /\ \A s \in AllIds : s \notin svcs => states[s] = {}
    /\ \A s, u \in AllIds : s # u => states[s] \cap states[u] = {}
    /\ stUsed = AllStates
    /\ snaps \in [AllIds -> BOOLEAN]
    /\ \A s \in AllIds : s \notin svcs => ~snaps[s]
    /\ addr = [s \in AllIds |-> None]
    /\ used = svcs
    /\ cpc = [c \in Clients |-> "call"]
    /\ call \in [Clients -> Calls]
    /\ ret = [c \in Clients |-> None]
    /\ val = [c \in Clients |-> None]
    /\ pending = [c \in Clients |-> {}]
    /\ newId = [c \in Clients |-> None]
    /\ present0 = [c \in Clients |-> FALSE]

Call(c) ==
    \/ GetServicesByName(c) \/ ListForState(c) \/ ReadStates(c)
    \/ AddService(c) \/ GetService(c) \/ DeleteSnapshots(c) \/ RemoveService(c)
    \/ UpdateService(c) \/ StartService(c) \/ GetHost(c) \/ StopService(c)
    \/ AssignIPs(c) \/ ReadAssignments(c)

Next ==
    \/ \E c \in Clients : Call(c)
    \/ \E s \in AllIds, t \in StateIds : InstanceExit(s, t)

Spec == Init /\ [][Next]_vars /\ \A c \in Clients : WF_vars(Call(c))

-----------------------------------------------------------------------------
(* Properties                                                              *)

\* Every variable has its type; a successful call returns a value of its
\* Go result type (AssignIP a string, never an index into an empty list).
TypeOK ==
    /\ svcs \subseteq AllIds /\ used \subseteq AllIds /\ stUsed \subseteq StateIds
    /\ eps \in [AllIds -> Seq(Endpoint \cup {ZeroEndpoint})]
    /\ addr \in [AllIds -> IPs \cup {None}]
    /\ cpc \in [Clients -> {"call", "states", "get", "remove", "host",
                            "addrs", "done"}]
    /\ ret \in [Clients -> Errors \cup {OK, None}]
    /\ \A c \in Clients : call[c].op = "assign" /\ ret[c] = OK =>
          val[c] \in IPs \cup {Auto}

\* GetServiceState is complete although it reads the services once and
\* their states one service at a time while other clients start, stop and
\* remove services: it answers "unable to find state" only for a state that
\* was not running at some point of the call.  (State ids are never reused,
\* so running when listed and when answering means running throughout.)
LookupComplete ==
    \A c \in Clients :
        (call[c].op = "getState" /\ cpc[c] = "done" /\ ret[c] = "ErrNotFound")
            => ~present0[c] \/ call[c].sid \notin AllStates

\* Reference definition of the endpoints AddService sends: every configured
\* local port marked "local", then every remote port marked "remote", each
\* exactly once, no zero-valued slot; map order within each group is free.
IsConfigured(e, L, R) ==
    /\ Len(e) = Cardinality(L) + Cardinality(R)
    /\ Range(e) = [port : L, purpose : {"local"}] \cup [port : R, purpose : {"remote"}]
    /\ \A i, j \in DOMAIN e :
          i < j => ~(e[i].purpose = "remote" /\ e[j].purpose = "local")

\* The service AddService created holds exactly the configured endpoints.
EndpointsAsConfigured ==
    \A c \in Clients :
        (call[c].op = "add" /\ newId[c] \in svcs)
            => IsConfigured(eps[newId[c]], call[c].local, call[c].remote)

\* RemoveService deletes the snapshot history before the service and
\* returns at the first failed RPC, so whatever fails, and whatever other
\* clients do in between, no service is gone while its history remains; a
\* failure between the two RPCs leaves a service without history instead.
NoOrphanHistory == \A s \in AllIds \ svcs : ~snaps[s]

=============================================================================
