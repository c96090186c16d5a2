------------------------------ MODULE HostSync ------------------------------
(***************************************************************************)
(* SyncHosts of zzk/service/host.go (lines 61-68): a caller reconciles the *)
(* children of /hosts with the complete desired host list.  It wraps each  *)
(* host in a HostNode and hands zzk.Sync only the connection, the nodes    *)
(* and the path "/hosts".  HostNode (lines 30-59) offers GetID, Create     *)
(* (AddHost), Update (UpdateHost), Version and SetVersion, and no hook for *)
(* removal, so the generic routine, which is not in this repository and is *)
(* modelled from spec 4.2, can only delete an undesired child with the     *)
(* connection itself: a subtree delete of /hosts/<id>, instances included. *)
(* Instances run on hosts; nothing asks them to stop in this module.       *)
(***************************************************************************)
EXTENDS Naturals, FiniteSets

CONSTANTS
    Hosts, Instances,
    Syncers,                 \* concurrent SyncHosts calls
    Desired,                 \* Desired[s]: ids of the hosts list of call s
    StoreFaults              \* whether a store call may fail

VARIABLES
    hosts,                   \* children of /hosts
    inst,                    \* inst[h]: running instances under /hosts/<h>
    spc,                     \* control point of each SyncHosts call
    listed,                  \* children of /hosts as the call listed them
    todo,                    \* desired hosts not yet created or updated
    extra,                   \* listed, undesired hosts not yet deleted
    sresult                  \* error returned by each SyncHosts call

vars == <<hosts, inst, spc, listed, todo, extra, sresult>>

-----------------------------------------------------------------------------

\* return err from the sync pass
SyncFinish(s, err) ==
    /\ spc' = [spc EXCEPT ![s] = "done"]
    /\ sresult' = [sresult EXCEPT ![s] = err]

\* zzk.Sync lists the children of /hosts
SyncList(s) ==
    /\ spc[s] = "list"
    /\ \/ StoreFaults /\ SyncFinish(s, "ErrStore")
          /\ UNCHANGED <<listed, todo, extra>>
       \/ /\ listed' = [listed EXCEPT ![s] = hosts]
          /\ todo' = [todo EXCEPT ![s] = Desired[s]]
          /\ extra' = [extra EXCEPT ![s] = hosts \ Desired[s]]
          /\ spc' = [spc EXCEPT ![s] = "apply"]
          /\ UNCHANGED sresult
    /\ UNCHANGED <<hosts, inst>>

\* HostNode.Create -> AddHost: conn.Create of /hosts/<id>, which fails if
\* the node exists
AddHost(s, h) ==
    /\ h \notin listed[s]
    /\ \/ StoreFaults /\ SyncFinish(s, "ErrStore") /\ UNCHANGED hosts
       \/ h \in hosts /\ SyncFinish(s, "ErrNodeExists") /\ UNCHANGED hosts
       \/ h \notin hosts /\ hosts' = hosts \cup {h}
          /\ UNCHANGED <<spc, sresult>>

\* HostNode.Update -> UpdateHost: conn.Set of /hosts/<id>, which fails if
\* the node is gone
UpdateHost(s, h) ==
    /\ h \in listed[s]
    /\ \/ StoreFaults /\ SyncFinish(s, "ErrStore")
       \/ h \notin hosts /\ SyncFinish(s, "ErrNoNode")
       \/ h \in hosts /\ UNCHANGED <<spc, sresult>>
    /\ UNCHANGED hosts

\* one desired host: create it if it was not listed, else update it
SyncApply(s) ==
    /\ spc[s] = "apply"
    /\ \E h \in todo[s] :
          /\ AddHost(s, h) \/ UpdateHost(s, h)
          /\ todo' = [todo EXCEPT ![s] = @ \ {h}]
    /\ UNCHANGED <<inst, listed, extra>>

\* one listed, undesired host: the connection deletes /hosts/<id> and its
\* subtree; the node may already be gone, or the store may fail
SyncRemove(s) ==
    /\ spc[s] = "apply"
    /\ todo[s] = {}
    /\ \E h \in extra[s] :
          /\ extra' = [extra EXCEPT ![s] = @ \ {h}]
          /\ \/ StoreFaults /\ SyncFinish(s, "ErrStore")
                /\ UNCHANGED <<hosts, inst>>
             \/ /\ hosts' = hosts \ {h}
                /\ inst' = [inst EXCEPT ![h] = {}]
                /\ UNCHANGED <<spc, sresult>>
    /\ UNCHANGED <<listed, todo>>

\* every desired host written and every undesired one deleted
SyncDone(s) ==
    /\ spc[s] = "apply"
    /\ todo[s] = {} /\ extra[s] = {}
    /\ SyncFinish(s, "ok")
    /\ UNCHANGED <<hosts, inst, listed, todo, extra>>

\* SyncHosts(conn, hosts): zzk.Sync(conn, nodes, "/hosts")
SyncHosts(s) ==
    \/ SyncList(s) \/ SyncApply(s) \/ SyncRemove(s) \/ SyncDone(s)

\* the scheduler places an unused instance on a registered host
StartInstance(h, i) ==
    /\ h \in hosts
    /\ \A g \in Hosts : i \notin inst[g]
    /\ inst' = [inst EXCEPT ![h] = @ \cup {i}]
    /\ UNCHANGED <<hosts, spc, listed, todo, extra, sresult>>

-----------------------------------------------------------------------------

Init ==
    /\ hosts \in SUBSET Hosts
    /\ inst = [h \in Hosts |-> {}]
    /\ spc = [s \in Syncers |-> "list"]
    /\ listed = [s \in Syncers |-> {}]
    /\ todo = [s \in Syncers |-> {}]
    /\ extra = [s \in Syncers |-> {}]
    /\ sresult = [s \in Syncers |-> "none"]

Next ==
    \/ \E s \in Syncers : SyncHosts(s)
    \/ \E h \in Hosts, i \in Instances : StartInstance(h, i)

Spec == Init /\ [][Next]_vars

-----------------------------------------------------------------------------
(* Properties                                                              *)

\* Spec 4.2, step 4: a sync pass removes an undesired host "via the Host
\* Remover (4.3), not a raw delete", so it never deletes a host node while
\* instances still run under it.
SyncNoRunningInstanceDeleted ==
    [][\A h \in Hosts : (h \in hosts /\ h \notin hosts') => inst[h] = {}]_vars

=============================================================================
