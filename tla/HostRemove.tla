----------------------------- MODULE HostRemove -----------------------------
(***************************************************************************)
(* RemoveHost of zzk/service/host.go (lines 82-123), run by any number of  *)
(* concurrent callers, against the coordination store's /hosts subtree,    *)
(* the instance agents that stop instances and delete their nodes, the     *)
(* scheduler that places new instances on hosts, the one-shot children     *)
(* watches of ChildrenW, and each caller's cancel channel.                 *)
(*                                                                         *)
(* Store state: hosts is the set of ids with a node /hosts/<id>;           *)
(* instDir[h] says whether /hosts/<h>/instances exists; inst[h] is its set *)
(* of children.  A watch is a pair <<r, g>>: the goroutine ChildrenW       *)
(* started for caller r on its g-th stop channel.  It is live until the    *)
(* watched node changes (it moves to fired, i.e. its event is ready on ev) *)
(* or until r closes that stop channel.                                    *)
(***************************************************************************)
EXTENDS Naturals, FiniteSets

CONSTANTS
    Hosts,                   \* host ids
    Instances,               \* instance (service state) ids
    Removers,                \* concurrent RemoveHost calls
    Target,                  \* target[r]: the hostID argument of call r
    StoreFaults,             \* may a store call fail (connectivity)?
    StopFaults,              \* may StopServiceInstance fail?
    SchedulePendingRemoval   \* may instances be placed on a host whose
                             \* removal has already listed its instances?

ASSUME {StoreFaults, StopFaults, SchedulePendingRemoval} \subseteq BOOLEAN

VARIABLES
    hosts, instDir, inst,    \* the coordination store
    used, stopReq,           \* instance ids ever placed; stop requests issued
    target,                  \* per call: the hostID argument
    pc, toStop, gen,         \* per call: control point, ch left to stop,
                             \* generation of its current stop channel
    liveW, firedW,           \* watch goroutines alive / with event ready
    cancelled, result        \* per call: cancel closed; returned error

store    == <<hosts, instDir, inst>>
agents   == <<used, stopReq>>
watches  == <<liveW, firedW>>
vars     == <<hosts, instDir, inst, used, stopReq, target, pc, toStop, gen,
              liveW, firedW, cancelled, result>>

-----------------------------------------------------------------------------
(* Helpers                                                                 *)

\* return err from RemoveHost
Finish(r, err) ==
    /\ pc' = [pc EXCEPT ![r] = "done"]
    /\ result' = [result EXCEPT ![r] = err]

\* mutant: `defer close(stop)` evaluates stop at the defer statement and so
\* closes the first generation's channel at return
DeferredCloseFirst(r) == liveW' = liveW \ {<<r, 0>>}

\* defer func() { close(stop) }(): the closure reads stop when it runs, so
\* it retires the watch of the current generation.
DeferredClose(r) == liveW' = liveW \ {<<r, gen[r]>>}

\* a change under /hosts/<h>/instances fires every watch set on it
FireWatches(h) ==
    LET W == {w \in liveW : target[w[1]] = h}
    IN  /\ liveW' = liveW \ W
        /\ firedW' = firedW \cup W

\* calls of RemoveHost that have read the instance list and not returned
Draining == {r \in Removers : pc[r] \in {"stopping", "watch", "wait", "delete"}}

\* the scheduler places no instance on a host whose removal has read its
\* instance list and is still running, unless SchedulePendingRemoval
MaySchedule(h) ==
    \/ SchedulePendingRemoval
    \/ \A r \in Draining : target[r] # h

-----------------------------------------------------------------------------
(* RemoveHost(cancel, conn, hostID)                                        *)

\* conn.Exists(hpth): an absent host is a no-op success
Exists(r) ==
    /\ pc[r] = "exists"
    /\ \/ StoreFaults /\ Finish(r, "ErrStore")
       \/ target[r] \notin hosts /\ Finish(r, "ok")
       \/ /\ target[r] \in hosts
          /\ pc' = [pc EXCEPT ![r] = "list"]
          /\ UNCHANGED result
    /\ UNCHANGED <<target, store, agents, toStop, gen, watches, cancelled>>

\* conn.Children(instances); client.ErrNoNode reads as an empty list
ListInstances(r) ==
    /\ pc[r] = "list"
    /\ \/ StoreFaults /\ Finish(r, "ErrStore") /\ UNCHANGED toStop
       \/ /\ toStop' = [toStop EXCEPT ![r] = inst[target[r]]]
          /\ pc' = [pc EXCEPT ![r] = "stopping"]
          /\ UNCHANGED result
    /\ UNCHANGED <<target, store, agents, gen, watches, cancelled>>

\* mutant: an off-by-one in the stop loop skips the last instance listed
StopInstanceSkipLast(r) ==
    /\ pc[r] = "stopping"
    /\ \E i \in toStop[r] :
          \/ StopFaults /\ Finish(r, "ErrStop") /\ UNCHANGED <<stopReq, toStop>>
          \/ /\ stopReq' = IF toStop[r] = {i} THEN stopReq ELSE stopReq \cup {i}
             /\ toStop' = [toStop EXCEPT ![r] = @ \ {i}]
             /\ UNCHANGED <<pc, result>>
    /\ UNCHANGED <<target, store, used, gen, watches, cancelled>>

\* one iteration of: for _, stateID := range ch { StopServiceInstance(...) }
StopInstance(r) ==
    /\ pc[r] = "stopping"
    /\ \E i \in toStop[r] :
          \/ StopFaults /\ Finish(r, "ErrStop") /\ UNCHANGED <<stopReq, toStop>>
          \/ /\ stopReq' = stopReq \cup {i}
             /\ toStop' = [toStop EXCEPT ![r] = @ \ {i}]
             /\ UNCHANGED <<pc, result>>
    /\ UNCHANGED <<target, store, used, gen, watches, cancelled>>

\* mutant: the drain loop breaks without looking at the children it read
ChildrenWNoDrainCheck(r) ==
    LET h == target[r] IN
    /\ \/ pc[r] = "stopping" /\ toStop[r] = {}
       \/ pc[r] = "watch"
    /\ \/ StoreFaults /\ Finish(r, "ErrStore") /\ DeferredClose(r)
       \/ ~instDir[h] /\ Finish(r, "ErrNoNode") /\ DeferredClose(r)
       \/ /\ instDir[h]
          /\ liveW' = liveW \cup {<<r, gen[r]>>}
          /\ pc' = [pc EXCEPT ![r] = "delete"]
          /\ UNCHANGED result
    /\ UNCHANGED <<target, store, agents, toStop, gen, firedW, cancelled>>

\* conn.ChildrenW(instances, stop), then `if len(ch) == 0 { break }`.
\* Reading the children and setting the watch is one store operation.
ChildrenW(r) ==
    LET h == target[r] IN
    /\ \/ pc[r] = "stopping" /\ toStop[r] = {}
       \/ pc[r] = "watch"
    /\ \/ StoreFaults /\ Finish(r, "ErrStore") /\ DeferredClose(r)
       \/ ~instDir[h] /\ Finish(r, "ErrNoNode") /\ DeferredClose(r)
       \/ /\ instDir[h]
          /\ liveW' = liveW \cup {<<r, gen[r]>>}
          /\ pc' = [pc EXCEPT ![r] = IF inst[h] = {} THEN "delete" ELSE "wait"]
          /\ UNCHANGED result
    /\ UNCHANGED <<target, store, agents, toStop, gen, firedW, cancelled>>

\* select case <-ev, then close(stop); stop = make(chan struct{})
WaitEvent(r) ==
    /\ pc[r] = "wait"
    /\ <<r, gen[r]>> \in firedW
    /\ firedW' = firedW \ {<<r, gen[r]>>}
    /\ liveW' = liveW \ {<<r, gen[r]>>}
    /\ gen' = [gen EXCEPT ![r] = @ + 1]
    /\ pc' = [pc EXCEPT ![r] = "watch"]
    /\ UNCHANGED <<target, store, agents, toStop, cancelled, result>>

\* mutant: shutdown is reported as a clean return
WaitCancelNil(r) ==
    /\ pc[r] = "wait"
    /\ cancelled[r]
    /\ Finish(r, "ok")
    /\ DeferredClose(r)
    /\ UNCHANGED <<target, store, agents, toStop, gen, firedW, cancelled>>

\* select case <-cancel: return ErrShutdown
WaitCancel(r) ==
    /\ pc[r] = "wait"
    /\ cancelled[r]
    /\ Finish(r, "ErrShutdown")
    /\ DeferredClose(r)
    /\ UNCHANGED <<target, store, agents, toStop, gen, firedW, cancelled>>

\* return conn.Delete(hpth); the client deletes the subtree
Delete(r) ==
    LET h == target[r] IN
    /\ pc[r] = "delete"
    /\ \/ StoreFaults /\ Finish(r, "ErrStore") /\ DeferredClose(r)
          /\ UNCHANGED <<store, firedW>>
       \/ h \notin hosts /\ Finish(r, "ErrNoNode") /\ DeferredClose(r)
          /\ UNCHANGED <<store, firedW>>
       \/ /\ h \in hosts
          /\ hosts' = hosts \ {h}
          /\ instDir' = [instDir EXCEPT ![h] = FALSE]
          /\ inst' = [inst EXCEPT ![h] = {}]
          /\ Finish(r, "ok")
          /\ firedW' = firedW \cup {w \in liveW : target[w[1]] = h}
          /\ liveW' = {w \in liveW : target[w[1]] # h}
    /\ UNCHANGED <<target, agents, toStop, gen, cancelled>>

\* the caller closes the cancel channel
Cancel(r) ==
    /\ pc[r] # "done"
    /\ ~cancelled[r]
    /\ cancelled' = [cancelled EXCEPT ![r] = TRUE]
    /\ UNCHANGED <<target, store, agents, pc, toStop, gen, watches, result>>

-----------------------------------------------------------------------------
(* The environment: scheduler and instance agents                          *)

\* an instance node is created under /hosts/<h>/instances (parents made)
StartInstance(h, i) ==
    /\ h \in hosts
    /\ i \notin used
    /\ MaySchedule(h)
    /\ used' = used \cup {i}
    /\ instDir' = [instDir EXCEPT ![h] = TRUE]
    /\ inst' = [inst EXCEPT ![h] = @ \cup {i}]
    /\ FireWatches(h)
    /\ UNCHANGED <<target, hosts, stopReq, pc, toStop, gen, cancelled, result>>

\* the host agent stops a stop-requested instance and deletes its node
InstanceExit(h, i) ==
    /\ i \in inst[h] \cap stopReq
    /\ inst' = [inst EXCEPT ![h] = @ \ {i}]
    /\ FireWatches(h)
    /\ UNCHANGED <<target, hosts, instDir, agents, pc, toStop, gen, cancelled, result>>

-----------------------------------------------------------------------------

Init ==
    /\ hosts \in SUBSET Hosts
    /\ \E loc \in [Instances -> Hosts \cup {"none"}] :
          /\ \A i \in Instances : loc[i] # "none" => loc[i] \in hosts
          /\ inst = [h \in Hosts |-> {i \in Instances : loc[i] = h}]
          /\ used = {i \in Instances : loc[i] # "none"}
    /\ instDir \in [Hosts -> BOOLEAN]
    /\ \A h \in Hosts : inst[h] # {} => instDir[h]
    /\ \A h \in Hosts : h \notin hosts => ~instDir[h]
    /\ stopReq = {}
    /\ target = Target
    /\ pc = [r \in Removers |-> "exists"]
    /\ toStop = [r \in Removers |-> {}]
    /\ gen = [r \in Removers |-> 0]
    /\ liveW = {}
    /\ firedW = {}
    /\ cancelled = [r \in Removers |-> FALSE]
    /\ result = [r \in Removers |-> "none"]

RemoveHost(r) ==
    \/ Exists(r) \/ ListInstances(r) \/ StopInstance(r) \/ ChildrenW(r)
    \/ WaitEvent(r) \/ WaitCancel(r) \/ Delete(r)

Next ==
    \/ \E r \in Removers : RemoveHost(r) \/ Cancel(r)
    \/ \E h \in Hosts, i \in Instances : StartInstance(h, i) \/ InstanceExit(h, i)

\* Each call's goroutine keeps running; the host agent acts on every stop
\* request it sees (the contract of StopServiceInstance).  Cancellation and
\* new placements are the environment's choice and get no fairness.
Fairness ==
    /\ \A r \in Removers : WF_vars(RemoveHost(r))
    /\ \A h \in Hosts, i \in Instances : WF_vars(InstanceExit(h, i))

Spec == Init /\ [][Next]_vars /\ Fairness

-----------------------------------------------------------------------------
(* Properties                                                              *)

\* Drain before delete: no step of any caller removes a host node while an
\* instance is still running under it.  The emptiness RemoveHost acts on was
\* observed by ChildrenW before the delete; stop requests, agent exits and
\* other callers' deletes interleave in between.
NoRunningInstanceDeleted ==
    [][\A h \in Hosts : (h \in hosts /\ h \notin hosts') => inst[h] = {}]_vars

\* Watch retirement: once RemoveHost has returned, on any path, no watch
\* goroutine it started is still alive (the deferred close(stop) reaches
\* the stop channel of the last loop iteration, not the first).
NoWatchLeak ==
    \A r \in Removers : pc[r] = "done" => \A g \in 0..gen[r] : <<r, g>> \notin liveW

\* Every RemoveHost call returns: its stop requests make the agents drain
\* the host, and each drain step wakes the drain loop through a fresh watch.
Termination == \A r \in Removers : <>(pc[r] = "done")

\* The error surface of RemoveHost (spec 4.3, 6, 7): a missing instances
\* node is an empty list, not an error; a call returns ErrNoNode only when
\* the host itself vanished under it.
NoNodeOnlyForVanishedHost ==
    \A r \in Removers : result[r] = "ErrNoNode" => target[r] \notin hosts

\* RemoveHost implements HostRemoveSpec: every return is one of its steps
\* (absent host, deletion of a drained host, shutdown after cancel, or an
\* error that leaves the host) and every call returns.
Abstract == INSTANCE HostRemoveSpec
                WITH returned <- {r \in Removers : pc[r] = "done"}
ImplementsSpec == Abstract!Spec

=============================================================================
