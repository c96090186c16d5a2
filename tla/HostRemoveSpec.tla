--------------------------- MODULE HostRemoveSpec ---------------------------
(***************************************************************************)
(* What RemoveHost promises its callers (spec 4.3 and 7), with every call  *)
(* a single step: it returns nil because the host was absent, or returns   *)
(* nil having deleted the host at an instant when no instance ran on it,   *)
(* or returns ErrShutdown only after its cancel channel closed, or fails   *)
(* with a store or stop error leaving the host node in place.  Instances   *)
(* are placed on existing hosts and exit at any time.                      *)
(***************************************************************************)
EXTENDS FiniteSets

CONSTANTS Hosts, Instances, Removers, Target

VARIABLES hosts, inst, returned, result, cancelled

vars == <<hosts, inst, returned, result, cancelled>>

Errors == {"ErrStore", "ErrNoNode", "ErrStop"}

Return(r, err) ==
    /\ returned' = returned \cup {r}
    /\ result' = [result EXCEPT ![r] = err]

Init ==
    /\ hosts \in SUBSET Hosts
    /\ inst \in [Hosts -> SUBSET Instances]
    /\ \A h \in Hosts : inst[h] # {} => h \in hosts
    /\ returned = {}
    /\ result = [r \in Removers |-> "none"]
    /\ cancelled = [r \in Removers |-> FALSE]

\* removal of an absent host is a no-op success
RemoveAbsent(r) ==
    /\ r \notin returned
    /\ Target[r] \notin hosts
    /\ Return(r, "ok")
    /\ UNCHANGED <<hosts, inst, cancelled>>

\* the host is deleted when it has no running instance
RemoveDrained(r) ==
    /\ r \notin returned
    /\ Target[r] \in hosts
    /\ inst[Target[r]] = {}
    /\ hosts' = hosts \ {Target[r]}
    /\ Return(r, "ok")
    /\ UNCHANGED <<inst, cancelled>>

\* the shutdown error is reserved for cancellation
RemoveShutdown(r) ==
    /\ r \notin returned
    /\ cancelled[r]
    /\ Return(r, "ErrShutdown")
    /\ UNCHANGED <<hosts, inst, cancelled>>

\* any other failure leaves the host node as it is
RemoveFail(r) ==
    /\ r \notin returned
    /\ \E err \in Errors : Return(r, err)
    /\ UNCHANGED <<hosts, inst, cancelled>>

Cancel(r) ==
    /\ r \notin returned
    /\ ~cancelled[r]
    /\ cancelled' = [cancelled EXCEPT ![r] = TRUE]
    /\ UNCHANGED <<hosts, inst, returned, result>>

Place(h, i) ==
    /\ h \in hosts
    /\ \A g \in Hosts : i \notin inst[g]
    /\ inst' = [inst EXCEPT ![h] = @ \cup {i}]
    /\ UNCHANGED <<hosts, returned, result, cancelled>>

Exit(h, i) ==
    /\ i \in inst[h]
    /\ inst' = [inst EXCEPT ![h] = @ \ {i}]
    /\ UNCHANGED <<hosts, returned, result, cancelled>>

Call(r) ==
    RemoveAbsent(r) \/ RemoveDrained(r) \/ RemoveShutdown(r) \/ RemoveFail(r)

Next ==
    \/ \E r \in Removers : Call(r) \/ Cancel(r)
    \/ \E h \in Hosts, i \in Instances : Place(h, i) \/ Exit(h, i)

\* every call returns
Spec == Init /\ [][Next]_vars /\ \A r \in Removers : WF_vars(Call(r))

=============================================================================
