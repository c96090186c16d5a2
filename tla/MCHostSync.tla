----------------------------- MODULE MCHostSync -----------------------------
(* Model-checking instance of HostSync: one SyncHosts call with the        *)
(* authoritative list {h1}, over hosts h1 and h2 and one instance.         *)
EXTENDS HostSync, TLC

CONSTANTS h1, h2, i1, s1

MCDesired == [s \in Syncers |-> {h1}]
=============================================================================
