---------------------------- MODULE MCHostRemove ----------------------------
(* Model-checking instance of HostRemove: two hosts, two instances, two    *)
(* concurrent removals of the same host and one of the other.              *)
EXTENDS HostRemove, TLC

CONSTANTS h1, h2, i1, i2, i3, r1, r2, r3

MCTarget == (r1 :> h1) @@ (r2 :> h1) @@ (r3 :> h2)

\* every call removes h1
MCTargetOne == [r \in Removers |-> h1]

=============================================================================
