----------------------------- MODULE MCKeyReset -----------------------------
EXTENDS KeyReset, TLC

CONSTANTS a1, a2, h1, h2, ip1, ip2, kf1, kf2

MCHostIP == (h1 :> ip1) @@ (h2 :> ip2)

\* `key list` with or without the HostID argument, and `key reset` of host h
\* with or without --key-file kf and --register
MCCmdsOf(h, kf) ==
    [op : {"list"}, host : {h, None}, keyfile : {""}, register : {FALSE}]
    \cup [op : {"reset"}, host : {h}, keyfile : {"", kf}, register : BOOLEAN]

\* a1 works on host h1 and key file kf1, a2 on host h2 and key file kf2
MCCmdsPass == (a1 :> MCCmdsOf(h1, kf1)) @@ (a2 :> MCCmdsOf(h2, kf2))

\* a single `key reset` of h1
MCCmdsOne == a1 :> [op : {"reset"}, host : {h1}, keyfile : {"", kf1}, register : BOOLEAN]
====
