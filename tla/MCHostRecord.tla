---------------------------- MODULE MCHostRecord ----------------------------
(* Model-checking instance of HostRecord (and of DaemonConfig through it). *)
EXTENDS HostRecord, TLC

CONSTANTS hid, hname, pnet, ip1, ip2, ipx, v1

\* os.Args: the program name, then up to two arguments among --config-file
\* in each of its forms, a plain file name, an option, a quoted name with
\* surrounding space, and an argument that merely starts with --config-file
MCTokens ==
    { <<"CF", "=", "a">>, <<"CF", "=", "q", "a", "q">>, <<"CF">>,
      <<"CF", "=">>, <<"a">>, <<"-", "a">>, <<"s", "q", "a", "q", "s">>,
      <<"CF", "a">> }

MCArgLists == {<<<<"a">>>> \o s : s \in BoundedSeq(MCTokens, 2)}

\* a machine, and that machine with one of its hardware fields changed
MCBase == [cores |-> 1, mem |-> 1, kver |-> "k1", krel |-> "r1"]
MCAlt  == [cores |-> 2, mem |-> 2, kver |-> "k2", krel |-> "r2"]
MCHardware == {MCBase} \cup {[MCBase EXCEPT ![f] = MCAlt[f]] : f \in DOMAIN MCBase}

MCPoolArgs == {<<"a">>, <<"s">>}      \* "default" and " "

MCPortArgs == {<<"4", "9", "7", "9">>, <<"a">>}

MCAtoi == <<"4", "9", "7", "9">> :> 4979

MCIPArgs == {<<>>, <<ip1>>, <<ip1, ip2>>, <<ipx>>}
====
