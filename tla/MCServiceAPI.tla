---------------------------- MODULE MCServiceAPI ----------------------------
EXTENDS ServiceAPI, TLC

CONSTANTS c1, c2, s1, s2, s3, n1, n2, p1, p2, p3, t1, t2, t3, ip1, ip2, auto

\* one call of every kind on service s1; AddService with two local ports
\* (two map orders) and one remote port
MCCalls ==
    { [op |-> "byName", name |-> n1],
      [op |-> "getState", sid |-> t1],
      [op |-> "add", name |-> n1, local |-> {p1, p2}, remote |-> {p3}],
      [op |-> "remove", id |-> s1],
      [op |-> "update", id |-> s1, name |-> n2,
       eps |-> <<[port |-> p3, purpose |-> "local"]>>],
      [op |-> "start", id |-> s1],
      [op |-> "stop", id |-> s1],
      [op |-> "assign", id |-> s1, ip |-> auto] }

====
