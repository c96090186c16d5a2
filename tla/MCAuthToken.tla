---------------------------- MODULE MCAuthToken ----------------------------
(* Model-checking instance of AuthToken.                                   *)
EXTENDS AuthToken, TLC

CONSTANTS t1, t2, c1, c2, p1, u1, u2, i1

\* t1 and t2 are the tokens of users u1 and u2; "" does not parse
MCIdentityOf == (t1 :> u1) @@ (t2 :> u2) @@ (Empty :> NoIdentity)
=============================================================================
