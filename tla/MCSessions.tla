----------------------------- MODULE MCSessions -----------------------------
(* Instances of Sessions for TLC.                                           *)
EXTENDS Sessions, TLC

CONSTANTS adm, usr, kiosk, t1, t2, t3, t4, t5, r1, r2

\* A user is logged in, and somebody has been shown the login page.
MCStored == [t \in Tokens |->
    CASE t = t1 -> [user |-> adm, csrf |-> TRUE]
      [] t = t2 -> [user |-> usr, csrf |-> FALSE]
      [] t = t3 -> [user |-> NoUser, csrf |-> TRUE]
      [] OTHER  -> NoRow]

MCSymmetry == Permutations(Requests) \cup Permutations({t4, t5})
=============================================================================
