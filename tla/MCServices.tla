----------------------------- MODULE MCServices -----------------------------
(* Instances of Services for TLC.                                           *)
EXTENDS Services

CONSTANTS usr, adm, p1, p2, g1, g2, c1, c2, c3, k1, k2, s1, s2
=============================================================================
