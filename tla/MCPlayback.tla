----------------------------- MODULE MCPlayback -----------------------------
(* Instances of Playback for TLC.                                           *)
EXTENDS Playback, TLC

CONSTANTS n1, n2, v1, v2, c1, c2, g1, g2

\* The first recorder streams through the central server, the second has a
\* go2rtc server of its own.
MCServerOf == [n \in Nvrs |-> IF n = n1 THEN v1 ELSE v2]

MCSymmetry == Permutations(Clients)
=============================================================================
