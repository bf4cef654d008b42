---------------------------- MODULE MCReactor ----------------------------
(* Instances of Reactor for TLC.                                             *)
EXTENDS Reactor, TLC

CONSTANTS s1, s2, d1, t1, t2

\* Threads are alike, and so are sockets: they start in the same place.
Alike == Permutations(Threads) \cup Permutations(Sockets)
=============================================================================
