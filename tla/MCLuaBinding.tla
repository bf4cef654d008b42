--------------------------- MODULE MCLuaBinding ---------------------------
(* An instance of LuaBinding for TLC: a database of each kind, two iterators *)
(* and two batches, which either database may make.                         *)
EXTENDS LuaBinding, TLC

CONSTANTS plain, fams, iter1, iter2, batch1, batch2

Interchangeable == Permutations({iter1, iter2}) \cup Permutations({batch1, batch2})
=============================================================================
