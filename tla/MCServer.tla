------------------------------ MODULE MCServer ------------------------------
(* The instance of Server for TLC: c1 writes, or ends the process, while c2   *)
(* writes to one of its places and reads from both.                          *)
EXTENDS Server, MCDatabase

CONSTANTS c1, c2

Both2     == {plain, fams}
OneEach   == plain :> disk1 @@ fams :> disk2
SameLists == plain :> {NoFamilies} @@ Fixed
ByConn ==
  c1 :> {Ask("put", plain, default, k1, v1, None),
         Ask("put_cf", fams, a, k1, v1, None),
         Ask("put", Bad, default, k1, v1, None)} @@
  c2 :> {Ask("put", plain, default, k1, v2, None),
         Ask("get", plain, default, k1, v1, None),
         Ask("get_cf", fams, a, k1, v1, None)}
Asked == UNION {ByConn[c] : c \in {c1, c2}}

\* What the theorems on OpensUnlessKilled and AssertionHolds ask of the file.
ASSUME InstanceKeepsConfig == KeptConfig
=============================================================================
