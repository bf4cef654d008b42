----------------------------- MODULE MCDatabase -----------------------------
(* Instances of Database for TLC: plain is a plain database, fams has column *)
(* families, twin is one more that names the directory of plain.            *)
EXTENDS Database, TLC

CONSTANTS plain, fams, twin, disk1, disk2, default, a, b, k1, k2, v1, v2

AllNames   == {plain, fams, twin}
JustFams   == {fams}
TwoDisks   == plain :> disk1 @@ fams :> disk2 @@ twin :> disk1
FamsDisk   == fams :> disk2
PlainLists == plain :> {NoFamilies} @@ twin :> {NoFamilies}

\* The member always names the same families, or it is edited between two runs
\* of the service, and one of its forms names a family twice.
Fixed    == fams :> {<<a, b>>, <<b, default, a>>}
Edited   == PlainLists @@ fams :> {<<a, a>>, <<a, b>>, NoFamilies}

Ask(op, n, c, k, v, items) ==
  [op |-> op, dbname |-> n, column |-> c, key |-> k, value |-> v,
   items |-> items]
None == << >>
Both == k1 :> v1 @@ k2 :> v2

Some ==
  {Ask("put", n, default, k1, v, None) : n \in {plain, twin}, v \in {v1, v2}} \cup
  {Ask("get", n, default, k1, v1, None) : n \in {plain, fams}} \cup
  {Ask("put_cf", fams, c, k1, v1, None) : c \in {a, b, default}} \cup
  {Ask("get_cf", fams, c, k1, v1, None) : c \in {a, b}} \cup
  {Ask("write_batch", n, default, k1, v1, Both) : n \in {plain, fams}}

Odd ==
  {Ask("put", n, default, k1, v1, None) :
     n \in {Unparsed, Empty, Unknown, Bad}} \cup
  {Ask("put", plain, default, k1, Bad, None),
   Ask("other", plain, default, k1, v1, None),
   Ask("put_cf", plain, a, k1, v1, None),
   Ask(Bad, plain, default, k1, v1, None),
   Ask("write_batch", plain, default, k1, v1, k1 :> v2 @@ k2 :> Bad)}

SomeAndOdd == Some \cup Odd
FamsRequests  == {Ask("put_cf", fams, c, k1, v1, None) : c \in {a, b, default}} \cup
              {Ask("get_cf", fams, c, k1, v1, None) : c \in {a, b, default}} \cup
              {Ask("write_batch", fams, default, k1, v1, Both)}
=============================================================================
