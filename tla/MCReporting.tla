----------------------------- MODULE MCReporting -----------------------------
(***************************************************************************)
(* A data model for Reporting: endpoint 1 has a cluster of two attributes  *)
(* and a cluster of one, endpoint 2 a cluster of one attribute.  Three     *)
(* changes in a full dirty set meet every way of merging its paths.        *)
(***************************************************************************)
EXTENDS Reporting

Clusters == {{1, 2}, {3}, {4}}
Endpoints == {{1, 2, 3}, {4}}
Subscription == [subscribe |-> TRUE, path |-> 1 .. 4]
Read(path) == [subscribe |-> FALSE, path |-> path]

Wants == {Subscription, Read({1})}

\* A read of two attributes may take two messages without an event.
LongWants == {Subscription, Read({1, 2})}
===============================================================================
