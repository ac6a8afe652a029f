--------------------------- MODULE MCSourcePaging ---------------------------
(***************************************************************************)
(* Instances of SourcePaging for TLC, and what the README says of it.      *)
(***************************************************************************)
EXTENDS SourcePaging

\* The README: a full synchronisation takes all data.
AllData == ppc = "done" /\ inserted = {} /\ deleted = {} => \A k \in source : times[k] > 0

\* The README: SQLReader reads by a query of the user.  It sends no more rows
\* than the query has.
AsQueried ==
  UserLimit > 0 => Cardinality({k \in Key : times[k] > 0}) <= UserLimit
=============================================================================
