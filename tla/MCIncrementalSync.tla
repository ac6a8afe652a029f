------------------------- MODULE MCIncrementalSync -------------------------
(***************************************************************************)
(* Instances of IncrementalSync for TLC, and what the README says of it.   *)
(***************************************************************************)
EXTENDS IncrementalSync

\* The README: timestamps, increasing IDs and versions are supported.  A run
\* whose mark is set is not refused for its condition.
MarkedRunsRead == ipc = "read" => Answerable(config)

\* The README: modes are switched seamlessly at run time.  A run delivers what
\* it selected, whoever switches meanwhile.
SwitchedRunsDeliver == ipc = "idle" => Cardinality(owed) <= gaps
=============================================================================
