------------------------- MODULE MCRedisStreamReader -------------------------
(***************************************************************************)
(* Instances of RedisStreamReader for TLC, and what the README says of it. *)
(***************************************************************************)
EXTENDS RedisStreamReader

\* The README: realtime synchronisation.  A reader whose group exists and
\* whose connection never failed does not give up with an error.
KeepsReading == group /\ failures = 0 => errCh # "read"

\* The README: the flow of a message ends with XACK.  What a run has stored
\* and left behind is no longer pending.
StoredIsAcknowledged == upc = "select" => written \cap pending = {}

\* The README: AutoCreate creates stream and group.  With it, a reader that
\* reads has a group to read from.
AutoCreated == AutoCreate /\ rpc = "read" => group
=============================================================================
