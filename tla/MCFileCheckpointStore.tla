------------------------ MODULE MCFileCheckpointStore ------------------------
(***************************************************************************)
(* Instances of FileCheckpointStore for TLC.                               *)
(***************************************************************************)
EXTENDS FileCheckpointStore

CONSTANTS c1, c2, v1, v2, p1

TwoClients == {c1, c2}
Values     == {v1, v2}
Reports    == {p1}

\* Two names that differ only in a separator that is replaced, and one whose file
\* is that of the progress.
Tables == {<<"shop", "/", "items">>, <<"shop", ":", "items">>, ProgressName}
Bad    == {"/", ":"}

\* The README: checkpoints support recovery after a sync was interrupted.
\* Where no operation on a file fails, no checkpoint is left torn.
Recoverable == owner = Nothing => \A t \in Table : file[filePath(t)] # Broken

\* types.go, 373: Load and Delete are about a table.
\* The checkpoint of a table changes only in calls for that table.
OwnCheckpoint ==
  [][ \A t \in Table : file'[filePath(t)] # file[filePath(t)] =>
        \E c \in Client : owner = c /\ request[c].table = t ]_vars
=============================================================================
