--------------------------- MODULE MCBatchWriter ---------------------------
(***************************************************************************)
(* What the documentation and the tests say of the writers.                *)
(***************************************************************************)
EXTENDS BatchWriter

\* The test TestBatchWriter_Close_FlushesBuffer: after Close every row that
\* was handed over is in the target.
CloseFlushes == wpc = "closed" => Buffered = {}

\* The README on WriteModeUpdate: "update only".  The target is empty to begin
\* with, so there is no row to update and none may appear.
UpdateOnlyUpdates == WriteMode = "update" => \A r \in Row : table[r] = 0
=============================================================================
