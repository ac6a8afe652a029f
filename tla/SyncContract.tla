---------------------------- MODULE SyncContract ----------------------------
(***************************************************************************)
(* What a run of the sync engine promises, without channels, goroutines,   *)
(* retries or pausing: rows are taken over page by page in source order,   *)
(* the fate of every row taken is settled before the next page is taken,   *)
(* and the run ends once.  It completes only when the whole source is      *)
(* settled, and it is cancelled only when that was asked.  A row is        *)
(* settled when a stage or the writer has refused it, when the writer has  *)
(* accepted it, or when it is skipped; how the writer counts it is not     *)
(* part of the promise.                                                    *)
(***************************************************************************)
EXTENDS Integers

CONSTANTS RowCount,   \* rows of the source
          PageSize    \* rows taken over at once

VARIABLES taken, settled,   \* rows taken over, and those whose fate is settled
          asked,            \* cancellation was asked for
          ending            \* "none" until the run has ended

contractVars == <<taken, settled, asked, ending>>

Init ==
  /\ taken = 0 /\ settled = 0
  /\ asked \in BOOLEAN /\ ending = "none"

\* The next page is taken over: a full one, or the rows that are left.
Take ==
  /\ ending = "none" /\ settled = taken /\ taken < RowCount
  /\ taken' = IF taken + PageSize <= RowCount THEN taken + PageSize ELSE RowCount
  /\ UNCHANGED <<settled, asked, ending>>

\* Some of the rows in hand find their fate.
Settle ==
  /\ ending = "none" /\ settled' \in settled..taken
  /\ UNCHANGED <<taken, asked, ending>>

Ask == asked' = TRUE /\ UNCHANGED <<taken, settled, ending>>

\* The run ends and releases its context.
End(how) ==
  /\ ending = "none" /\ ending' = how /\ asked' = TRUE
  /\ UNCHANGED <<taken, settled>>

Complete == settled = taken /\ taken = RowCount /\ End("completed")
Cancel   == settled = taken /\ asked /\ End("cancelled")
Fail     == settled = taken /\ End("failed")
Refuse   == taken = 0 /\ End("error")

Next == Take \/ Settle \/ Ask \/ Complete \/ Cancel \/ Fail \/ Refuse

Spec == Init /\ [][Next]_contractVars
=============================================================================
