------------------------------- MODULE Pages -------------------------------
(***************************************************************************)
(* The pages of a statement with ORDER BY a unique column, LIMIT and       *)
(* OFFSET, which the readers (reader/database.go) ask for one after the    *)
(* other.  A row is its key, and keys are ordered.  The database is        *)
(* external.                                                               *)
(***************************************************************************)
EXTENDS Naturals, FiniteSetsExt

CONSTANTS
  MaxKey,       \* keys are 1..MaxKey
  BatchSize,    \* SyncConfig.BatchSize
  MaxDeletes    \* bound: rows deleted while the table is read

ASSUME SizesAssumption   == MaxKey \in Nat /\ BatchSize \in Nat \ {0}
ASSUME DeletesAssumption == MaxDeletes \in Nat

Key == 1..MaxKey

VARIABLE
  offset     \* offset of the goroutine

\* The place of a key among the rows in ascending order, from 1.
Rank(S, k) == Cardinality({r \in S : r <= k})

\* Of the rows S those with LIMIT n OFFSET o.
Page(S, n, o) == {k \in S : o < Rank(S, k) /\ Rank(S, k) <= o + n}
=============================================================================
