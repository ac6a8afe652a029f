---------------------------- MODULE PagingProofs ----------------------------
(***************************************************************************)
(* Proofs about SourcePaging and IncrementalSync, which page alike, for    *)
(* every table, page size and OFFSET of the user, and for every number of  *)
(* rows inserted, changed and deleted meanwhile.                           *)
(***************************************************************************)
EXTENDS SourcePaging, IncrementalSync, FiniteSetTheorems, WellFoundedInduction, TLAPS

-----------------------------------------------------------------------------
(* Counting.                                                               *)

\* A part of a finite set is finite and not larger.
LEMMA PartSize ==
  ASSUME NEW S, NEW T, IsFiniteSet(T), S \subseteq T
  PROVE  /\ IsFiniteSet(S) /\ Cardinality(S) \in Nat /\ Cardinality(T) \in Nat
         /\ Cardinality(S) <= Cardinality(T)
  BY FS_Subset, FS_CardinalityType

\* Two finite sets that share nothing.
LEMMA DisjointSize ==
  ASSUME NEW S, NEW T, IsFiniteSet(S), IsFiniteSet(T), S \cap T = {}
  PROVE  /\ IsFiniteSet(S \cup T) /\ Cardinality(S \cup T) = Cardinality(S) + Cardinality(T)
         /\ Cardinality(S) \in Nat /\ Cardinality(T) \in Nat
<1>1. /\ IsFiniteSet(S \cup T)
      /\ Cardinality(S \cup T) = Cardinality(S) + Cardinality(T) - Cardinality(S \cap T)
  BY FS_Union
<1>2. Cardinality(S \cap T) = 0
  BY FS_EmptySet
<1>3. Cardinality(S) \in Nat /\ Cardinality(T) \in Nat
  BY FS_CardinalityType
<1> QED
  BY <1>1, <1>2, <1>3

\* One member more, or a set of one member at most.
LEMMA OneMore ==
  ASSUME NEW S, NEW T, NEW x, IsFiniteSet(T), S \subseteq T \cup {x}
  PROVE  /\ IsFiniteSet(S) /\ Cardinality(S) \in Nat /\ Cardinality(T) \in Nat
         /\ Cardinality(S) <= Cardinality(T) + 1
<1>1. Cardinality(T) \in Nat
  BY FS_CardinalityType
<1>2. CASE x \in T
  <2>1. S \subseteq T
    BY <1>2
  <2> QED
    BY <1>1, <2>1, PartSize
<1>3. CASE x \notin T
  <2>1. IsFiniteSet(T \cup {x}) /\ Cardinality(T \cup {x}) = Cardinality(T) + 1
    BY <1>3, FS_AddElement
  <2> QED
    BY <1>1, <2>1, PartSize
<1> QED
  BY <1>2, <1>3

\* Every set of keys is finite.
LEMMA KeysFinite ==
  ASSUME NEW S, S \subseteq Key
  PROVE  IsFiniteSet(S) /\ Cardinality(S) \in Nat
<1>1. IsFiniteSet(Key)
  BY SizesAssumption, FS_Interval DEF Key
<1> QED
  BY <1>1, PartSize

\* Every set of numbers has a least one: of the sets of numbers below its members
\* one has none of the others in it.
LEMMA LeastElement ==
  ASSUME NEW S \in SUBSET Nat, S # {}
  PROVE  \E x \in S : \A y \in S : x <= y
<1> DEFINE Below(y) == 0..(y - 1)
           T == {Below(y) : y \in S}
<1>1. T \subseteq FiniteSubsetsOf(Nat) /\ T # {}
  <2>1. \A y \in S : IsFiniteSet(Below(y)) /\ Below(y) \in SUBSET Nat
    BY FS_Interval
  <2> QED
    BY <2>1 DEF FiniteSubsetsOf
<1>2. PICK X \in T : \A Y \in T : ~(<<Y, X>> \in StrictSubsetOrdering(Nat))
  <2> HIDE DEF T
  <2> QED
    BY <1>1, FS_StrictSubsetOrderingWellFounded, WFMin
<1>3. PICK x \in S : X = Below(x)
  OBVIOUS
<1>4. ASSUME NEW y \in S, y < x PROVE FALSE
  <2>1. Below(y) \in SUBSET Nat /\ X \in SUBSET Nat /\ Below(y) \subseteq X /\ Below(y) # X
    BY <1>3, <1>4
  <2>2. ~(<<Below(y), X>> \in StrictSubsetOrdering(Nat))
    BY <1>2
  <2> QED
    BY <2>1, <2>2 DEF StrictSubsetOrdering
<1> QED
  BY <1>4

-----------------------------------------------------------------------------
(* Ranks.                                                                   *)

\* The first n keys of a set, as far as it has them.
Upto(S, n) == {k \in S : Rank(S, k) <= n}

\* The rank of a key is a number, and its place is its own.
LEMMA RankFacts ==
  ASSUME NEW S, S \subseteq Key
  PROVE  /\ \A k : Rank(S, k) \in Nat
         /\ \A k \in S : Rank(S, k) >= 1
         /\ \A j, k \in S : j < k => Rank(S, j) < Rank(S, k)
         /\ \A j, k \in S : Rank(S, j) = Rank(S, k) => j = k
<1> DEFINE Low(k) == {r \in S : r <= k}
<1>1. \A k : IsFiniteSet(Low(k)) /\ Cardinality(Low(k)) \in Nat
  BY KeysFinite
<1>2. \A k : Rank(S, k) = Cardinality(Low(k))
  BY DEF Rank
<1>3. \A k \in S : k \in Low(k) /\ k \in Nat
  BY SizesAssumption DEF Key
<1>4. ASSUME NEW k \in S PROVE Cardinality(Low(k)) # 0
  BY <1>1, <1>3, FS_EmptySet
<1>5. ASSUME NEW j \in S, NEW k \in S, j < k PROVE Cardinality(Low(j)) < Cardinality(Low(k))
  <2>1. Low(j) \in SUBSET Low(k) /\ k \notin Low(j) /\ k \in Low(k)
    BY <1>3, <1>5
  <2>2. Cardinality(Low(j)) <= Cardinality(Low(k)) /\ Cardinality(Low(j)) # Cardinality(Low(k))
    <3> HIDE DEF Low
    <3> QED
      BY <1>1, <2>1, FS_Subset
  <2> QED
    BY <1>1, <2>2
<1> HIDE DEF Low
<1>6. \A j, k \in S : j # k => j < k \/ k < j
  BY <1>3
<1>7. \A k \in S : Rank(S, k) >= 1
  BY <1>1, <1>2, <1>4
<1>8. \A j, k \in S : j < k => Rank(S, j) < Rank(S, k)
  BY <1>2, <1>5
<1>9. \A j, k \in S : Rank(S, j) = Rank(S, k) => j = k
  BY <1>1, <1>2, <1>6, <1>8
<1> QED
  BY <1>1, <1>2, <1>7, <1>8, <1>9

\* A new key moves those behind it by one.
LEMMA RankAdded ==
  ASSUME NEW S, S \subseteq Key, NEW x \in Key \ S, NEW k \in Key
  PROVE  Rank(S \cup {x}, k) = IF x <= k THEN Rank(S, k) + 1 ELSE Rank(S, k)
<1> DEFINE Low == {r \in S : r <= k}
<1>1. IsFiniteSet(Low) /\ x \notin Low
  BY KeysFinite
<1>2. CASE x <= k
  <2>1. {r \in S \cup {x} : r <= k} = Low \cup {x}
    BY <1>2
  <2> QED
    BY <1>1, <1>2, <2>1, FS_AddElement DEF Rank
<1>3. CASE ~(x <= k)
  <2>1. {r \in S \cup {x} : r <= k} = Low
    BY <1>3
  <2> QED
    BY <1>3, <2>1 DEF Rank
<1> QED
  BY <1>2, <1>3

\* At most n keys are among the first n, and no fewer if there are more keys.
LEMMA UptoSize ==
  ASSUME NEW S, S \subseteq Key, NEW n \in Nat
  PROVE  /\ Upto(S, n) \subseteq S /\ IsFiniteSet(Upto(S, n)) /\ Cardinality(Upto(S, n)) \in Nat
         /\ Cardinality(Upto(S, n)) <= n
         /\ (\E k \in S : Rank(S, k) > n) => Cardinality(Upto(S, n)) = n
<1>0. \A k \in S : k \in Nat /\ Rank(S, k) \in Nat
  <2>1. S \subseteq Nat
    BY SizesAssumption DEF Key
  <2> QED
    BY <2>1, RankFacts
<1>1. Upto(S, n) \subseteq S /\ IsFiniteSet(Upto(S, n)) /\ Cardinality(Upto(S, n)) \in Nat
  <2>1. Upto(S, n) \subseteq S
    BY DEF Upto
  <2> QED
    BY <2>1, KeysFinite
<1>2. Cardinality(Upto(S, n)) <= n
  <2> DEFINE f == [k \in Upto(S, n) |-> Rank(S, k)]
  <2>1. \A k \in Upto(S, n) : Rank(S, k) \in 1..n
    BY RankFacts DEF Upto
  <2>2. \A j, k \in Upto(S, n) : Rank(S, j) = Rank(S, k) => j = k
    BY <1>1, RankFacts
  <2>3. f \in Injection(Upto(S, n), 1..n)
    BY <2>1, <2>2 DEF Injection, IsInjective
  <2>4. IsFiniteSet(1..n) /\ Cardinality(1..n) = n
    BY FS_Interval
  <2> HIDE DEF f
  <2> QED
    BY <2>3, <2>4, FS_Injection
<1>3. ASSUME NEW m \in S, Rank(S, m) > n PROVE Cardinality(Upto(S, n)) >= n
  <2> DEFINE Far == {k \in S : Rank(S, k) > n}
  <2>1. PICK x \in Far : \A y \in Far : x <= y
    <3>1. Far \in SUBSET Nat /\ Far # {}
      BY <1>0, <1>3
    <3> QED
      BY <3>1, LeastElement
  <2>2. \A y \in S : y <= x => y = x \/ y \in Upto(S, n)
    <3> TAKE y \in S
    <3>1. x \in Nat /\ y \in Nat /\ Rank(S, y) \in Nat
      BY <1>0, <2>1
    <3> QED
      BY <2>1, <3>1 DEF Upto
  <2>3. {r \in S : r <= x} \subseteq Upto(S, n) \cup {x}
    BY <2>2
  <2>4. Rank(S, x) <= Cardinality(Upto(S, n)) + 1
    BY <1>1, <2>3, OneMore DEF Rank
  <2>5. Rank(S, x) > n /\ Rank(S, x) \in Nat
    BY <2>1, RankFacts
  <2> QED
    BY <1>1, <2>4, <2>5
<1>4. (\E k \in S : Rank(S, k) > n) => Cardinality(Upto(S, n)) = n
  BY <1>1, <1>2, <1>3
<1> QED
  BY <1>1, <1>2, <1>4

\* A page and what is before it are the first keys; a short page is the last.
LEMMA ShortPage ==
  ASSUME NEW S, S \subseteq Key, NEW o \in Nat, Cardinality(Page(S, BatchSize, o)) < BatchSize
  PROVE  \A k \in S : Rank(S, k) <= o + BatchSize
<1> DEFINE page == Page(S, BatchSize, o)
           n == o + BatchSize
<1>0. n \in Nat
  BY SizesAssumption
<1>1. \A k \in S : Rank(S, k) \in Nat
  BY RankFacts
<1>2. page \cap Upto(S, o) = {} /\ page \cup Upto(S, o) = Upto(S, n)
  BY <1>1, SizesAssumption DEF Upto, Page
<1>3. page \subseteq Key
  BY DEF Page
<1>4. IsFiniteSet(page) /\ Cardinality(page) \in Nat
  BY <1>3, KeysFinite
<1> HIDE DEF page
<1>5. /\ IsFiniteSet(Upto(S, o)) /\ Cardinality(Upto(S, o)) \in Nat
      /\ Cardinality(Upto(S, o)) <= o
  BY UptoSize
<1>6. Cardinality(Upto(S, n)) = Cardinality(page) + Cardinality(Upto(S, o))
  BY <1>2, <1>4, <1>5, DisjointSize
<1>7. Cardinality(Upto(S, n)) < n
  BY <1>0, <1>4, <1>5, <1>6, SizesAssumption DEF page
<1>8. ~ \E k \in S : Rank(S, k) > n
  BY <1>0, <1>7, UptoSize
<1> QED
  BY <1>0, <1>1, <1>8

\* When a row disappears at most one moves to the first n, and none leaves them.
LEMMA UptoRemoved ==
  ASSUME NEW S, S \subseteq Key, NEW x \in S, NEW n \in Nat
  PROVE  /\ Upto(S, n) \ {x} \subseteq Upto(S \ {x}, n)
         /\ \E y : Upto(S \ {x}, n) \subseteq Upto(S, n) \cup {y}
<1> DEFINE T == S \ {x}
           Behind == {k \in S : Rank(S, k) = n + 1}
<1>1. \A k \in T : Rank(S, k) = IF x <= k THEN Rank(T, k) + 1 ELSE Rank(T, k)
  <2> TAKE k \in T
  <2>1. T \subseteq Key /\ x \in Key \ T /\ T \cup {x} = S /\ k \in Key
    OBVIOUS
  <2> QED
    BY <2>1, RankAdded
<1>2. /\ \A k \in S : Rank(S, k) \in Nat
      /\ \A k \in T : Rank(T, k) \in Nat
  <2>1. T \subseteq Key
    OBVIOUS
  <2> HIDE DEF T
  <2> QED
    BY <2>1, RankFacts
<1>3. Upto(S, n) \ {x} \subseteq Upto(T, n)
  BY <1>1, <1>2 DEF Upto
<1>4. PICK y : Behind \subseteq {y}
  <2>1. \A j, k \in Behind : j = k
    BY RankFacts
  <2> QED
    BY <2>1
<1>5. Upto(T, n) \subseteq Upto(S, n) \cup {y}
  BY <1>1, <1>2, <1>4 DEF Upto
<1> QED
  BY <1>3, <1>5

\* When a row appears none but it enters the first n; if it does one may leave them,
\* otherwise none.
LEMMA UptoAdded ==
  ASSUME NEW S, S \subseteq Key, NEW x \in Key \ S, NEW n \in Nat
  PROVE  /\ Upto(S \cup {x}, n) \subseteq Upto(S, n) \cup {x}
         /\ \/ Upto(S, n) \subseteq Upto(S \cup {x}, n)
            \/ /\ x \in Upto(S \cup {x}, n)
               /\ \E y \in S : Upto(S, n) \ {y} \subseteq Upto(S \cup {x}, n)
         /\ (\A k \in S : k < x) => Upto(S, n) \subseteq Upto(S \cup {x}, n)
<1> DEFINE T == S \cup {x}
<1>0. T \subseteq Key /\ x \in T /\ \A k \in T : k \in Nat
  BY SizesAssumption DEF Key
<1>1. \A k \in S : Rank(T, k) = IF x <= k THEN Rank(S, k) + 1 ELSE Rank(S, k)
  BY RankAdded
<1>2. /\ \A k \in S : Rank(S, k) \in Nat
      /\ \A k \in T : Rank(T, k) \in Nat
      /\ \A j, k \in T : j < k => Rank(T, j) < Rank(T, k)
  <2> HIDE DEF T
  <2> QED
    BY <1>0, RankFacts
<1>3. Upto(T, n) \subseteq Upto(S, n) \cup {x}
  BY <1>1, <1>2 DEF Upto
<1>4. CASE Rank(T, x) > n
  <2>1. ASSUME NEW k \in Upto(S, n) PROVE Rank(T, k) <= n
    <3>1. k \in S /\ Rank(S, k) <= n /\ k \in T /\ k # x
      BY DEF Upto
    <3>2. CASE x <= k
      <4>1. Rank(T, x) < Rank(T, k) /\ Rank(T, k) = Rank(S, k) + 1
        BY <1>0, <1>1, <1>2, <3>1, <3>2
      <4> QED
        BY <1>0, <1>2, <1>4, <3>1, <4>1
    <3>3. CASE ~(x <= k)
      BY <1>1, <3>1, <3>3
    <3> QED
      BY <3>2, <3>3
  <2>2. Upto(S, n) \subseteq Upto(T, n)
    BY <2>1 DEF Upto
  <2> QED
    BY <1>3, <2>2
<1>5. CASE ~(Rank(T, x) > n)
  <2>1. x \in Upto(T, n)
    BY <1>0, <1>2, <1>5 DEF Upto
  <2>2. CASE \E y \in S : Rank(S, y) = n
    <3>1. PICK y \in S : Rank(S, y) = n
      BY <2>2
    <3>2. \A k \in S : Rank(S, k) = n => k = y
      BY <3>1, RankFacts
    <3>3. Upto(S, n) \ {y} \subseteq Upto(T, n)
      BY <1>1, <1>2, <3>2 DEF Upto
    <3>4. (\A k \in S : k < x) => Upto(S, n) \subseteq Upto(T, n)
      BY <1>0, <1>1, <1>2 DEF Upto
    <3> QED
      BY <1>3, <2>1, <3>3, <3>4
  <2>3. CASE ~ \E y \in S : Rank(S, y) = n
    <3>1. Upto(S, n) \subseteq Upto(T, n)
      BY <1>1, <1>2, <2>3 DEF Upto
    <3> QED
      BY <1>3, <3>1
  <2> QED
    BY <2>2, <2>3
<1> QED
  BY <1>4, <1>5

\* A page takes the place of the first keys behind the offset.
LEMMA UptoPage ==
  ASSUME NEW S, S \subseteq Key, NEW o \in Nat
  PROVE  /\ Upto(S, o + BatchSize) = Upto(S, o) \cup Page(S, BatchSize, o)
         /\ Upto(S, o) \cap Page(S, BatchSize, o) = {}
         /\ Page(S, BatchSize, o) \subseteq S
<1>1. \A k \in S : Rank(S, k) \in Nat
  BY RankFacts
<1> QED
  BY <1>1, SizesAssumption DEF Upto, Page

\* The greatest of a set of numbers.
LEMMA GreatestElement ==
  ASSUME NEW n \in Nat, NEW S, S \subseteq 0..n, S # {}
  PROVE  Max(S) \in S /\ \A y \in S : y <= Max(S)
<1> DEFINE T == {n - y : y \in S}
<1>1. T \in SUBSET Nat /\ T # {}
  <2>1. \A y \in S : n - y \in Nat
    <3> TAKE y \in S
    <3>1. y \in 0..n
      OBVIOUS
    <3> QED
      BY <3>1
  <2>2. \E y \in S : TRUE
    OBVIOUS
  <2>3. T # {}
    BY <2>2
  <2> QED
    BY <2>1, <2>3
<1>2. PICK t \in T : \A u \in T : t <= u
  <2> HIDE DEF T
  <2> QED
    BY <1>1, LeastElement
<1>3. PICK x \in S : t = n - x
  BY <1>2
<1>4. \A y \in S : x >= y
  <2> TAKE y \in S
  <2>1. n - x <= n - y
    BY <1>2, <1>3
  <2> QED
    BY <2>1
<1>5. Max(S) \in S /\ \A y \in S : Max(S) >= y
  BY <1>3, <1>4, Zenon DEF Max
<1>6. \A y \in S : y \in Int
  OBVIOUS
<1> QED
  BY <1>5, <1>6

-----------------------------------------------------------------------------
(* Types, and where the rows come from.                                     *)

\* The table holds the first and the inserted rows without the deleted ones, and
\* a key that never was in it was never sent.
RowsInv ==
  /\ source = (initial \cup inserted) \ deleted /\ initial \cap inserted = {}
  /\ deleted \subseteq initial \cup inserted
  /\ \A k \in Key \ (initial \cup inserted) : times[k] = 0

TypeInv == TypeOK /\ RowsInv

\* A further page leaves the offset at the beginning of a page.
LEMMA PageStart ==
  ASSUME NEW o \in Nat, o % BatchSize = 0
  PROVE  o + BatchSize \in Nat /\ (o + BatchSize) % BatchSize = 0
<1> DEFINE q == o \div BatchSize
<1>1. q \in Nat /\ o = BatchSize * q + (o % BatchSize)
  BY SizesAssumption
<1> HIDE DEF q
<1>2. o + BatchSize = BatchSize * (q + 1) /\ q + 1 \in Nat
  <2>1. BatchSize * (q + 1) = BatchSize * q + BatchSize
    BY <1>1, SizesAssumption
  <2> QED
    BY <1>1, <2>1, SizesAssumption
<1>3. ASSUME NEW p \in Nat, NEW n \in Nat, n = BatchSize * p PROVE n % BatchSize = 0
  BY <1>3, SizesAssumption
<1> QED
  BY <1>2, <1>3, SizesAssumption

\* What a page does to the counts of the rows.
LEMMA SentOnce ==
  ASSUME TypeInv, NEW page, Sends(page)
  PROVE  /\ times' \in [Key -> Nat]
         /\ \A k \in Key : times'[k] = IF k \in page THEN times[k] + 1 ELSE times[k]
  BY DEF TypeInv, TypeOK, Sends

\* What ReadPage reads: rows of the table,
LEMMA PageInTable ==
  ASSUME NEW page \in Pages
  PROVE  page \subseteq source
<1>1. CASE Ordered
  BY <1>1 DEF Pages, Answers, Page
<1>2. CASE ~Ordered
  <2>1. PICK size : page \in kSubset(size, source)
    BY <1>2 DEF Pages, Answers
  <2> QED
    BY <1>2, <2>1 DEF kSubset
<1> QED
  BY <1>1, <1>2

\* in an ordered answer those behind the offset, by their position.
LEMMA OrderedPage ==
  ASSUME Ordered, NEW page \in Pages
  PROVE  page = {k \in source : PageOffset < Rank(source, k)
                             /\ Rank(source, k) <= PageOffset + BatchSize}
  BY Zenon DEF Pages, Answers, Page

\* In the first state.
LEMMA InitTypes == Init => TypeInv
<1> SUFFICES ASSUME Init PROVE TypeInv
  OBVIOUS
<1>1. offset \in Nat /\ offset % BatchSize = 0
  BY SizesAssumption DEF Init
<1> QED
  BY <1>1 DEF Init, TypeInv, TypeOK, RowsInv

\* Every step keeps them.
LEMMA TypeStep == TypeInv /\ [Next]_vars => TypeInv'
<1> SUFFICES ASSUME TypeInv, [Next]_vars PROVE TypeInv'
  OBVIOUS
<1>1. CASE ReadPage
  <2>1. PICK page \in Pages : /\ Sends(page)
                              /\ \/ ppc' = "done" /\ offset' = offset
                                 \/ ppc' = ppc /\ offset' = offset + BatchSize
    BY <1>1 DEF ReadPage
  <2>2. UNCHANGED <<userOffset, source, initial, inserted, deleted>> /\ page \subseteq source
    BY <1>1, PageInTable DEF ReadPage, history
  <2>3. times' \in [Key -> Nat] /\ \A k \in Key \ page : times'[k] = times[k]
    BY <2>1, SentOnce
  <2>4. offset' \in Nat /\ offset' % BatchSize = 0
    BY <2>1, PageStart DEF TypeInv, TypeOK
  <2> QED
    BY <2>1, <2>2, <2>3, <2>4 DEF TypeInv, TypeOK, RowsInv
<1>2. CASE StatementRefused
  BY <1>2 DEF StatementRefused, history, TypeInv, TypeOK, RowsInv
<1>3. CASE Insert
  BY <1>3 DEF Insert, TypeInv, TypeOK, RowsInv
<1>4. CASE Delete
  BY <1>4 DEF Delete, TypeInv, TypeOK, RowsInv
<1>5. CASE UNCHANGED vars
  BY <1>5 DEF vars, TypeInv, TypeOK, RowsInv
<1> QED
  BY <1>1, <1>2, <1>3, <1>4, <1>5 DEF Next

\* TypeInv holds in every state.
LEMMA TypeInvariant == Spec => []TypeInv
  BY InitTypes, TypeStep, PTL DEF Spec

\* Values keep their types, and the offset is the beginning of a page.
THEOREM TypeCorrect == Spec => []TypeOK
<1>1. TypeInv => TypeOK
  BY DEF TypeInv
<1> QED
  BY <1>1, TypeInvariant, PTL

-----------------------------------------------------------------------------
(* Missed rows.                                                             *)

\* A statement may follow: with an OFFSET of the user only the first.
Reading == ppc = "read" /\ (offset = 0 \/ userOffset = 0)

\* The rows before the next page that were never sent.
Passed == {k \in Stable : times[k] = 0 /\ Rank(source, k) <= PageOffset}

MissInv ==
  /\ Reading => Cardinality(Passed) <= Cardinality(deleted) + userOffset
  /\ MissesBounded

\* The rows that were there all the time are in the table.
LEMMA StableThere == TypeInv => Stable \subseteq source /\ source \subseteq Key
  BY DEF TypeInv, TypeOK, RowsInv, Stable

\* Offsets are numbers.
LEMMA OffsetTypes ==
  TypeInv => /\ userOffset \in Nat /\ offset \in Nat /\ PageOffset \in Nat
             /\ IsFiniteSet(deleted) /\ Cardinality(deleted) \in Nat
             /\ IsFiniteSet(inserted) /\ Cardinality(inserted) \in Nat
  BY StatementAssumption, KeysFinite DEF TypeInv, TypeOK, PageOffset

\* A short page is the last: no row is behind it.
LEMMA ShortIsLast ==
  ASSUME TypeInv, Ordered, NEW page \in Pages, Cardinality(page) < BatchSize
  PROVE  \A k \in source : Rank(source, k) <= PageOffset + BatchSize
<1>1. page = Page(source, BatchSize, PageOffset)
  BY Zenon DEF Pages, Answers
<1> QED
  BY <1>1, OffsetTypes, StableThere, ShortPage

\* In the first state, where only rows that the user skips are passed.
LEMMA InitMissed == Init => MissInv
<1> SUFFICES ASSUME Init PROVE MissInv
  OBVIOUS
<1>1. TypeInv /\ deleted = {} /\ PageOffset = userOffset /\ ppc = "read"
  BY InitTypes DEF Init, PageOffset
<1>2. Passed \subseteq Upto(source, userOffset)
  BY <1>1, StableThere DEF Passed, Upto
<1>3. Cardinality(Passed) <= userOffset
  <2>1. userOffset \in Nat /\ source \subseteq Key
    BY <1>1, OffsetTypes, StableThere
  <2>2. /\ IsFiniteSet(Upto(source, userOffset)) /\ Cardinality(Upto(source, userOffset)) \in Nat
        /\ Cardinality(Upto(source, userOffset)) <= userOffset
    BY <2>1, UptoSize
  <2> QED
    BY <1>2, <2>1, <2>2, PartSize
<1>4. Cardinality(deleted) = 0 /\ userOffset \in Nat
  BY <1>1, FS_EmptySet, OffsetTypes
<1> QED
  BY <1>1, <1>3, <1>4 DEF MissInv, MissesBounded

\* Every step keeps it: a page passes no row that it does not send, an insert
\* moves rows away from what was read, and a delete moves one row into it.
LEMMA MissStep == Ordered /\ TypeInv /\ MissInv /\ [Next]_vars => MissInv'
<1> SUFFICES ASSUME Ordered, TypeInv, MissInv, [Next]_vars PROVE MissInv'
  OBVIOUS
<1>0. /\ Stable \subseteq source /\ source \subseteq Key /\ PageOffset \in Nat
      /\ userOffset \in Nat /\ offset \in Nat
      /\ IsFiniteSet(deleted) /\ Cardinality(deleted) \in Nat
  BY StableThere, OffsetTypes
<1>01. /\ IsFiniteSet(Passed) /\ Cardinality(Passed) \in Nat /\ Passed \subseteq Key
  <2>1. Passed \subseteq Key
    BY <1>0 DEF Passed
  <2> QED
    BY <2>1, KeysFinite
<1>02. \A k \in source : Rank(source, k) \in Nat
  BY <1>0, RankFacts
<1>1. CASE ReadPage
  <2>1. PICK page \in Pages :
          /\ Sends(page)
          /\ IF Cardinality(page) < BatchSize THEN ppc' = "done" /\ offset' = offset
             ELSE offset' = offset + BatchSize /\ ppc' = ppc
    BY <1>1 DEF ReadPage
  <2>2. /\ Reading /\ UNCHANGED <<userOffset, source, initial, inserted, deleted>>
    BY <1>1 DEF ReadPage, Reading, history
  <2>3. Cardinality(Passed) <= Cardinality(deleted) + userOffset
    BY <2>2 DEF MissInv
  <2>4. page = {k \in source : PageOffset < Rank(source, k)
                               /\ Rank(source, k) <= PageOffset + BatchSize}
    BY OrderedPage
  <2>5. Stable' = Stable /\ \A k \in Key : times'[k] = 0 => times[k] = 0 /\ k \notin page
    <3>1. \A k \in Key : times[k] \in Nat /\ times'[k] = IF k \in page THEN times[k] + 1 ELSE times[k]
      BY <2>1, SentOnce DEF TypeInv, TypeOK
    <3> QED
      BY <2>2, <3>1 DEF Stable
  <2>6. ASSUME NEW k \in Stable, times'[k] = 0, Rank(source, k) <= PageOffset + BatchSize
        PROVE  k \in Passed
    BY <1>0, <1>02, <2>4, <2>5, <2>6 DEF Passed
  <2>7. CASE Cardinality(page) < BatchSize
    <3>1. {k \in Stable : times'[k] = 0} \subseteq Passed
      BY <1>0, <2>6, <2>7, ShortIsLast
    <3>2. Cardinality({k \in Stable : times'[k] = 0}) <= Cardinality(Passed)
          /\ Cardinality({k \in Stable : times'[k] = 0}) \in Nat
      BY <1>01, <3>1, PartSize
    <3>3. Cardinality({k \in Stable : times'[k] = 0}) <= Cardinality(deleted) + userOffset
      BY <1>0, <1>01, <2>3, <3>2
    <3> QED
      BY <2>1, <2>2, <2>5, <2>7, <3>3 DEF MissInv, MissesBounded, Reading
  <2>8. CASE ~(Cardinality(page) < BatchSize)
    <3>1. ppc' = "read" /\ offset' = offset + BatchSize /\ offset' # 0
      BY <1>0, <2>1, <2>2, <2>8, SizesAssumption DEF Reading
    <3>2. ASSUME Reading' PROVE Cardinality(Passed') <= Cardinality(deleted) + userOffset
      <4>1. PageOffset' = PageOffset + BatchSize
        BY <2>2, <3>1, <3>2 DEF Reading, PageOffset
      <4>2. Passed' \subseteq Passed
        BY <2>2, <2>5, <2>6, <4>1 DEF Passed
      <4>3. Cardinality(Passed') <= Cardinality(Passed) /\ Cardinality(Passed') \in Nat
        BY <1>01, <4>2, PartSize
      <4> QED
        BY <1>0, <1>01, <2>3, <4>3
    <3> QED
      BY <2>2, <3>1, <3>2 DEF MissInv, MissesBounded
  <2> QED
    BY <2>7, <2>8
<1>2. CASE StatementRefused
  BY <1>2 DEF StatementRefused, MissInv, MissesBounded, Reading
<1>3. CASE Insert
  <2>1. PICK x \in Key \ (initial \cup inserted) :
          /\ source' = source \cup {x} /\ ppc = "read"
          /\ UNCHANGED <<userOffset, offset, ppc, times, initial, deleted>>
    BY <1>3 DEF Insert
  <2>2. Stable' = Stable /\ PageOffset' = PageOffset
    BY <2>1 DEF Stable, PageOffset
  <2>3. x \in Key \ source
    BY <2>1 DEF TypeInv, RowsInv
  <2>4. \A k \in Stable : Rank(source', k) >= Rank(source, k)
    <3> TAKE k \in Stable
    <3>1. k \in Key /\ Rank(source, k) \in Nat
      BY <1>0, <1>02
    <3>2. Rank(source \cup {x}, k) = IF x <= k THEN Rank(source, k) + 1 ELSE Rank(source, k)
      BY <1>0, <2>3, <3>1, RankAdded
    <3> QED
      BY <2>1, <3>1, <3>2
  <2>5. Passed' \subseteq Passed
    <3>1. \A k \in Stable : Rank(source', k) \in Nat
      <4>1. source' \subseteq Key /\ Stable \subseteq source'
        BY <1>0, <2>1
      <4> QED
        BY <4>1, RankFacts
    <3> QED
      BY <1>0, <1>02, <2>1, <2>2, <2>4, <3>1 DEF Passed
  <2>6. Cardinality(Passed') <= Cardinality(Passed) /\ Cardinality(Passed') \in Nat
    BY <1>01, <2>5, PartSize
  <2> QED
    BY <1>0, <1>01, <2>1, <2>6 DEF MissInv, MissesBounded, Reading
<1>4. CASE Delete
  <2>1. PICK x \in source :
          /\ source' = source \ {x} /\ deleted' = deleted \cup {x} /\ ppc = "read"
          /\ UNCHANGED <<userOffset, offset, ppc, times, initial, inserted>>
    BY <1>4 DEF Delete
  <2>2. x \notin deleted
    BY <2>1 DEF TypeInv, RowsInv
  <2>3. Cardinality(deleted') = Cardinality(deleted) + 1
    BY <1>0, <2>1, <2>2, FS_AddElement
  <2>4. Stable' = Stable \ {x} /\ PageOffset' = PageOffset
    BY <2>1 DEF Stable, PageOffset
  <2>5. \A k \in source' : Rank(source', k) + 1 >= Rank(source, k) /\ Rank(source', k) \in Nat
    <3> TAKE k \in source'
    <3>1. source' \subseteq Key /\ x \in Key \ source' /\ source' \cup {x} = source /\ k \in Key
      BY <1>0, <2>1
    <3>2. Rank(source, k) = IF x <= k THEN Rank(source', k) + 1 ELSE Rank(source', k)
      BY <3>1, RankAdded
    <3>3. Rank(source', k) \in Nat
      BY <3>1, RankFacts
    <3> QED
      BY <3>2, <3>3
  <2> DEFINE Next1 == {k \in source : Rank(source, k) = PageOffset + 1}
  <2>6. Passed' \subseteq Passed \cup Next1
    <3>1. Stable' \subseteq source' /\ Stable' \subseteq Stable /\ source' \subseteq source
      BY <1>0, <2>1, <2>4
    <3>2. \A k \in source' : Rank(source', k) <= PageOffset =>
            Rank(source, k) <= PageOffset \/ Rank(source, k) = PageOffset + 1
      BY <1>0, <1>02, <2>5, <3>1
    <3> QED
      BY <2>1, <2>4, <3>1, <3>2 DEF Passed
  <2>7. \E y : Next1 \subseteq {y}
    <3>1. \A j, k \in Next1 : j = k
      BY <1>0, RankFacts
    <3> QED
      BY <3>1
  <2>8. Cardinality(Passed') <= Cardinality(Passed) + 1 /\ Cardinality(Passed') \in Nat
    <3>1. PICK y : Next1 \subseteq {y}
      BY <2>7
    <3>2. Passed' \subseteq Passed \cup {y}
      BY <2>6, <3>1
    <3> QED
      BY <1>01, <3>2, OneMore
  <2>9. Reading' => Cardinality(Passed') <= Cardinality(deleted') + userOffset'
    BY <1>0, <1>01, <2>1, <2>3, <2>8 DEF MissInv, Reading
  <2> QED
    BY <2>1, <2>9 DEF MissInv, MissesBounded
<1>5. CASE UNCHANGED vars
  BY <1>5 DEF vars, MissInv, MissesBounded, Reading, Passed, Stable, PageOffset
<1> QED
  BY <1>1, <1>2, <1>3, <1>4, <1>5 DEF Next

\* In an ordered answer the reader misses at most one of the rows that were there
\* all the time for each row that was deleted, beside those the user skips.
THEOREM FewMissed ==
  ASSUME Ordered
  PROVE  Spec => []MissesBounded
<1>1. Init => TypeInv /\ MissInv
  BY InitTypes, InitMissed
<1>2. (TypeInv /\ MissInv) /\ [Next]_vars => (TypeInv /\ MissInv)'
  BY TypeStep, MissStep
<1>3. TypeInv /\ MissInv => MissesBounded
  BY DEF MissInv
<1> QED
  BY <1>1, <1>2, <1>3, PTL DEF Spec

-----------------------------------------------------------------------------
(* Repeated rows.                                                           *)

\* The rows behind what was read that would be a repetition: sent before, or
\* skipped by the user.
Due ==
  IF Reading
    THEN {k \in source : Rank(source, k) > PageOffset /\ (times[k] > 0 \/ k \in Skipped)}
    ELSE {}

SkippedSent == {k \in Skipped : times[k] > 0}

\* Every repetition that is there or due has an inserted row of its own.
RepeatInv ==
  /\ IsFiniteSet(Extra)
  /\ Cardinality(Extra) + Cardinality(SkippedSent) + Cardinality(Due) <= Cardinality(inserted)

\* They are numbers.
LEMMA RepeatTypes ==
  TypeInv => /\ Due \subseteq Key /\ IsFiniteSet(Due) /\ Cardinality(Due) \in Nat
             /\ SkippedSent \subseteq Key /\ IsFiniteSet(SkippedSent)
             /\ Cardinality(SkippedSent) \in Nat
<1> SUFFICES ASSUME TypeInv
             PROVE  /\ Due \subseteq Key /\ IsFiniteSet(Due) /\ Cardinality(Due) \in Nat
                    /\ SkippedSent \subseteq Key /\ IsFiniteSet(SkippedSent)
                    /\ Cardinality(SkippedSent) \in Nat
  OBVIOUS
<1>1. Due \subseteq Key /\ SkippedSent \subseteq Key
  BY StableThere DEF Due, SkippedSent, Skipped, TypeInv, TypeOK
<1> QED
  BY <1>1, KeysFinite

\* A page repeats each of its rows that were sent before once.
LEMMA ExtraSent ==
  ASSUME TypeInv, NEW page, Sends(page), IsFiniteSet(Extra),
         NEW A, A = {k \in page : times[k] > 0}, page \subseteq Key
  PROVE  /\ IsFiniteSet(Extra') /\ Cardinality(Extra') \in Nat
         /\ Cardinality(Extra') <= Cardinality(Extra) + Cardinality(A)
<1> DEFINE f == [k \in A |-> <<k, times[k] + 1>>]
           T == {f[k] : k \in A}
<1>1. IsFiniteSet(A) /\ Cardinality(A) \in Nat
  <2>1. A \subseteq Key
    OBVIOUS
  <2> QED
    BY <2>1, KeysFinite
<1>2. IsFiniteSet(T) /\ Cardinality(T) <= Cardinality(A)
  <2>1. f \in Surjection(A, T)
    BY DEF Surjection
  <2> HIDE DEF f, T
  <2> QED
    BY <1>1, <2>1, FS_Surjection
<1>3. \A k \in Key : times[k] \in Nat /\ times'[k] = IF k \in page THEN times[k] + 1 ELSE times[k]
  BY SentOnce DEF TypeInv, TypeOK
<1>4. Extra' \subseteq Extra \cup T
  <2> SUFFICES ASSUME NEW x \in Extra' PROVE x \in Extra \cup T
    OBVIOUS
  <2>1. PICK k \in Key : x \in {k} \X (2..times'[k])
    BY DEF Extra
  <2>2. PICK n \in 2..times'[k] : x = <<k, n>>
    BY <2>1
  <2>3. CASE n <= times[k]
    <3>1. n \in 2..times[k]
      BY <1>3, <2>2, <2>3
    <3>2. x \in {k} \X (2..times[k])
      BY <2>2, <3>1
    <3> QED
      BY <3>2 DEF Extra
  <2>4. CASE ~(n <= times[k])
    <3>1. k \in page /\ n = times[k] + 1 /\ times[k] > 0
      BY <1>3, <2>2, <2>4
    <3>2. k \in A /\ x = f[k]
      BY <2>2, <3>1
    <3> QED
      BY <3>2
  <2> QED
    BY <2>3, <2>4
<1>5. /\ IsFiniteSet(Extra \cup T) /\ Cardinality(Extra) \in Nat /\ Cardinality(T) \in Nat
      /\ Cardinality(Extra \cup T) <= Cardinality(Extra) + Cardinality(T)
  <2>1. /\ IsFiniteSet(Extra \cup T)
        /\ Cardinality(Extra \cup T) = Cardinality(Extra) + Cardinality(T) - Cardinality(Extra \cap T)
    BY <1>2, FS_Union, Zenon
  <2>2. IsFiniteSet(Extra \cap T)
    BY <1>2, FS_Intersection, Zenon
  <2>3. Cardinality(Extra) \in Nat /\ Cardinality(T) \in Nat /\ Cardinality(Extra \cap T) \in Nat
    BY <1>2, <2>2, FS_CardinalityType, Zenon
  <2> QED
    BY <2>1, <2>3
<1>6. /\ IsFiniteSet(Extra') /\ Cardinality(Extra') \in Nat
      /\ Cardinality(Extra') <= Cardinality(Extra \cup T)
  BY <1>4, <1>5, PartSize, Zenon
<1>7. Cardinality(Extra \cup T) \in Nat
  BY <1>5, FS_CardinalityType, Zenon
<1> HIDE DEF T
<1> QED
  BY <1>1, <1>2, <1>5, <1>6, <1>7

\* In the first state.
LEMMA InitRepeats == Init => RepeatInv
<1> SUFFICES ASSUME Init PROVE RepeatInv
  OBVIOUS
<1>1. TypeInv /\ \A k \in Key : times[k] = 0
  BY InitTypes DEF Init
<1>2. Extra = {}
  BY <1>1 DEF Extra
<1>3. SkippedSent = {}
  BY <1>1 DEF SkippedSent, Skipped, TypeInv, TypeOK
<1>4. Due = {}
  <2>1. PageOffset = userOffset /\ userOffset \in Nat /\ source = initial /\ source \subseteq Key
    BY <1>1, OffsetTypes DEF Init, PageOffset
  <2>2. \A k \in source : Rank(source, k) \in Nat
    BY <2>1, RankFacts
  <2>3. \A k \in source : ~(Rank(source, k) > PageOffset /\ (times[k] > 0 \/ k \in Skipped))
    <3> TAKE k \in source
    <3>1. k \in Skipped => Rank(source, k) <= userOffset
      BY <2>1 DEF Skipped, Rank
    <3> QED
      BY <1>1, <2>1, <2>2, <3>1
  <2> QED
    BY <2>3 DEF Due
<1>5. inserted = {}
  BY DEF Init
<1> QED
  BY <1>2, <1>3, <1>4, <1>5, FS_EmptySet DEF RepeatInv

\* A page turns what was due into what is there, and leaves the rest due.
LEMMA RepeatsRead == Ordered /\ TypeInv /\ RepeatInv /\ ReadPage => RepeatInv'
<1> SUFFICES ASSUME Ordered, TypeInv, RepeatInv, ReadPage PROVE RepeatInv'
  OBVIOUS
<1>1. PICK page \in Pages :
        /\ Sends(page)
        /\ IF Cardinality(page) < BatchSize THEN ppc' = "done" /\ offset' = offset
           ELSE offset' = offset + BatchSize /\ ppc' = ppc
  BY DEF ReadPage
<1>2. Reading /\ UNCHANGED <<userOffset, source, initial, inserted, deleted>>
  BY DEF ReadPage, Reading, history
<1>3. page = {k \in source : PageOffset < Rank(source, k)
                             /\ Rank(source, k) <= PageOffset + BatchSize}
  BY <1>1, OrderedPage
<1>4. source \subseteq Key /\ PageOffset \in Nat /\ offset \in Nat /\ page \subseteq Key
  BY <1>1, StableThere, OffsetTypes, PageInTable
<1>5. \A k \in source : Rank(source, k) \in Nat
  BY <1>4, RankFacts
<1>6. \A k \in Key : times[k] \in Nat /\ times'[k] = IF k \in page THEN times[k] + 1 ELSE times[k]
  BY <1>1, SentOnce DEF TypeInv, TypeOK
<1> DEFINE A == {k \in page : times[k] > 0}
           B == {k \in page : times[k] = 0 /\ k \in Skipped}
<1>7. /\ IsFiniteSet(A) /\ Cardinality(A) \in Nat
      /\ IsFiniteSet(B) /\ Cardinality(B) \in Nat
  <2>1. A \subseteq Key /\ B \subseteq Key
    BY <1>4
  <2> QED
    BY <2>1, KeysFinite
<1>8. /\ IsFiniteSet(Extra') /\ Cardinality(Extra') \in Nat
      /\ Cardinality(Extra') <= Cardinality(Extra) + Cardinality(A)
  BY <1>1, <1>4, ExtraSent DEF RepeatInv
<1>9. Skipped' = Skipped
  BY <1>2 DEF Skipped
<1>10. /\ SkippedSent' = SkippedSent \cup B /\ SkippedSent \cap B = {}
  <2>1. Skipped \subseteq Key
    BY DEF Skipped, TypeInv, TypeOK
  <2> QED
    BY <1>4, <1>6, <1>9, <2>1 DEF SkippedSent
<1>11. IsFiniteSet(SkippedSent) /\ IsFiniteSet(Due) /\ Cardinality(SkippedSent) \in Nat
       /\ Cardinality(Due) \in Nat
  BY RepeatTypes
<1>12. Cardinality(SkippedSent') = Cardinality(SkippedSent) + Cardinality(B)
  BY <1>7, <1>10, <1>11, DisjointSize
<1>13. A \cup B \subseteq Due /\ A \cap B = {}
  BY <1>2, <1>3, <1>4, <1>6 DEF Due
<1>14. Due' \subseteq Due /\ Due' \cap (A \cup B) = {}
  <2> SUFFICES ASSUME NEW k \in Due' PROVE k \in Due /\ k \notin page
    OBVIOUS
  <2>1. Reading' /\ k \in source /\ Rank(source, k) > PageOffset' /\ (times'[k] > 0 \/ k \in Skipped)
    BY <1>2, <1>9 DEF Due
  <2>2. offset' = offset + BatchSize /\ offset' # 0 /\ userOffset = 0
    BY <1>1, <1>2, <1>4, <2>1, SizesAssumption DEF Reading
  <2>3. PageOffset' = PageOffset + BatchSize
    BY <1>2, <2>2 DEF PageOffset
  <2>4. k \notin page /\ Rank(source, k) > PageOffset
    BY <1>3, <1>4, <1>5, <2>1, <2>3, SizesAssumption
  <2> QED
    BY <1>2, <1>4, <1>6, <2>1, <2>4 DEF Due
<1>15. Cardinality(Due') + Cardinality(A) + Cardinality(B) <= Cardinality(Due)
       /\ Cardinality(Due') \in Nat
  <2> HIDE DEF A, B
  <2>1. IsFiniteSet(A \cup B) /\ Cardinality(A \cup B) = Cardinality(A) + Cardinality(B)
    BY <1>7, <1>13, DisjointSize
  <2>2. IsFiniteSet(Due') /\ Cardinality(Due') \in Nat
    BY <1>11, <1>14, PartSize
  <2>3. Cardinality(Due' \cup (A \cup B)) = Cardinality(Due') + Cardinality(A \cup B)
    BY <1>14, <2>1, <2>2, DisjointSize
  <2>4. Due' \cup (A \cup B) \subseteq Due
    BY <1>13, <1>14
  <2>5. Cardinality(Due' \cup (A \cup B)) <= Cardinality(Due)
    BY <1>11, <2>4, PartSize
  <2> QED
    BY <1>7, <2>1, <2>2, <2>3, <2>5
<1>16. Cardinality(Extra) + Cardinality(SkippedSent) + Cardinality(Due) <= Cardinality(inserted)
       /\ Cardinality(Extra) \in Nat /\ Cardinality(inserted) \in Nat
  BY OffsetTypes, FS_CardinalityType DEF RepeatInv
<1>17. inserted' = inserted
  BY <1>2
<1> HIDE DEF A, B
<1>18. Cardinality(Extra') + Cardinality(SkippedSent') + Cardinality(Due') <= Cardinality(inserted')
  BY <1>7, <1>8, <1>11, <1>12, <1>15, <1>16, <1>17
<1> QED
  BY <1>8, <1>18 DEF RepeatInv

\* Every step keeps it: an insert moves one row behind what was read, and a delete
\* moves rows away from there.
LEMMA RepeatStep == Ordered /\ TypeInv /\ RepeatInv /\ [Next]_vars => RepeatInv'
<1> SUFFICES ASSUME Ordered, TypeInv, RepeatInv, [Next]_vars PROVE RepeatInv'
  OBVIOUS
<1>0. /\ source \subseteq Key /\ PageOffset \in Nat
      /\ IsFiniteSet(Extra) /\ Cardinality(Extra) \in Nat
      /\ Cardinality(Extra) + Cardinality(SkippedSent) + Cardinality(Due) <= Cardinality(inserted)
      /\ IsFiniteSet(inserted) /\ Cardinality(inserted) \in Nat
      /\ IsFiniteSet(Due) /\ Cardinality(Due) \in Nat /\ Cardinality(SkippedSent) \in Nat
  BY StableThere, OffsetTypes, RepeatTypes, FS_CardinalityType DEF RepeatInv
<1>1. CASE ReadPage
  BY <1>1, RepeatsRead
<1>2. CASE StatementRefused
  <2>1. Extra' = Extra /\ SkippedSent' = SkippedSent /\ inserted' = inserted
    BY <1>2 DEF StatementRefused, history, Extra, SkippedSent, Skipped
  <2>2. Due' = {}
    BY <1>2 DEF StatementRefused, Due, Reading
  <2>3. Cardinality(Due') = 0
    BY <2>2, FS_EmptySet
  <2> QED
    BY <1>0, <2>1, <2>3 DEF RepeatInv
<1>3. CASE Insert
  <2>1. PICK x \in Key \ (initial \cup inserted) :
          /\ source' = source \cup {x} /\ inserted' = inserted \cup {x}
          /\ UNCHANGED <<userOffset, offset, ppc, times, initial, deleted>>
    BY <1>3 DEF Insert
  <2>2. /\ Extra' = Extra /\ SkippedSent' = SkippedSent /\ Skipped' = Skipped
        /\ PageOffset' = PageOffset /\ Reading' = Reading
    BY <2>1 DEF Extra, SkippedSent, Skipped, PageOffset, Reading
  <2>3. x \in Key \ source /\ times[x] = 0 /\ x \notin Skipped
    BY <2>1 DEF TypeInv, RowsInv, Skipped
  <2>4. Cardinality(inserted') = Cardinality(inserted) + 1
    BY <1>0, <2>1, FS_AddElement
  <2> DEFINE Last == {k \in source : Rank(source, k) = PageOffset}
  <2>5. \E y : Last \subseteq {y}
    <3>1. \A j, k \in Last : j = k
      BY <1>0, RankFacts
    <3> QED
      BY <3>1
  <2>6. Due' \subseteq Due \cup Last
    <3>0. CASE ~Reading
      BY <2>2, <3>0 DEF Due
    <3>1. CASE Reading
      <4> SUFFICES ASSUME NEW k \in Due' PROVE k \in Due \cup Last
        OBVIOUS
      <4>1. /\ k \in source' /\ Rank(source', k) > PageOffset
            /\ times[k] > 0 \/ k \in Skipped
        BY <2>1, <2>2, <3>1 DEF Due
      <4>2. k \in source
        BY <2>1, <2>3, <4>1
      <4>3. Rank(source', k) <= Rank(source, k) + 1 /\ Rank(source, k) \in Nat
        <5>1. Rank(source \cup {x}, k) = IF x <= k THEN Rank(source, k) + 1 ELSE Rank(source, k)
          BY <1>0, <2>3, <4>2, RankAdded
        <5>2. Rank(source, k) \in Nat
          BY <1>0, RankFacts
        <5> QED
          BY <2>1, <5>1, <5>2
      <4>4. Rank(source', k) \in Nat
        <5>1. source' \subseteq Key
          BY <1>0, <2>1
        <5> QED
          BY <5>1, RankFacts
      <4>5. Rank(source, k) > PageOffset \/ Rank(source, k) = PageOffset
        BY <1>0, <4>1, <4>3, <4>4
      <4> QED
        BY <3>1, <4>1, <4>2, <4>5 DEF Due
    <3> QED
      BY <3>0, <3>1
  <2>7. Cardinality(Due') <= Cardinality(Due) + 1 /\ Cardinality(Due') \in Nat
    <3>1. PICK y : Last \subseteq {y}
      BY <2>5
    <3>2. Due' \subseteq Due \cup {y}
      BY <2>6, <3>1
    <3> QED
      BY <1>0, <3>2, OneMore
  <2>8. Cardinality(Extra') + Cardinality(SkippedSent') + Cardinality(Due') <= Cardinality(inserted')
    BY <1>0, <2>2, <2>4, <2>7
  <2> QED
    BY <1>0, <2>2, <2>8 DEF RepeatInv
<1>4. CASE Delete
  <2>1. PICK x \in source :
          /\ source' = source \ {x}
          /\ UNCHANGED <<userOffset, offset, ppc, times, initial, inserted>>
    BY <1>4 DEF Delete
  <2>2. /\ Extra' = Extra /\ SkippedSent' = SkippedSent /\ Skipped' = Skipped
        /\ PageOffset' = PageOffset /\ Reading' = Reading
    BY <2>1 DEF Extra, SkippedSent, Skipped, PageOffset, Reading
  <2>3. Due' \subseteq Due
    <3>0. CASE ~Reading
      BY <2>2, <3>0 DEF Due
    <3>1. CASE Reading
      <4> SUFFICES ASSUME NEW k \in Due' PROVE k \in Due
        OBVIOUS
      <4>1. /\ k \in source' /\ Rank(source', k) > PageOffset
            /\ times[k] > 0 \/ k \in Skipped
        BY <2>1, <2>2, <3>1 DEF Due
      <4>2. /\ source' \subseteq Key /\ x \in Key \ source' /\ source' \cup {x} = source
            /\ k \in Key /\ k \in source
        BY <1>0, <2>1, <4>1
      <4>3. Rank(source, k) = IF x <= k THEN Rank(source', k) + 1 ELSE Rank(source', k)
        BY <4>2, RankAdded
      <4>4. Rank(source', k) \in Nat
        BY <4>2, RankFacts
      <4>5. Rank(source, k) > PageOffset
        BY <1>0, <4>1, <4>3, <4>4
      <4> QED
        BY <3>1, <4>1, <4>2, <4>5 DEF Due
    <3> QED
      BY <3>0, <3>1
  <2>4. Cardinality(Due') <= Cardinality(Due) /\ Cardinality(Due') \in Nat
    BY <1>0, <2>3, PartSize
  <2>5. Cardinality(Extra') + Cardinality(SkippedSent') + Cardinality(Due') <= Cardinality(inserted')
    BY <1>0, <2>1, <2>2, <2>4
  <2> QED
    BY <1>0, <2>2, <2>5 DEF RepeatInv
<1>5. CASE UNCHANGED vars
  BY <1>5 DEF vars, RepeatInv, Due, SkippedSent, Skipped, Extra, Reading, PageOffset
<1> QED
  BY <1>1, <1>2, <1>3, <1>4, <1>5 DEF Next

\* In an ordered answer the reader sends at most one row too many for each row
\* that was inserted: one that it sent before or that the user skips.
THEOREM FewRepeated ==
  ASSUME Ordered
  PROVE  Spec => []RepeatsBounded
<1>1. Init => TypeInv /\ RepeatInv
  BY InitTypes, InitRepeats
<1>2. (TypeInv /\ RepeatInv) /\ [Next]_vars => (TypeInv /\ RepeatInv)'
  BY TypeStep, RepeatStep
<1>3. TypeInv /\ RepeatInv => RepeatsBounded
  <2> SUFFICES ASSUME TypeInv, RepeatInv PROVE RepeatsBounded
    OBVIOUS
  <2>1. /\ Cardinality(Extra) \in Nat /\ Cardinality(Due) \in Nat
        /\ Cardinality(SkippedSent) \in Nat /\ Cardinality(inserted) \in Nat
    BY RepeatTypes, OffsetTypes, FS_CardinalityType DEF RepeatInv
  <2> QED
    BY <2>1 DEF RepeatInv, RepeatsBounded, SkippedSent
<1> QED
  BY <1>1, <1>2, <1>3, PTL DEF Spec

-----------------------------------------------------------------------------
(* A table that stands still.                                               *)

\* As many keys are among the first n as there are, and n at most.
LEMMA UptoCount ==
  ASSUME NEW S, S \subseteq Key, NEW n \in Nat
  PROVE  Cardinality(Upto(S, n)) = IF n <= Cardinality(S) THEN n ELSE Cardinality(S)
<1>0. /\ IsFiniteSet(S) /\ Cardinality(S) \in Nat
      /\ Upto(S, n) \subseteq S /\ Cardinality(Upto(S, n)) \in Nat /\ Cardinality(Upto(S, n)) <= n
  BY KeysFinite, UptoSize
<1>1. Cardinality(Upto(S, n)) <= Cardinality(S)
  BY <1>0, PartSize
<1>2. CASE \E k \in S : Rank(S, k) > n
  <2>1. Cardinality(Upto(S, n)) = n
    BY <1>2, UptoSize
  <2> QED
    BY <1>0, <1>1, <2>1
<1>3. CASE ~ \E k \in S : Rank(S, k) > n
  <2>1. \A k \in S : Rank(S, k) \in Nat
    BY RankFacts
  <2>2. Upto(S, n) = S
    BY <1>3, <2>1 DEF Upto
  <2> QED
    BY <1>0, <2>2
<1> QED
  BY <1>2, <1>3

\* A page has as many rows as are left behind its offset, and a full page at
\* most: what DatabaseReader's PageLen says of a table by its number of rows.
THEOREM PageSize ==
  ASSUME NEW S, S \subseteq Key, NEW o \in Nat
  PROVE  Cardinality(Page(S, BatchSize, o)) =
           IF o + BatchSize <= Cardinality(S) THEN BatchSize
           ELSE IF o < Cardinality(S) THEN Cardinality(S) - o ELSE 0
<1> DEFINE page == Page(S, BatchSize, o)
<1>0. o + BatchSize \in Nat /\ BatchSize \in Nat /\ BatchSize >= 1
  BY SizesAssumption
<1>1. Upto(S, o + BatchSize) = Upto(S, o) \cup page /\ Upto(S, o) \cap page = {}
  BY UptoPage
<1>2. IsFiniteSet(page) /\ Cardinality(page) \in Nat
  <2>1. page \subseteq Key
    BY UptoPage
  <2> QED
    BY <2>1, KeysFinite
<1>3. IsFiniteSet(Upto(S, o)) /\ Cardinality(Upto(S, o)) \in Nat
  BY UptoSize
<1>4. IsFiniteSet(S) /\ Cardinality(S) \in Nat
  BY KeysFinite
<1> HIDE DEF page
<1>5. Cardinality(Upto(S, o + BatchSize)) = Cardinality(Upto(S, o)) + Cardinality(page)
  BY <1>1, <1>2, <1>3, DisjointSize
<1>6. Cardinality(Upto(S, o)) = IF o <= Cardinality(S) THEN o ELSE Cardinality(S)
  BY UptoCount
<1>7. Cardinality(Upto(S, o + BatchSize)) =
        IF o + BatchSize <= Cardinality(S) THEN o + BatchSize ELSE Cardinality(S)
  BY <1>0, UptoCount
<1>8. Cardinality(page) =
        IF o + BatchSize <= Cardinality(S) THEN BatchSize
        ELSE IF o < Cardinality(S) THEN Cardinality(S) - o ELSE 0
  BY <1>0, <1>2, <1>4, <1>5, <1>6, <1>7
<1> QED
  BY <1>8 DEF page


\* A set of no repetitions, and a set of no more than the skipped rows that has
\* them all.
LEMMA StillRead ==
  TypeInv /\ MissesBounded /\ RepeatInv => StillExact
<1> SUFFICES ASSUME TypeInv, MissesBounded, RepeatInv, ppc = "done", inserted = {}, deleted = {},
                    NEW k \in Key
             PROVE  times[k] = IF k \in initial \ Skipped THEN 1 ELSE 0
  BY DEF StillExact
<1> DEFINE Missed == {j \in initial : times[j] = 0}
<1>0. /\ \A j \in Key : times[j] \in Nat
      /\ initial \subseteq Key /\ userOffset \in Nat
  BY OffsetTypes DEF TypeInv, TypeOK
<1>1. Cardinality(inserted) = 0 /\ Cardinality(deleted) = 0
  BY FS_EmptySet
<1>2. /\ Cardinality(Extra) \in Nat /\ Cardinality(Due) \in Nat
      /\ Cardinality(SkippedSent) \in Nat
      /\ Cardinality(Extra) + Cardinality(SkippedSent) + Cardinality(Due) <= Cardinality(inserted)
      /\ IsFiniteSet(Extra) /\ IsFiniteSet(SkippedSent)
  BY RepeatTypes, FS_CardinalityType DEF RepeatInv
<1>3. Extra = {} /\ SkippedSent = {}
  <2>1. Cardinality(Extra) = 0 /\ Cardinality(SkippedSent) = 0
    BY <1>1, <1>2
  <2> QED
    BY <1>2, <2>1, FS_EmptySet
<1>4. times[k] <= 1
  <2>1. ASSUME times[k] > 1 PROVE FALSE
    <3>1. 2 \in 2..times[k]
      BY <1>0, <2>1
    <3>2. <<k, 2>> \in Extra
      BY <3>1 DEF Extra
    <3> QED
      BY <1>3, <3>2
  <2> QED
    BY <1>0, <2>1
<1>5. Skipped = Upto(initial, userOffset)
  BY DEF Skipped, Upto
<1>6. Skipped \subseteq Missed
  <2>1. \A j \in Skipped : j \in initial /\ j \in Key /\ ~(times[j] > 0)
    BY <1>0, <1>3 DEF Skipped, SkippedSent
  <2> QED
    BY <1>0, <2>1
<1>7. CASE k \in initial \ Skipped
  <2>1. Rank(initial, k) > userOffset
    BY <1>0, <1>7, RankFacts DEF Skipped
  <2>2. Cardinality(Skipped) = userOffset
    BY <1>0, <1>5, <1>7, <2>1, UptoSize
  <2>3. Missed = {j \in Stable : times[j] = 0}
    BY DEF Stable
  <2>4. IsFiniteSet(Missed) /\ Cardinality(Missed) \in Nat
    <3>1. Missed \subseteq Key
      BY <1>0
    <3> QED
      BY <3>1, KeysFinite
  <2>5. Cardinality(Missed) <= userOffset
    <3>1. Cardinality({j \in Stable : times[j] = 0}) <= Cardinality(deleted) + userOffset
      BY Zenon DEF MissesBounded
    <3>2. Cardinality(Missed) = Cardinality({j \in Stable : times[j] = 0})
      BY <2>3, Zenon
    <3> HIDE DEF Missed
    <3> QED
      BY <1>0, <1>1, <2>4, <3>1, <3>2
  <2> HIDE DEF Missed
  <2>6. Skipped = Missed
    BY <1>0, <1>6, <2>2, <2>4, <2>5, FS_Subset
  <2>7. times[k] # 0
    BY <1>7, <2>6 DEF Missed
  <2> QED
    BY <1>0, <1>4, <1>7, <2>7
<1>8. CASE k \notin initial
  BY <1>8 DEF TypeInv, RowsInv
<1>9. CASE k \in Skipped
  BY <1>6, <1>9
<1> QED
  BY <1>7, <1>8, <1>9

\* In an ordered answer of a table that stands still every row is sent exactly
\* once but those the user skips: the pages neither overlap nor leave a gap.
THEOREM StillReadExactly ==
  ASSUME Ordered
  PROVE  Spec => []StillExact
<1>1. Init => TypeInv /\ MissInv /\ RepeatInv
  BY InitTypes, InitMissed, InitRepeats
<1>2. (TypeInv /\ MissInv /\ RepeatInv) /\ [Next]_vars => (TypeInv /\ MissInv /\ RepeatInv)'
  BY TypeStep, MissStep, RepeatStep
<1>3. TypeInv /\ MissInv /\ RepeatInv => StillExact
  BY StillRead DEF MissInv
<1> QED
  BY <1>1, <1>2, <1>3, PTL DEF Spec

-----------------------------------------------------------------------------
(* IncrementalSync: types, marks and what a statement selects.              *)

\* Fields and strategies go together, no mark is later than what the application
\* has noted, and the value belongs to the field it was set for.
MarksInv ==
  /\ clock >= 1 /\ \A k \in Key : rows[k] <= clock
  /\ ipc = "read" => covered <= started
  /\ config.time <= covered
  /\ valueOf = "none" => config.value = 0
  /\ valueOf = "id" => config.value <= topId
  /\ valueOf = "stamp" => config.value <= covered
  /\ \/ config.field = "none" /\ config.strategy = "none"
     \/ config.field = "id" /\ config.strategy = "autoinc"
     \/ config.field = "stamp" /\ config.strategy \in {"timestamp", "version", "custom"}

SyncTypes == TypeSync /\ MarksInv

\* What follows from the types of IncrementalSync, in a form the provers like.
LEMMA SyncSets ==
  ASSUME SyncTypes
  PROVE  /\ Existing \subseteq Key /\ Selected(config) \subseteq Existing
         /\ stale \subseteq Existing /\ owed \subseteq Existing
         /\ offset \in Nat /\ gaps \in Nat /\ clock \in Nat /\ started \in Nat /\ covered \in Nat
         /\ topId \in Nat /\ last \in Nat /\ config.time \in Nat /\ config.value \in Nat
         /\ \A k \in Key : rows[k] \in Nat /\ k \in Nat
         /\ config.custom \in BOOLEAN /\ switched \in BOOLEAN
<1>1. Existing \subseteq Key /\ Selected(config) \subseteq Existing
  BY DEF Existing, Selected
<1>2. config.time \in Nat /\ config.value \in Nat /\ config.custom \in BOOLEAN
  BY BoundsAssumption DEF SyncTypes, TypeSync, Config, Clock
<1>3. clock \in Nat /\ started \in Nat /\ covered \in Nat /\ topId \in Nat /\ last \in Nat
  BY BoundsAssumption, SizesAssumption DEF SyncTypes, TypeSync, Clock
<1>4. \A k \in Key : rows[k] \in Nat /\ k \in Nat
  BY BoundsAssumption, SizesAssumption DEF SyncTypes, TypeSync, Clock, Key
<1> QED
  BY <1>1, <1>2, <1>3, <1>4 DEF SyncTypes, TypeSync

\* The conditions that a statement may have.
LEMMA Conditions ==
  ASSUME SyncTypes, Filters(config)
  PROVE  \/ config.field = "id" /\ config.strategy = "autoinc" /\ config.value # 0
         \/ config.field = "stamp" /\ config.strategy = "timestamp"
         \/ config.field = "stamp" /\ config.strategy = "version" /\ config.value # 0
         \/ config.field = "stamp" /\ config.strategy = "custom"
<1>1. CASE config.strategy = "autoinc"
  <2>1. BuildCondition(config) <=> config.value # 0
    BY <1>1 DEF BuildCondition
  <2> QED
    BY <1>1, <2>1 DEF Filters, SyncTypes, MarksInv
<1>2. CASE config.strategy = "version"
  <2>1. BuildCondition(config) <=> config.value # 0
    BY <1>2 DEF BuildCondition
  <2> QED
    BY <1>2, <2>1 DEF Filters, SyncTypes, MarksInv
<1>3. CASE config.strategy \in {"timestamp", "custom"}
  BY <1>3 DEF Filters, SyncTypes, MarksInv
<1>4. CASE config.strategy = "none"
  BY <1>4 DEF Filters, SyncTypes, MarksInv
<1> QED
  BY <1>1, <1>2, <1>3, <1>4 DEF SyncTypes, MarksInv

\* Which rows they are about.
LEMMA Selects ==
  ASSUME SyncTypes, NEW k \in Existing
  PROVE  /\ ~Filters(config) => k \in Selected(config)
         /\ Filters(config) /\ config.strategy = "autoinc" => (k \in Selected(config) <=> k > config.value)
         /\ Filters(config) /\ config.strategy = "timestamp" => (k \in Selected(config) <=> rows[k] > config.time)
         /\ Filters(config) /\ config.strategy = "version" => (k \in Selected(config) <=> rows[k] > config.value)
         /\ Filters(config) /\ config.strategy = "custom" => (k \in Selected(config) <=> rows[k] >= config.time)
<1>1. ~Filters(config) => k \in Selected(config)
  BY DEF Selected
<1>2. Filters(config) => (k \in Selected(config) <=> Passes(config, k))
  BY DEF Selected
<1>3. ASSUME Filters(config), config.strategy = "autoinc" PROVE Passes(config, k) <=> k > config.value
  BY <1>3, Conditions DEF Passes
<1>4. ASSUME Filters(config), config.strategy = "timestamp" PROVE Passes(config, k) <=> rows[k] > config.time
  BY <1>4, Conditions DEF Passes
<1>5. ASSUME Filters(config), config.strategy = "version" PROVE Passes(config, k) <=> rows[k] > config.value
  BY <1>5, Conditions DEF Passes
<1>6. ASSUME Filters(config), config.strategy = "custom" PROVE Passes(config, k) <=> rows[k] >= config.time
  BY <1>6, Conditions DEF Passes
<1> QED
  BY <1>1, <1>2, <1>3, <1>4, <1>5, <1>6, Zenon

\* In the first state.
LEMMA InitSync == SyncInit => SyncTypes
<1> SUFFICES ASSUME SyncInit PROVE SyncTypes
  OBVIOUS
<1>1. /\ config \in Config /\ config.time = 0 /\ config.value = 0
      /\ \/ config.field = "none" /\ config.strategy = "none"
         \/ config.field = "id" /\ config.strategy = "autoinc"
         \/ config.field = "stamp" /\ config.strategy \in {"timestamp", "version", "custom"}
  <2>0. 0 \in Clock /\ 0 \in Nat
    BY BoundsAssumption DEF Clock
  <2>1. CASE config = NoIncrements
    BY <2>0, <2>1 DEF NoIncrements, Config
  <2>2. CASE \E t \in Strategies :
               config = [NoIncrements EXCEPT !.mode = "incremental", !.field = t[1], !.strategy = t[2]]
    <3>1. PICK t \in Strategies :
            config = [NoIncrements EXCEPT !.mode = "incremental", !.field = t[1], !.strategy = t[2]]
      BY <2>2
    <3>2. config = [mode |-> "incremental", field |-> t[1], strategy |-> t[2], custom |-> FALSE,
                    time |-> 0, value |-> 0]
      BY <3>1 DEF NoIncrements
    <3>3. \/ t[1] = "id" /\ t[2] = "autoinc"
          \/ t[1] = "stamp" /\ t[2] \in {"timestamp", "version", "custom"}
      BY DEF Strategies
    <3> QED
      BY <2>0, <3>2, <3>3 DEF Config
  <2> QED
    BY <2>1, <2>2 DEF SyncInit
<1>2. /\ 0 \in Nat /\ 0 % BatchSize = 0 /\ 0 \in Clock /\ 1 \in Clock /\ 0 \in 0..1 /\ 0 \in 0..MaxKey
  BY BoundsAssumption, SizesAssumption DEF Clock
<1>3. TypeSync
  BY <1>1, <1>2 DEF SyncInit, TypeSync
<1>4. MarksInv
  <2>1. /\ clock = 1 /\ rows \in [Key -> {0, 1}] /\ ipc = "idle" /\ covered = 0 /\ valueOf = "none"
    BY Zenon DEF SyncInit
  <2>2. \A k \in Key : rows[k] <= clock
    <3>1. \A k \in Key : rows[k] \in {0, 1}
      BY <2>1
    <3> QED
      BY <2>1, <3>1
  <2> QED
    BY <1>1, <2>1, <2>2 DEF MarksInv
<1> QED
  BY <1>3, <1>4 DEF SyncTypes

\* Keys of a run that the application takes note of are keys.
LEMMA NotedKeys ==
  ASSUME SyncTypes
  PROVE  /\ Max({topId, last} \cup PageAt(offset)) \in 0..MaxKey
         /\ topId <= Max({topId, last} \cup PageAt(offset))
         /\ PageAt(offset) # {} => Max(PageAt(offset)) \in 0..MaxKey
<1>1. PageAt(offset) \subseteq 0..MaxKey /\ topId \in 0..MaxKey /\ last \in 0..MaxKey
  <2>1. PageAt(offset) \subseteq Key
    BY SyncSets DEF PageAt, Page
  <2> QED
    BY <2>1, SizesAssumption DEF Key, SyncTypes, TypeSync
<1> DEFINE all == {topId, last} \cup PageAt(offset)
<1>2. all \subseteq 0..MaxKey /\ topId \in all /\ all # {}
  BY <1>1
<1> HIDE DEF all
<1>3. Max(all) \in all /\ topId <= Max(all)
  BY <1>2, SizesAssumption, GreatestElement
<1>4. PageAt(offset) # {} => Max(PageAt(offset)) \in PageAt(offset)
  BY <1>1, SizesAssumption, GreatestElement
<1> QED
  BY <1>1, <1>2, <1>3, <1>4 DEF all

\* A page that is not short has rows.
LEMMA FullPage ==
  ~(Cardinality(PageAt(offset)) < BatchSize) => PageAt(offset) # {}
<1> SUFFICES ASSUME PageAt(offset) = {} PROVE Cardinality(PageAt(offset)) < BatchSize
  OBVIOUS
<1>1. Cardinality(PageAt(offset)) = 0
  BY FS_EmptySet
<1> QED
  BY <1>1, SizesAssumption

\* Every step keeps them: those of a run,
LEMMA RunTypes == SyncTypes /\ (Start \/ DeliverPage \/ QueryFails) => SyncTypes'
<1> SUFFICES ASSUME SyncTypes, Start \/ DeliverPage \/ QueryFails PROVE SyncTypes'
  OBVIOUS
<1>0. /\ 0 \in Nat /\ 0 % BatchSize = 0 /\ 0 \in 0..MaxKey /\ 0 \in 0..clock /\ clock \in 0..clock
  BY SizesAssumption, SyncSets
<1>1. CASE Start
  <2>1. /\ ipc' = "read" /\ offset' = 0 /\ last' = 0 /\ started' = clock
        /\ owed' = Selected(config) /\ switched' = FALSE
        /\ tied' = tied \cup {k \in stale : Tied(k)}
        /\ UNCHANGED <<config, clock, rows, stale, covered, topId, valueOf, gaps, hidden, switches>>
    BY <1>1 DEF Start, table, app
  <2>2. Existing' = Existing
    BY <2>1 DEF Existing
  <2>3. tied' \subseteq Key
    BY <2>1, SyncSets DEF SyncTypes, TypeSync
  <2>4. started' \in 0..clock' /\ covered' <= started'
    BY <2>1, SyncSets, <1>0 DEF SyncTypes, TypeSync
  <2>5. TypeSync'
    BY <1>0, <2>1, <2>2, <2>3, <2>4, SyncSets DEF SyncTypes, TypeSync
  <2>6. MarksInv'
    BY <2>1, <2>4 DEF SyncTypes, MarksInv
  <2> QED
    BY <2>5, <2>6 DEF SyncTypes
<1>2. CASE DeliverPage
  <2>1. /\ ipc = "read" /\ stale' = stale \ PageAt(offset) /\ owed' = owed \ PageAt(offset)
        /\ UNCHANGED <<config, clock, rows, switched, valueOf, gaps, tied, hidden, switches>>
    BY <1>2 DEF DeliverPage, table, changes
  <2>2. Existing' = Existing
    BY <2>1 DEF Existing
  <2>3. CASE Cardinality(PageAt(offset)) < BatchSize
    <3>1. ipc' = "idle" /\ offset' = 0 /\ last' = 0 /\ started' = 0 /\ TakeNote
      BY <1>2, <2>3 DEF DeliverPage, Ends
    <3>2. covered' \in {covered, started}
      BY <3>1 DEF TakeNote, app
    <3>3. topId' \in {topId, Max({topId, last} \cup PageAt(offset))}
      BY <3>1 DEF TakeNote, app
    <3>4. covered' \in 0..clock' /\ covered <= covered'
      BY <2>1, <3>2, SyncSets DEF SyncTypes, TypeSync, MarksInv
    <3>5. topId' \in 0..MaxKey /\ topId <= topId'
      BY <3>3, NotedKeys, SyncSets DEF SyncTypes, TypeSync
    <3>6. TypeSync'
      BY <1>0, <2>1, <2>2, <3>1, <3>4, <3>5, SyncSets DEF SyncTypes, TypeSync
    <3>7. MarksInv'
      <4>1. covered' \in Nat /\ topId' \in Nat
        BY <3>2, <3>5, SizesAssumption, SyncSets
      <4> QED
        BY <2>1, <3>1, <3>4, <3>5, <4>1, SyncSets DEF SyncTypes, MarksInv
    <3> QED
      BY <3>6, <3>7 DEF SyncTypes
  <2>4. CASE ~(Cardinality(PageAt(offset)) < BatchSize)
    <3>1. /\ offset' = offset + BatchSize /\ last' = Max(PageAt(offset))
          /\ UNCHANGED <<ipc, started, covered, topId>>
      BY <1>2, <2>4 DEF DeliverPage, app
    <3>2. offset' \in Nat /\ offset' % BatchSize = 0
      BY <3>1, PageStart DEF SyncTypes, TypeSync
    <3>3. last' \in 0..MaxKey
      BY <2>4, <3>1, FullPage, NotedKeys
    <3>4. TypeSync'
      BY <2>1, <2>2, <3>1, <3>2, <3>3 DEF SyncTypes, TypeSync
    <3>5. MarksInv'
      BY <2>1, <3>1 DEF SyncTypes, MarksInv
    <3> QED
      BY <3>4, <3>5 DEF SyncTypes
  <2> QED
    BY <2>3, <2>4
<1>3. CASE QueryFails
  <2>1. /\ ipc' = "idle" /\ offset' = 0 /\ last' = 0 /\ started' = 0 /\ owed' = {}
        /\ UNCHANGED <<config, clock, rows, stale, covered, topId, switched, valueOf, gaps, tied,
                       hidden, switches>>
    BY <1>3 DEF QueryFails, Ends, table, app, changes
  <2>2. Existing' = Existing
    BY <2>1 DEF Existing
  <2>3. TypeSync'
    BY <1>0, <2>1, <2>2, SyncSets DEF SyncTypes, TypeSync
  <2>4. MarksInv'
    BY <2>1 DEF SyncTypes, MarksInv
  <2> QED
    BY <2>3, <2>4 DEF SyncTypes
<1> QED
  BY <1>1, <1>2, <1>3

\* those of the configuration,
LEMMA SwitchTypes ==
  SyncTypes /\ (SwitchToFullSync \/ SwitchToIncrementalSync \/ SwitchToRealtimeSync \/ SetMark)
    => SyncTypes'
<1> SUFFICES ASSUME SyncTypes,
                    SwitchToFullSync \/ SwitchToIncrementalSync \/ SwitchToRealtimeSync \/ SetMark
             PROVE  SyncTypes'
  OBVIOUS
<1>0. 0 \in Clock /\ covered \in Clock /\ config \in Config /\ config.field \in {"none", "id", "stamp"}
  BY BoundsAssumption DEF Clock, Config, SyncTypes, TypeSync
<1>1. /\ UNCHANGED <<clock, rows, stale, ipc, offset, last, started, covered, topId, owed, gaps, tied, hidden>>
      /\ switched' \in BOOLEAN /\ switches' \in Nat
  <2>1. CASE SetMark
    BY <2>1 DEF SetMark, table, app, changes, SyncTypes, TypeSync
  <2>2. ASSUME NEW c, Switch(c)
        PROVE  /\ UNCHANGED <<clock, rows, stale, ipc, offset, last, started, covered, topId, owed,
                              gaps, tied, hidden>>
               /\ switched' \in BOOLEAN /\ switches' \in Nat
    <3>1. switched' \in BOOLEAN
      <4>1. switched' = (switched \/ ipc = "read")
        BY <2>2 DEF Switch
      <4> QED
        BY <4>1, Zenon
    <3> QED
      BY <2>2, <3>1 DEF Switch, table, app, changes, SyncTypes, TypeSync
  <2> QED
    BY <2>1, <2>2 DEF SwitchToFullSync, SwitchToIncrementalSync, SwitchToRealtimeSync
<1>2. Existing' = Existing
  BY <1>1 DEF Existing
<1>3. ASSUME config' \in Config, valueOf' \in {"none", "id", "stamp"}, config'.time <= covered,
             valueOf' = "none" => config'.value = 0,
             valueOf' = "id" => config'.value <= topId,
             valueOf' = "stamp" => config'.value <= covered,
             \/ config'.field = "none" /\ config'.strategy = "none"
             \/ config'.field = "id" /\ config'.strategy = "autoinc"
             \/ config'.field = "stamp" /\ config'.strategy \in {"timestamp", "version", "custom"}
      PROVE  SyncTypes'
  <2>1. TypeSync'
    BY <1>1, <1>2, <1>3 DEF SyncTypes, TypeSync
  <2>2. MarksInv'
    BY <1>1, <1>3 DEF SyncTypes, MarksInv
  <2> QED
    BY <2>1, <2>2 DEF SyncTypes
<1>4. CASE SwitchToFullSync
  <2>1. config' = NoIncrements /\ valueOf' = "none"
    BY <1>4 DEF SwitchToFullSync, Switch
  <2> QED
    BY <1>0, <1>3, <2>1, SyncSets DEF NoIncrements, Config
<1>5. CASE SwitchToIncrementalSync
  <2>1. PICK t \in Strategies :
          config' = [config EXCEPT !.mode = "incremental", !.field = t[1], !.strategy = t[2]]
    BY <1>5 DEF SwitchToIncrementalSync, Switch
  <2>2. \/ t[1] = "id" /\ t[2] = "autoinc"
        \/ t[1] = "stamp" /\ t[2] \in {"timestamp", "version", "custom"}
    BY DEF Strategies
  <2>3. valueOf' = valueOf
    BY <1>5 DEF SwitchToIncrementalSync
  <2>4. /\ config' \in Config /\ config'.time = config.time /\ config'.value = config.value
        /\ config'.field = t[1] /\ config'.strategy = t[2]
    BY <1>0, <2>1, <2>2 DEF Config
  <2> QED
    BY <1>3, <2>2, <2>3, <2>4 DEF SyncTypes, TypeSync, MarksInv
<1>6. CASE SwitchToRealtimeSync
  <2>1. config' = [config EXCEPT !.mode = "realtime"] /\ valueOf' = valueOf
    BY <1>6 DEF SwitchToRealtimeSync, Switch
  <2>2. /\ config' \in Config /\ config'.time = config.time /\ config'.value = config.value
        /\ config'.field = config.field /\ config'.strategy = config.strategy
    BY <1>0, <2>1 DEF Config
  <2> QED
    BY <1>3, <2>1, <2>2 DEF SyncTypes, TypeSync, MarksInv
<1>7. CASE SetMark
  <2>1. /\ config'.time = (IF config.strategy \in {"timestamp", "custom"} THEN covered ELSE config.time)
        /\ config'.value = (IF config.strategy = "autoinc" THEN topId
                            ELSE IF config.strategy = "version" THEN covered ELSE config.value)
        /\ config'.field = config.field /\ config'.strategy = config.strategy
        /\ config'.mode = config.mode
        /\ config'.custom = (config.custom \/ config.strategy = "custom")
    BY <1>0, <1>7 DEF SetMark, Config
  <2>2. config'.custom \in BOOLEAN
    BY <2>1, Zenon
  <2>3. config' \in Config
    <3>1. config'.time \in Clock /\ config'.value \in Nat
      BY <1>0, <2>1, SyncSets DEF Config
    <3>2. config' = [config EXCEPT !.time = config'.time, !.value = config'.value, !.custom = config'.custom]
      BY <1>0, <1>7, <2>1 DEF SetMark, Config
    <3> QED
      BY <1>0, <2>2, <3>1, <3>2 DEF Config
  <2>4. valueOf' = IF config.strategy \in {"autoinc", "version"} THEN config.field ELSE valueOf
    BY <1>7 DEF SetMark
  <2>5. /\ valueOf' \in {"none", "id", "stamp"} /\ config'.time <= covered
        /\ valueOf' = "none" => config'.value = 0
        /\ valueOf' = "id" => config'.value <= topId
        /\ valueOf' = "stamp" => config'.value <= covered
    BY <1>0, <2>1, <2>4, SyncSets DEF SyncTypes, TypeSync, MarksInv
  <2> QED
    BY <1>3, <2>1, <2>3, <2>5 DEF SyncTypes, MarksInv
<1> QED
  BY <1>4, <1>5, <1>6, <1>7

\* and those of others.
LEMMA OthersTypes ==
  SyncTypes /\ ((\E k \in Key : Change(k) \/ Remove(k)) \/ Tick) => SyncTypes'
<1> SUFFICES ASSUME SyncTypes, (\E k \in Key : Change(k) \/ Remove(k)) \/ Tick PROVE SyncTypes'
  OBVIOUS
<1>1. ASSUME NEW k \in Key, Change(k) PROVE SyncTypes'
  <2>1. /\ rows' = [rows EXCEPT ![k] = clock] /\ stale' = stale \cup {k} /\ tied' = tied \ {k}
        /\ hidden' \in {hidden \cup {k}, hidden \ {k}}
        /\ UNCHANGED <<config, clock, ipc, offset, last, started, covered, topId, owed, switched,
                       valueOf, gaps, switches>>
    BY <1>1 DEF Change, app
  <2>2. /\ rows' \in [Key -> Clock] /\ rows'[k] = clock /\ \A j \in Key \ {k} : rows'[j] = rows[j]
    BY <2>1 DEF SyncTypes, TypeSync
  <2>3. Existing' = Existing \cup {k}
    BY <2>2, SyncSets DEF Existing, SyncTypes, MarksInv
  <2>4. hidden' \subseteq Key
    BY <2>1 DEF SyncTypes, TypeSync
  <2>5. TypeSync'
    BY <2>1, <2>2, <2>3, <2>4 DEF SyncTypes, TypeSync
  <2>6. \A j \in Key : rows'[j] <= clock'
    BY <2>1, <2>2, SyncSets DEF SyncTypes, MarksInv
  <2>7. MarksInv'
    BY <2>1, <2>6 DEF SyncTypes, MarksInv
  <2> QED
    BY <2>5, <2>7 DEF SyncTypes
<1>2. ASSUME NEW k \in Key, Remove(k) PROVE SyncTypes'
  <2>1. /\ rows' = [rows EXCEPT ![k] = 0] /\ stale' = stale \ {k} /\ owed' = owed \ {k}
        /\ gaps' = gaps + 1
        /\ UNCHANGED <<config, clock, ipc, offset, last, started, covered, topId, switched,
                       valueOf, tied, hidden, switches>>
    BY <1>2 DEF Remove, app
  <2>2. /\ rows' \in [Key -> Clock] /\ rows'[k] = 0 /\ \A j \in Key \ {k} : rows'[j] = rows[j]
    BY <2>1, BoundsAssumption DEF SyncTypes, TypeSync, Clock
  <2>3. Existing' = Existing \ {k}
    BY <2>2, SyncSets DEF Existing
  <2>4. TypeSync'
    BY <2>1, <2>2, <2>3, SyncSets DEF SyncTypes, TypeSync
  <2>5. \A j \in Key : rows'[j] <= clock'
    BY <2>1, <2>2, SyncSets DEF SyncTypes, MarksInv
  <2>6. MarksInv'
    BY <2>1, <2>5 DEF SyncTypes, MarksInv
  <2> QED
    BY <2>4, <2>6 DEF SyncTypes
<1>3. CASE Tick
  <2>1. /\ clock < MaxClock /\ clock' = clock + 1
        /\ UNCHANGED <<config, rows, stale, ipc, offset, last, started, covered, topId, owed,
                       switched, valueOf, gaps, tied, hidden, switches>>
    BY <1>3 DEF Tick, app, changes
  <2>2. Existing' = Existing
    BY <2>1 DEF Existing
  <2>3. clock' \in Clock /\ started' \in 0..clock' /\ covered' \in 0..clock'
    BY <2>1, SyncSets, BoundsAssumption DEF SyncTypes, TypeSync, Clock
  <2>4. TypeSync'
    BY <2>1, <2>2, <2>3 DEF SyncTypes, TypeSync
  <2>5. \A j \in Key : rows'[j] <= clock'
    BY <2>1, SyncSets DEF SyncTypes, MarksInv
  <2>6. MarksInv'
    BY <2>1, <2>5, SyncSets DEF SyncTypes, MarksInv
  <2> QED
    BY <2>4, <2>6 DEF SyncTypes
<1> QED
  BY <1>1, <1>2, <1>3

\* Every step keeps types and marks.
LEMMA SyncTypesStep == SyncTypes /\ [SyncNext]_syncVars => SyncTypes'
<1>1. SyncTypes /\ UNCHANGED syncVars => SyncTypes'
  <2> SUFFICES ASSUME SyncTypes, UNCHANGED syncVars PROVE SyncTypes'
    OBVIOUS
  <2>1. UNCHANGED <<config, clock, rows, stale, ipc, offset, last, started, covered, topId, owed,
                    switched, valueOf, gaps, tied, hidden, switches>>
    BY DEF syncVars, table, app, changes
  <2>2. Existing' = Existing
    BY <2>1 DEF Existing
  <2> QED
    BY <2>1, <2>2 DEF SyncTypes, TypeSync, MarksInv
<1> QED
  BY <1>1, RunTypes, SwitchTypes, OthersTypes DEF SyncNext

\* Values keep their types, and no mark of the configuration is later than what the
\* application has noted of the runs it counts.
THEOREM TypesOfRuns == SyncSpec => []TypeSync
<1>1. SyncTypes => TypeSync
  BY DEF SyncTypes
<1> QED
  BY <1>1, InitSync, SyncTypesStep, PTL DEF SyncSpec

-----------------------------------------------------------------------------
(* What a step does to the rows that a statement selects.                   *)

ById    == Filters(config) /\ config.field = "id"
ByStamp == Filters(config) /\ config.field # "id"

\* Without a change of a row or of the configuration it selects the same rows.
LEMMA SelectedSame == UNCHANGED <<config, rows>> => Selected(config)' = Selected(config)
  BY DEF Selected, Existing, Passes

\* A changed row may come to what is selected, and does not leave it.
LEMMA Changed ==
  ASSUME SyncTypes, NEW k \in Key, Change(k)
  PROVE  /\ rows'[k] = clock /\ \A j \in Key \ {k} : rows'[j] = rows[j]
         /\ stale' = stale \cup {k} /\ tied' = tied \ {k}
         /\ UNCHANGED <<config, ipc, offset, started, covered, topId, owed, switched, valueOf, gaps>>
         /\ \/ hidden' = hidden \cup {k}
            \/ /\ hidden' = hidden \ {k} /\ topId < k
               /\ k \notin Existing /\ \A j \in Existing : j < k
         /\ \/ Selected(config)' = Selected(config)
            \/ k \notin Selected(config) /\ Selected(config)' = Selected(config) \cup {k}
         /\ k \in Existing /\ ~ByStamp => Selected(config)' = Selected(config)
<1>1. /\ rows' = [rows EXCEPT ![k] = clock] /\ stale' = stale \cup {k} /\ tied' = tied \ {k}
      /\ UNCHANGED <<config, ipc, offset, started, covered, topId, owed, switched, valueOf, gaps>>
  BY DEF Change, app
<1>2. /\ rows'[k] = clock /\ \A j \in Key \ {k} : rows'[j] = rows[j]
  BY <1>1 DEF SyncTypes, TypeSync
<1>3. \/ hidden' = hidden \cup {k}
      \/ /\ hidden' = hidden \ {k} /\ topId < k
         /\ k \notin Existing /\ \A j \in Existing : j < k
  <2>1. CASE k \in Existing \/ topId >= k \/ \E j \in Existing : j > k
    BY <2>1 DEF Change
  <2>2. CASE ~(k \in Existing \/ topId >= k \/ \E j \in Existing : j > k)
    <3>1. hidden' = hidden \ {k}
      BY <2>2, Zenon DEF Change
    <3>2. \A j \in Existing : j \in Nat
      BY SyncSets
    <3> QED
      BY <2>2, <3>1, <3>2, SyncSets
  <2> QED
    BY <2>1, <2>2
<1>4. k \in Existing' /\ \A j \in Key \ {k} : j \in Existing' <=> j \in Existing
  <2>1. rows'[k] > 0
    BY <1>2, SyncSets DEF SyncTypes, MarksInv
  <2> QED
    BY <1>2, <2>1 DEF Existing
<1>5. \A j \in Key \ {k} : j \in Selected(config)' <=> j \in Selected(config)
  <2> TAKE j \in Key \ {k}
  <2>1. Passes(config, j)' <=> Passes(config, j)
    BY <1>1, <1>2 DEF Passes
  <2> QED
    BY <1>1, <1>4, <2>1 DEF Selected
<1>6. /\ k \in Selected(config) => k \in Selected(config)'
      /\ k \in Existing /\ ~ByStamp /\ k \in Selected(config)' => k \in Selected(config)
  <2>1. CASE ~Filters(config)
    BY <1>1, <1>4, <2>1 DEF Selected
  <2>2. CASE Filters(config)
    <3>1. rows[k] <= rows'[k] /\ rows[k] \in Nat /\ rows'[k] \in Nat
      BY <1>2, SyncSets DEF SyncTypes, MarksInv
    <3>2. Passes(config, k) => Passes(config, k)'
      <4>1. config.time \in Nat /\ config.value \in Nat /\ UNCHANGED config
        BY <1>1, SyncSets
      <4>2. CASE config.field = "id"
        BY <4>1, <4>2 DEF Passes
      <4>3. CASE config.field = "stamp" /\ config.strategy = "timestamp"
        BY <3>1, <4>1, <4>3 DEF Passes
      <4>4. CASE config.field = "stamp" /\ config.strategy = "version"
        BY <3>1, <4>1, <4>4 DEF Passes
      <4>5. CASE config.field = "stamp" /\ config.strategy = "custom"
        BY <3>1, <4>1, <4>5 DEF Passes
      <4> QED
        BY <2>2, <4>2, <4>3, <4>4, <4>5, Conditions
    <3>3. ~ByStamp => (Passes(config, k)' <=> Passes(config, k))
      BY <1>1, <2>2 DEF Passes, ByStamp
    <3>4. k \in Selected(config)' <=> Passes(config, k)'
      BY <1>1, <1>4, <2>2 DEF Selected
    <3>5. k \in Existing => (k \in Selected(config) <=> Passes(config, k))
      BY <2>2 DEF Selected
    <3>6. k \in Selected(config) => k \in Existing
      BY DEF Selected
    <3> QED
      BY <3>2, <3>3, <3>4, <3>5, <3>6, Zenon
  <2> QED
    BY <2>1, <2>2
<1>7. Selected(config)' \subseteq Key /\ Selected(config) \subseteq Key
  BY DEF Selected, Existing
<1>8. \/ Selected(config)' = Selected(config)
      \/ k \notin Selected(config) /\ Selected(config)' = Selected(config) \cup {k}
  BY <1>5, <1>6, <1>7
<1>9. k \in Existing /\ ~ByStamp => Selected(config)' = Selected(config)
  BY <1>5, <1>6, <1>7
<1> QED
  BY <1>1, <1>2, <1>3, <1>8, <1>9

\* A deleted row leaves it.
LEMMA Removed ==
  ASSUME SyncTypes, NEW k \in Key, Remove(k)
  PROVE  /\ ipc = "read" /\ gaps' = gaps + 1 /\ \A j \in Key \ {k} : rows'[j] = rows[j]
         /\ stale' = stale \ {k} /\ owed' = owed \ {k}
         /\ UNCHANGED <<config, ipc, offset, started, covered, topId, switched, valueOf, tied, hidden>>
         /\ Selected(config)' = Selected(config) \ {k}
<1>1. /\ rows' = [rows EXCEPT ![k] = 0] /\ stale' = stale \ {k} /\ owed' = owed \ {k}
      /\ ipc = "read" /\ gaps' = gaps + 1
      /\ UNCHANGED <<config, ipc, offset, started, covered, topId, switched, valueOf, tied, hidden>>
  BY DEF Remove, app
<1>2. rows'[k] = 0 /\ \A j \in Key \ {k} : rows'[j] = rows[j]
  BY <1>1 DEF SyncTypes, TypeSync
<1>3. k \notin Existing' /\ \A j \in Key \ {k} : j \in Existing' <=> j \in Existing
  BY <1>2 DEF Existing
<1>4. \A j \in Key \ {k} : j \in Selected(config)' <=> j \in Selected(config)
  <2> TAKE j \in Key \ {k}
  <2>1. Passes(config, j)' <=> Passes(config, j)
    BY <1>1, <1>2 DEF Passes
  <2> QED
    BY <1>1, <1>3, <2>1 DEF Selected
<1>5. k \notin Selected(config)'
  BY <1>3 DEF Selected
<1>6. Selected(config)' \subseteq Key /\ Selected(config) \subseteq Key
  BY DEF Selected, Existing
<1> QED
  BY <1>1, <1>2, <1>4, <1>5, <1>6

\* A page comes behind the offset, and behind a short one is nothing.
LEMMA Delivered ==
  ASSUME SyncTypes, DeliverPage
  PROVE  /\ ipc = "read" /\ stale' = stale \ PageAt(offset) /\ owed' = owed \ PageAt(offset)
         /\ UNCHANGED <<config, rows, switched, valueOf, gaps, tied, hidden>>
         /\ Selected(config)' = Selected(config) /\ PageAt(offset) \subseteq Selected(config)
         /\ Upto(Selected(config), offset) \cap PageAt(offset) = {}
         /\ \/ /\ ipc' = "idle" /\ TakeNote
               /\ Selected(config) \subseteq Upto(Selected(config), offset) \cup PageAt(offset)
            \/ /\ offset' = offset + BatchSize /\ UNCHANGED <<ipc, started, covered, topId>>
               /\ Upto(Selected(config), offset + BatchSize)
                    = Upto(Selected(config), offset) \cup PageAt(offset)
               /\ Cardinality(PageAt(offset)) >= BatchSize
<1>1. /\ ipc = "read" /\ stale' = stale \ PageAt(offset) /\ owed' = owed \ PageAt(offset)
      /\ UNCHANGED <<config, rows, switched, valueOf, gaps, tied, hidden>>
  BY DEF DeliverPage, table, changes
<1>2. Selected(config)' = Selected(config)
  BY <1>1, SelectedSame
<1>3. Selected(config) \subseteq Key /\ offset \in Nat
  BY SyncSets
<1>4. /\ PageAt(offset) \subseteq Selected(config)
      /\ Upto(Selected(config), offset) \cap PageAt(offset) = {}
      /\ Upto(Selected(config), offset + BatchSize)
           = Upto(Selected(config), offset) \cup PageAt(offset)
  BY <1>3, UptoPage DEF PageAt
<1>5. CASE Cardinality(PageAt(offset)) < BatchSize
  <2>1. \A k \in Selected(config) : Rank(Selected(config), k) <= offset + BatchSize
    BY <1>3, <1>5, ShortPage DEF PageAt
  <2>2. Selected(config) \subseteq Upto(Selected(config), offset + BatchSize)
    BY <2>1 DEF Upto
  <2>3. ipc' = "idle" /\ TakeNote
    BY <1>5 DEF DeliverPage, Ends
  <2> QED
    BY <1>1, <1>2, <1>4, <2>2, <2>3
<1>6. CASE ~(Cardinality(PageAt(offset)) < BatchSize)
  <2>1. offset' = offset + BatchSize /\ UNCHANGED <<ipc, started, covered, topId>>
    BY <1>6 DEF DeliverPage, app
  <2>2. Cardinality(PageAt(offset)) \in Nat
    <3>1. PageAt(offset) \subseteq Key
      BY <1>3, <1>4
    <3> QED
      BY <3>1, KeysFinite
  <2>3. Cardinality(PageAt(offset)) >= BatchSize
    BY <1>6, <2>2, SizesAssumption
  <2> QED
    BY <1>1, <1>2, <1>4, <2>1, <2>3
<1> QED
  BY <1>5, <1>6

\* The configuration only changes between runs or with a note in switched, and takes
\* nothing else with it.
LEMMA Switched ==
  ASSUME SyncTypes,
         SwitchToFullSync \/ SwitchToIncrementalSync \/ SwitchToRealtimeSync \/ SetMark
  PROVE  /\ UNCHANGED <<rows, stale, ipc, offset, started, covered, topId, owed, gaps, tied, hidden>>
         /\ ~switched' => ~switched /\ ipc = "idle"
<1>1. CASE SetMark
  BY <1>1 DEF SetMark, table, app, changes
<1>2. ASSUME NEW c, Switch(c)
      PROVE  /\ UNCHANGED <<rows, stale, ipc, offset, started, covered, topId, owed, gaps, tied, hidden>>
             /\ ~switched' => ~switched /\ ipc = "idle"
  <2>1. switched' = (switched \/ ipc = "read")
    BY <1>2 DEF Switch
  <2>2. ~switched' => ~switched /\ ipc # "read"
    BY <2>1, Zenon
  <2> QED
    BY <1>2, <2>2 DEF Switch, table, app, changes, SyncTypes, TypeSync
<1> QED
  BY <1>1, <1>2 DEF SwitchToFullSync, SwitchToIncrementalSync, SwitchToRealtimeSync

-----------------------------------------------------------------------------
(* A run delivers what it selected. *)

\* Of what a run owes no more rows are behind it than were deleted, and it can
\* still select them all.
DeliverInv ==
  /\ ipc = "read" /\ ~switched =>
       /\ owed \subseteq Selected(config)
       /\ Cardinality(owed \cap Upto(Selected(config), offset)) <= gaps
  /\ ipc = "idle" /\ ~switched => Cardinality(owed) <= gaps

\* No key is among the first none, and Upto sees only the set and the number.
LEMMA UptoNone ==
  ASSUME NEW S, S \subseteq Key
  PROVE  Upto(S, 0) = {}
<1>1. \A k \in S : Rank(S, k) \in Nat /\ Rank(S, k) >= 1
  BY RankFacts
<1> QED
  BY <1>1 DEF Upto

LEMMA UptoNext == Upto(Selected(config), offset)' = Upto(Selected(config)', offset')
  BY DEF Upto, Rank

\* In the first state.
LEMMA InitDeliver == SyncInit => DeliverInv
<1> SUFFICES ASSUME SyncInit PROVE DeliverInv
  OBVIOUS
<1>1. ipc = "idle" /\ owed = {} /\ gaps = 0
  BY Zenon DEF SyncInit
<1>2. Cardinality(owed) = 0
  BY <1>1, FS_EmptySet
<1> QED
  BY <1>1, <1>2 DEF DeliverInv

\* Every step keeps it.
LEMMA DeliverStep == SyncTypes /\ DeliverInv /\ [SyncNext]_syncVars => DeliverInv'
<1> SUFFICES ASSUME SyncTypes, DeliverInv, [SyncNext]_syncVars PROVE DeliverInv'
  OBVIOUS
<1> DEFINE S == Selected(config)
           Behind == owed \cap Upto(S, offset)
<1>0. /\ S \subseteq Key /\ owed \subseteq Key /\ offset \in Nat /\ gaps \in Nat
      /\ IsFiniteSet(Behind) /\ Cardinality(Behind) \in Nat
      /\ ipc \in {"idle", "read"}
  <2>1. S \subseteq Key /\ owed \subseteq Key /\ offset \in Nat /\ gaps \in Nat
    BY SyncSets
  <2>2. Behind \subseteq Key
    BY <2>1
  <2>3. IsFiniteSet(Behind) /\ Cardinality(Behind) \in Nat
    BY <2>2, KeysFinite
  <2> QED
    BY <2>1, <2>3 DEF SyncTypes, TypeSync
<1>1. CASE Start
  <2>1. ipc' = "read" /\ offset' = 0 /\ owed' = S /\ UNCHANGED <<config, rows, gaps>>
    BY <1>1 DEF Start, table
  <2>2. Selected(config)' = S
    BY <2>1, SelectedSame
  <2>3. Upto(Selected(config), offset)' = {}
    BY <1>0, <2>1, <2>2, UptoNone, UptoNext
  <2>4. Cardinality((owed \cap Upto(Selected(config), offset))') = 0
    BY <2>3, FS_EmptySet
  <2> QED
    BY <1>0, <2>1, <2>2, <2>4 DEF DeliverInv
<1>2. CASE DeliverPage
  <2>1. CASE ipc' = "idle"
    <3>1. ~switched' => owed' \subseteq Behind
      BY <1>2, <2>1, Delivered DEF DeliverInv
    <3>2. ~switched' => Cardinality(owed') <= Cardinality(Behind) /\ Cardinality(owed') \in Nat
      BY <1>0, <3>1, PartSize
    <3>3. ~switched' => Cardinality(Behind) <= gaps' /\ gaps' \in Nat
      BY <1>0, <1>2, Delivered DEF DeliverInv
    <3>4. ~switched' => Cardinality(owed') <= gaps'
      BY <1>0, <3>2, <3>3
    <3> QED
      BY <2>1, <3>4 DEF DeliverInv
  <2>2. CASE ipc' # "idle"
    <3>1. Upto(Selected(config), offset)' = Upto(S, offset) \cup PageAt(offset)
      BY <1>2, <2>2, Delivered, UptoNext
    <3>2. (owed \cap Upto(Selected(config), offset))' \subseteq Behind
      BY <1>2, <3>1, Delivered
    <3>3. Cardinality((owed \cap Upto(Selected(config), offset))') <= Cardinality(Behind)
      BY <1>0, <3>2, PartSize
    <3>4. Cardinality((owed \cap Upto(Selected(config), offset))') \in Nat
      BY <1>0, <3>2, PartSize
    <3>5. ~switched' => owed' \subseteq Selected(config)' /\ Cardinality(Behind) <= gaps'
      BY <1>2, Delivered DEF DeliverInv
    <3>6. gaps' \in Nat
      BY <1>0, <1>2, Delivered
    <3> QED
      BY <1>0, <2>2, <3>3, <3>4, <3>5, <3>6 DEF DeliverInv
  <2> QED
    BY <2>1, <2>2
<1>3. CASE QueryFails
  <2>1. ipc' = "idle" /\ owed' = {} /\ gaps' = gaps
    BY <1>3 DEF QueryFails, Ends, changes
  <2>2. Cardinality(owed') = 0
    BY <2>1, FS_EmptySet
  <2> QED
    BY <1>0, <2>1, <2>2 DEF DeliverInv
<1>4. CASE SwitchToFullSync \/ SwitchToIncrementalSync \/ SwitchToRealtimeSync \/ SetMark
  <2>1. /\ UNCHANGED <<ipc, owed, gaps>>
        /\ ~switched' => ~switched /\ ipc = "idle"
    BY <1>4, Switched
  <2>2. ~switched' => ipc' = "idle" /\ Cardinality(owed') <= gaps'
    BY <2>1 DEF DeliverInv
  <2> QED
    BY <2>2 DEF DeliverInv
<1>5. ASSUME NEW k \in Key, Change(k) PROVE DeliverInv'
  <2>1. UNCHANGED <<ipc, owed, gaps, offset, switched>>
    BY <1>5, Changed
  <2>2. \/ Selected(config)' = S
        \/ k \notin S /\ Selected(config)' = S \cup {k}
    BY <1>5, Changed
  <2>3. CASE Selected(config)' = S
    <3>1. Upto(Selected(config), offset)' = Upto(S, offset)
      BY <2>1, <2>3, UptoNext
    <3> QED
      BY <2>1, <2>3, <3>1 DEF DeliverInv
  <2>4. CASE k \notin S /\ Selected(config)' = S \cup {k}
    <3>1. Upto(Selected(config), offset)' \subseteq Upto(S, offset) \cup {k}
      BY <1>0, <2>1, <2>4, UptoAdded, UptoNext
    <3>2. ipc = "read" /\ ~switched => (owed \cap Upto(Selected(config), offset))' \subseteq Behind
      BY <2>1, <2>4, <3>1 DEF DeliverInv
    <3>3. ipc = "read" /\ ~switched =>
            /\ Cardinality((owed \cap Upto(Selected(config), offset))') <= Cardinality(Behind)
            /\ Cardinality((owed \cap Upto(Selected(config), offset))') \in Nat
      BY <1>0, <3>2, PartSize
    <3>4. ipc = "read" /\ ~switched => Cardinality(Behind) <= gaps /\ owed' \subseteq Selected(config)'
      BY <2>1, <2>4 DEF DeliverInv
    <3> QED
      BY <1>0, <2>1, <3>3, <3>4 DEF DeliverInv
  <2> QED
    BY <2>2, <2>3, <2>4
<1>6. ASSUME NEW k \in Key, Remove(k) PROVE DeliverInv'
  <2>1. ipc' = "read" /\ gaps' = gaps + 1 /\ owed' = owed \ {k}
        /\ UNCHANGED <<ipc, offset, switched>> /\ Selected(config)' = S \ {k}
    BY <1>6, Removed
  <2>2. \E y : Upto(Selected(config), offset)' \subseteq Upto(S, offset) \cup {y}
    <3>1. CASE k \in S
      BY <1>0, <2>1, <3>1, UptoRemoved, UptoNext
    <3>2. CASE k \notin S
      <4>1. S \ {k} = S
        BY <3>2
      <4> QED
        BY <2>1, <4>1, UptoNext
    <3> QED
      BY <3>1, <3>2
  <2>3. PICK y : Upto(Selected(config), offset)' \subseteq Upto(S, offset) \cup {y}
    BY <2>2
  <2>4. (owed \cap Upto(Selected(config), offset))' \subseteq Behind \cup {y}
    BY <2>1, <2>3
  <2>5. /\ Cardinality((owed \cap Upto(Selected(config), offset))') <= Cardinality(Behind) + 1
        /\ Cardinality((owed \cap Upto(Selected(config), offset))') \in Nat
    BY <1>0, <2>4, OneMore
  <2>6. ~switched' => Cardinality(Behind) <= gaps /\ owed' \subseteq Selected(config)'
    BY <2>1 DEF DeliverInv
  <2> QED
    BY <1>0, <2>1, <2>5, <2>6 DEF DeliverInv
<1>7. CASE Tick \/ UNCHANGED syncVars
  <2>1. UNCHANGED <<config, rows, ipc, owed, offset, switched, gaps>>
    BY <1>7 DEF Tick, syncVars, table, changes
  <2>2. Selected(config)' = S
    BY <2>1, SelectedSame
  <2>3. Upto(Selected(config), offset)' = Upto(S, offset)
    BY <2>1, <2>2, UptoNext
  <2> QED
    BY <2>1, <2>2, <2>3 DEF DeliverInv
<1> QED
  BY <1>1, <1>2, <1>3, <1>4, <1>5, <1>6, <1>7 DEF SyncNext

\* A run in which nobody switched delivers what it selected when it began, but for one
\* row for each one that was deleted (DatabaseReader.Read pages by OFFSET).
THEOREM SelectedDelivered == SyncSpec => []RunDelivers
<1>1. SyncInit => SyncTypes /\ DeliverInv
  BY InitSync, InitDeliver
<1>2. (SyncTypes /\ DeliverInv) /\ [SyncNext]_syncVars => (SyncTypes /\ DeliverInv)'
  BY SyncTypesStep, DeliverStep
<1>3. DeliverInv => RunDelivers
  BY DEF DeliverInv, RunDelivers
<1> QED
  BY <1>1, <1>2, <1>3, PTL DEF SyncSpec

-----------------------------------------------------------------------------
(* What a condition passes over is in the target. *)

\* A run that the application will count, if it reaches its end.
Counted == ipc = "read" /\ ~switched /\ ~Foreign

\* The rows that are behind a run.
Behind == Upto(Selected(config), offset)

LEMMA BehindNext == Behind' = Upto(Selected(config)', offset')
  BY UptoNext DEF Behind

\* Older than what has been counted, and than the run that reads without being yet to
\* come in it.
Past      == {k \in stale : rows[k] < covered /\ k \notin tied}
Overtaken == {k \in stale : /\ rows[k] < started /\ k \notin tied
                            /\ k \in Selected(config) => k \in Behind}

StampInv ==
  /\ Cardinality(Past) <= gaps
  /\ Counted /\ ~ById => Cardinality(Overtaken) <= gaps

\* A condition on stamps passes over what is older than what has been counted.
LEMMA PassedOverStamp ==
  ASSUME SyncTypes, ByStamp, ~Foreign, NEW k \in stale \ Selected(config), ~Tied(k)
  PROVE  rows[k] < covered
<1>1. k \in Existing /\ k \in Key /\ Filters(config) /\ config.field = "stamp"
  BY SyncSets, Conditions DEF ByStamp
<1>2. /\ rows[k] \in Nat /\ covered \in Nat /\ config.time \in Nat /\ config.value \in Nat
      /\ config.time <= covered
  BY <1>1, SyncSets DEF SyncTypes, MarksInv
<1>3. CASE config.strategy = "timestamp"
  <2>1. ~(rows[k] > config.time) /\ rows[k] # config.time
    BY <1>1, <1>3, Selects DEF Tied
  <2> QED
    BY <1>2, <2>1
<1>4. CASE config.strategy = "version"
  <2>1. ~(rows[k] > config.value) /\ rows[k] # config.value /\ config.value # 0
    BY <1>1, <1>4, Selects, Conditions DEF Tied
  <2>2. valueOf \in {"none", "stamp"}
    BY <1>1, <1>4 DEF Foreign
  <2>3. config.value <= covered
    BY <2>1, <2>2 DEF SyncTypes, MarksInv
  <2> QED
    BY <1>2, <2>1, <2>3
<1>5. CASE config.strategy = "custom"
  <2>1. ~(rows[k] >= config.time)
    BY <1>1, <1>5, Selects
  <2> QED
    BY <1>2, <2>1
<1> QED
  BY <1>1, <1>3, <1>4, <1>5, Conditions

\* The sets are sets of keys.
LEMMA StampSets ==
  ASSUME SyncTypes
  PROVE  /\ Past \subseteq Key /\ Overtaken \subseteq Key /\ Behind \subseteq Selected(config)
         /\ IsFiniteSet(Past) /\ IsFiniteSet(Overtaken)
         /\ Cardinality(Past) \in Nat /\ Cardinality(Overtaken) \in Nat
<1>1. Past \subseteq Key /\ Overtaken \subseteq Key
  BY SyncSets DEF Past, Overtaken
<1> QED
  BY <1>1, KeysFinite DEF Behind, Upto

\* In the first state.
LEMMA InitStamp == SyncInit => StampInv
<1> SUFFICES ASSUME SyncInit PROVE StampInv
  OBVIOUS
<1>1. SyncTypes
  BY InitSync
<1>2. ipc = "idle" /\ covered = 0 /\ gaps = 0
  BY Zenon DEF SyncInit
<1>3. Past = {}
  BY <1>1, <1>2, SyncSets DEF Past
<1>4. Cardinality(Past) = 0
  BY <1>3, FS_EmptySet
<1> QED
  BY <1>2, <1>4 DEF StampInv, Counted

\* Fewer rows than are counted.
LEMMA StampPart ==
  ASSUME SyncTypes, StampInv, gaps' = gaps,
         \/ Past' \subseteq Past
         \/ Counted /\ ~ById /\ Past' \subseteq Overtaken,
         Counted' /\ ~ById' => \/ Counted /\ ~ById /\ Overtaken' \subseteq Overtaken
                               \/ Overtaken' \subseteq Past \/ Overtaken' = {}
  PROVE  StampInv'
<1>1. /\ IsFiniteSet(Past) /\ IsFiniteSet(Overtaken) /\ gaps \in Nat
      /\ Cardinality(Past) \in Nat /\ Cardinality(Overtaken) \in Nat
  BY StampSets, SyncSets
<1>2. Cardinality(Past') <= gaps
  <2>1. CASE Past' \subseteq Past
    BY <1>1, <2>1, PartSize DEF StampInv
  <2>2. CASE Counted /\ ~ById /\ Past' \subseteq Overtaken
    BY <1>1, <2>2, PartSize DEF StampInv
  <2> QED
    BY <2>1, <2>2
<1>3. ASSUME Counted' /\ ~ById' PROVE Cardinality(Overtaken') <= gaps
  <2>1. CASE Counted /\ ~ById /\ Overtaken' \subseteq Overtaken
    BY <1>1, <2>1, PartSize DEF StampInv
  <2>2. CASE Overtaken' \subseteq Past
    BY <1>1, <2>2, PartSize DEF StampInv
  <2>3. CASE Overtaken' = {}
    BY <1>1, <2>3, FS_EmptySet
  <2> QED
    BY <1>3, <2>1, <2>2, <2>3
<1> QED
  BY <1>2, <1>3 DEF StampInv

\* What the sets will be.
LEMMA StampNext ==
  /\ \A k : k \in Past' <=> k \in stale' /\ rows'[k] < covered' /\ k \notin tied'
  /\ \A k : k \in Overtaken' <=> /\ k \in stale' /\ rows'[k] < started' /\ k \notin tied'
                                 /\ k \in Selected(config)' => k \in Behind'
  BY DEF Past, Overtaken

\* The configuration and the field of the value decide what kind of run it is.
LEMMA KindSame ==
  ASSUME UNCHANGED <<config, valueOf>>
  PROVE  UNCHANGED <<ById, ByStamp, Foreign>>
  BY DEF ById, ByStamp, Foreign

\* Every step of a careful application keeps it: those of a run,
LEMMA StampRun ==
  ASSUME Careful, SyncTypes, StampInv, Start \/ DeliverPage \/ QueryFails
  PROVE  StampInv'
<1>0. Selected(config) \subseteq Existing /\ stale \subseteq Existing /\ Existing \subseteq Key
  BY SyncSets
<1>1. CASE Start
  <2>1. /\ offset' = 0 /\ started' = clock /\ tied' = tied \cup {k \in stale : Tied(k)}
        /\ UNCHANGED <<config, rows, stale, covered, valueOf, gaps>>
    BY <1>1 DEF Start, table, app
  <2>2. Selected(config)' = Selected(config) /\ Behind' = {}
    BY <1>0, <2>1, SelectedSame, BehindNext, UptoNone
  <2>3. Past' \subseteq Past
    BY <2>1 DEF Past
  <2>4. ASSUME Counted', ~ById' PROVE Overtaken' \subseteq Past \/ Overtaken' = {}
    <3>1. ~Foreign /\ ~ById
      BY <2>1, <2>4, KindSame DEF Counted
    <3>2. CASE Filters(config)
      <4>1. ByStamp
        BY <3>1, <3>2 DEF ById, ByStamp
      <4>0. \A k \in Overtaken' : k \in stale \ Selected(config) /\ k \notin tied'
        BY <2>1, <2>2, StampNext
      <4>2. \A k \in Overtaken' : k \in stale \ Selected(config) /\ ~Tied(k) /\ k \notin tied
        BY <2>1, <4>0, Zenon
      <4>3. \A k \in Overtaken' : rows[k] < covered
        BY <3>1, <4>1, <4>2, PassedOverStamp
      <4> QED
        BY <4>2, <4>3 DEF Past
    <3>3. CASE ~Filters(config)
      <4>1. stale \subseteq Selected(config)
        BY <1>0, <3>3, Selects
      <4> QED
        BY <2>1, <2>2, <4>1, StampNext
    <3> QED
      BY <3>2, <3>3
  <2> QED
    BY <2>1, <2>3, <2>4, StampPart
<1>2. CASE DeliverPage
  <2>1. /\ ipc = "read" /\ stale' = stale \ PageAt(offset)
        /\ UNCHANGED <<config, rows, switched, valueOf, gaps, tied>>
        /\ Selected(config)' = Selected(config)
    BY <1>2, Delivered
  <2>2. CASE ipc' = "idle" /\ TakeNote
             /\ Selected(config) \subseteq Behind \cup PageAt(offset)
    <3>1. ~Counted'
      BY <2>2 DEF Counted
    <3>2. CASE covered' = covered
      <4>1. Past' \subseteq Past
        BY <2>1, <3>2 DEF Past
      <4> QED
        BY <2>1, <3>1, <4>1, StampPart
    <3>3. CASE covered' # covered
      <4>1. Counted /\ ~ById /\ covered' = started
        <5>1. ~(switched \/ Foreign)
          BY <2>2, <3>3, Zenon DEF TakeNote, app
        <5>2. covered' = IF Filters(config) /\ config.field = "id" THEN covered ELSE started
          BY <2>2, <5>1 DEF TakeNote
        <5>3. ~ById /\ covered' = started
          BY <3>3, <5>2 DEF ById
        <5> QED
          BY <2>1, <5>1, <5>3, Zenon DEF Counted
      <4>2. Past' \subseteq Overtaken
        BY <2>1, <2>2, <4>1 DEF Past, Overtaken
      <4> QED
        BY <2>1, <3>1, <4>1, <4>2, StampPart
    <3> QED
      BY <3>2, <3>3
  <2>3. CASE /\ offset' = offset + BatchSize /\ UNCHANGED <<ipc, started, covered, topId>>
             /\ Upto(Selected(config), offset + BatchSize) = Behind \cup PageAt(offset)
    <3>1. Behind' = Behind \cup PageAt(offset)
      BY <2>1, <2>3, BehindNext
    <3>2. Past' \subseteq Past /\ Overtaken' \subseteq Overtaken
      BY <2>1, <2>3, <3>1 DEF Past, Overtaken
    <3>3. Counted' => Counted
      BY <2>1, <2>3, KindSame, Zenon DEF Counted
    <3>4. ById' <=> ById
      BY <2>1, KindSame
    <3> QED
      BY <2>1, <3>2, <3>3, <3>4, StampPart
  <2> QED
    BY <1>2, <2>2, <2>3, Delivered DEF Behind
<1>3. CASE QueryFails
  <2>1. ipc' = "idle" /\ UNCHANGED <<rows, stale, covered, tied, gaps>>
    BY <1>3 DEF QueryFails, Ends, table, app, changes
  <2>2. Past' \subseteq Past /\ ~Counted'
    BY <2>1 DEF Past, Counted
  <2> QED
    BY <2>1, <2>2, StampPart
<1> QED
  BY <1>1, <1>2, <1>3

\* and all the others.
LEMMA StampStep ==
  ASSUME Careful, SyncTypes, StampInv, [SyncNext]_syncVars
  PROVE  StampInv'
<1> DEFINE S == Selected(config)
<1>0. /\ S \subseteq Key /\ stale \subseteq Key /\ offset \in Nat /\ gaps \in Nat
      /\ IsFiniteSet(Past) /\ IsFiniteSet(Overtaken) /\ Behind = Upto(S, offset)
      /\ Cardinality(Past) \in Nat /\ Cardinality(Overtaken) \in Nat
  BY SyncSets, StampSets DEF Behind
<1>1. CASE Start \/ DeliverPage \/ QueryFails
  BY <1>1, StampRun
<1>2. CASE SwitchToFullSync \/ SwitchToIncrementalSync \/ SwitchToRealtimeSync \/ SetMark
  <2>1. /\ UNCHANGED <<rows, stale, ipc, covered, gaps, tied>>
        /\ ~switched' => ~switched /\ ipc = "idle"
    BY <1>2, Switched
  <2>2. Past' \subseteq Past /\ ~Counted'
    BY <2>1 DEF Past, Counted
  <2> QED
    BY <2>1, <2>2, StampPart
<1>3. ASSUME NEW k \in Key, Change(k) PROVE StampInv'
  <2>1. /\ rows'[k] = clock /\ \A j \in Key \ {k} : rows'[j] = rows[j]
        /\ stale' = stale \cup {k} /\ tied' = tied \ {k}
        /\ UNCHANGED <<config, ipc, offset, started, covered, switched, valueOf, gaps>>
    BY <1>3, Changed
  <2>2. \/ Selected(config)' = S
        \/ k \notin S /\ Selected(config)' = S \cup {k}
    BY <1>3, Changed
  <2>3. S \subseteq Selected(config)' /\ Behind' \subseteq Behind \cup {k}
    BY <1>0, <2>1, <2>2, BehindNext, UptoAdded
  <2>4. k \notin Past' /\ k \notin Overtaken'
    <3>1. ~(clock < covered) /\ ~(clock < started)
      BY SyncSets DEF SyncTypes, TypeSync
    <3> QED
      BY <2>1, <3>1, StampNext
  <2>5. \A j \in Past' : j \in Past
    <3> TAKE j \in Past'
    <3>1. j \in stale' /\ rows'[j] < covered' /\ j \notin tied' /\ j # k
      BY <2>4 DEF Past
    <3>2. j \in stale /\ rows'[j] = rows[j] /\ j \notin tied
      BY <1>0, <2>1, <3>1
    <3> QED
      BY <2>1, <3>1, <3>2 DEF Past
  <2>6. \A j \in Overtaken' : j \in Overtaken
    <3> TAKE j \in Overtaken'
    <3>1. /\ j \in stale' /\ rows'[j] < started' /\ j \notin tied' /\ j # k
          /\ j \in Selected(config)' => j \in Behind'
      BY <2>4, StampNext
    <3>2. j \in stale /\ rows'[j] = rows[j] /\ j \notin tied
      BY <1>0, <2>1, <3>1
    <3>3. j \in S => j \in Behind
      BY <2>3, <3>1
    <3> QED
      BY <2>1, <3>1, <3>2, <3>3 DEF Overtaken
  <2>7. Counted' => Counted
    BY <2>1, KindSame, Zenon DEF Counted
  <2>8. ById' <=> ById
    BY <2>1, KindSame
  <2> QED
    BY <2>1, <2>5, <2>6, <2>7, <2>8, StampPart
<1>4. ASSUME NEW k \in Key, Remove(k) PROVE StampInv'
  <2>1. /\ gaps' = gaps + 1 /\ stale' = stale \ {k}
        /\ \A j \in Key \ {k} : rows'[j] = rows[j]
        /\ UNCHANGED <<config, ipc, offset, started, covered, switched, valueOf, tied>>
        /\ Selected(config)' = S \ {k}
    BY <1>4, Removed
  <2>2. \E y : Behind' \subseteq Behind \cup {y}
    <3>1. CASE k \in S
      BY <1>0, <2>1, <3>1, UptoRemoved, BehindNext
    <3>2. CASE k \notin S
      <4>1. S \ {k} = S
        BY <3>2
      <4> QED
        BY <1>0, <2>1, <4>1, BehindNext
    <3> QED
      BY <3>1, <3>2
  <2>3. PICK y : Behind' \subseteq Behind \cup {y}
    BY <2>2
  <2>4. Past' \subseteq Past
    BY <1>0, <2>1 DEF Past
  <2>5. \A j \in Overtaken' : j \in Overtaken \cup {y}
    <3> TAKE j \in Overtaken'
    <3>1. /\ j \in stale' /\ rows'[j] < started' /\ j \notin tied'
          /\ j \in Selected(config)' => j \in Behind'
      BY StampNext
    <3>2. j \in stale /\ rows'[j] = rows[j] /\ j # k
      BY <1>0, <2>1, <3>1
    <3>3. j \in S => j \in Behind \cup {y}
      BY <2>1, <2>3, <3>1, <3>2
    <3> QED
      BY <2>1, <3>1, <3>2, <3>3 DEF Overtaken
  <2>6. Cardinality(Past') <= gaps'
    BY <1>0, <2>1, <2>4, PartSize DEF StampInv
  <2>7. ASSUME Counted', ~ById' PROVE Cardinality(Overtaken') <= gaps'
    <3>0. UNCHANGED <<config, valueOf, ipc, switched>>
      BY <2>1
    <3>1. Counted
      <4>1. Counted' => Counted
        BY <3>0, KindSame, Zenon DEF Counted
      <4> QED
        BY <2>7, <4>1
    <3>2. ~ById
      BY <2>7, <3>0, KindSame
    <3>3. Cardinality(Overtaken) <= gaps
      BY <3>1, <3>2 DEF StampInv
    <3>4. Overtaken' \subseteq Overtaken \cup {y}
      BY <2>5
    <3>5. Cardinality(Overtaken') \in Nat /\ Cardinality(Overtaken') <= Cardinality(Overtaken) + 1
      BY <1>0, <3>4, OneMore
    <3> QED
      BY <1>0, <2>1, <3>3, <3>5
  <2> QED
    BY <2>6, <2>7 DEF StampInv
<1>5. CASE Tick \/ UNCHANGED syncVars
  <2>1. UNCHANGED <<config, rows, stale, ipc, offset, started, covered, switched, valueOf, gaps, tied>>
    BY <1>5 DEF Tick, syncVars, table, app, changes
  <2>2. Selected(config)' = S /\ Behind' = Behind
    BY <1>0, <2>1, SelectedSame, BehindNext
  <2>3. Past' \subseteq Past /\ Overtaken' \subseteq Overtaken
    BY <2>1, <2>2 DEF Past, Overtaken
  <2>4. Counted' => Counted
    BY <2>1, KindSame, Zenon DEF Counted
  <2>5. ById' <=> ById
    BY <2>1, KindSame
  <2> QED
    BY <2>1, <2>3, <2>4, <2>5, StampPart
<1> QED
  BY <1>1, <1>2, <1>3, <1>4, <1>5 DEF SyncNext

\* Rows that the runs over keys can have seen, and among them those a statement leaves
\* out.
Lacked     == stale \ (hidden \cup tied)
Low        == {k \in Lacked : k <= topId}
LeftOut    == {k \in Lacked \ Selected(config) : k <= topId}
Good       == Behind \ Lacked

IdInv ==
  /\ Cardinality(Low) <= gaps
  /\ Counted /\ ~ByStamp => offset + Cardinality(LeftOut) <= Cardinality(Good) + gaps

\* A condition on keys passes over keys of runs that have been counted.
LEMMA PassedOverId ==
  ASSUME SyncTypes, ById, ~Foreign, NEW k \in stale \ Selected(config)
  PROVE  k <= topId
<1>1. k \in Existing /\ k \in Key /\ Filters(config) /\ config.field = "id"
  BY SyncSets DEF ById
<1>2. config.strategy = "autoinc" /\ config.value # 0
  BY <1>1, Conditions
<1>3. ~(k > config.value)
  BY <1>1, <1>2, Selects
<1>4. valueOf \in {"none", "id"}
  BY <1>1, <1>2 DEF Foreign
<1>5. config.value <= topId
  BY <1>2, <1>4 DEF SyncTypes, MarksInv
<1> QED
  BY <1>1, <1>3, <1>5, SyncSets

\* The sets are sets of keys.
LEMMA IdSets ==
  ASSUME SyncTypes
  PROVE  /\ Lacked \subseteq Key /\ Low \subseteq Key /\ LeftOut \subseteq Key
         /\ Behind \subseteq Key /\ Good \subseteq Key
         /\ IsFiniteSet(Low) /\ IsFiniteSet(LeftOut) /\ IsFiniteSet(Good)
         /\ Cardinality(Low) \in Nat /\ Cardinality(LeftOut) \in Nat /\ Cardinality(Good) \in Nat
         /\ offset \in Nat /\ gaps \in Nat
<1>1. Lacked \subseteq Key /\ Low \subseteq Key /\ LeftOut \subseteq Key
  BY SyncSets DEF Lacked, Low, LeftOut
<1>2. Behind \subseteq Key /\ Good \subseteq Key
  BY SyncSets DEF Behind, Good, Upto
<1> QED
  BY <1>1, <1>2, KeysFinite, SyncSets

\* In the first state.
LEMMA InitId == SyncInit => IdInv
<1> SUFFICES ASSUME SyncInit PROVE IdInv
  OBVIOUS
<1>1. SyncTypes
  BY InitSync
<1>2. ipc = "idle" /\ topId = 0 /\ gaps = 0
  BY Zenon DEF SyncInit
<1>3. \A k \in Key : k >= 1
  BY SizesAssumption DEF Key
<1>4. Low = {}
  <2>1. \A k \in Lacked : k \in Key /\ k \in Nat
    BY <1>1, IdSets, SyncSets
  <2> QED
    BY <1>2, <1>3, <2>1 DEF Low
<1>5. Cardinality(Low) = 0
  BY <1>4, FS_EmptySet
<1> QED
  BY <1>2, <1>5 DEF IdInv, Counted

\* No more low rows are lacked, and of a run that is counted either nothing changes but
\* rows that it selects anew, or it has only begun.
LEMMA IdPart ==
  ASSUME SyncTypes, IdInv, gaps' = gaps, Low' \subseteq Low,
         Counted' /\ ~ByStamp' => \/ /\ Counted /\ ~ByStamp /\ offset' = offset
                                     /\ LeftOut' \subseteq LeftOut
                                     /\ Cardinality(Good) <= Cardinality(Good')
                                     /\ Cardinality(Good') \in Nat
                                  \/ offset' = 0 /\ LeftOut' \subseteq Low /\ Good' = {}
  PROVE  IdInv'
<1>1. /\ IsFiniteSet(Low) /\ IsFiniteSet(LeftOut) /\ gaps \in Nat /\ offset \in Nat
      /\ Cardinality(Low) \in Nat /\ Cardinality(LeftOut) \in Nat /\ Cardinality(Good) \in Nat
  BY IdSets
<1>2. Cardinality(Low') <= gaps
  <2>1. Cardinality(Low') \in Nat /\ Cardinality(Low') <= Cardinality(Low)
    BY <1>1, PartSize
  <2> QED
    BY <1>1, <2>1 DEF IdInv
<1>3. ASSUME Counted' /\ ~ByStamp'
      PROVE  offset' + Cardinality(LeftOut') <= Cardinality(Good') + gaps
  <2>1. CASE /\ Counted /\ ~ByStamp /\ offset' = offset /\ LeftOut' \subseteq LeftOut
             /\ Cardinality(Good) <= Cardinality(Good') /\ Cardinality(Good') \in Nat
    <3>1. Cardinality(LeftOut') \in Nat /\ Cardinality(LeftOut') <= Cardinality(LeftOut)
      BY <1>1, <2>1, PartSize
    <3>2. offset + Cardinality(LeftOut) <= Cardinality(Good) + gaps
      BY <2>1 DEF IdInv
    <3> QED
      BY <1>1, <2>1, <3>1, <3>2
  <2>2. CASE offset' = 0 /\ LeftOut' \subseteq Low /\ Good' = {}
    <3>1. Cardinality(LeftOut') \in Nat /\ Cardinality(LeftOut') <= Cardinality(Low)
      BY <1>1, <2>2, PartSize
    <3>2. Cardinality(Good') = 0
      BY <2>2, FS_EmptySet
    <3> QED
      BY <1>1, <2>2, <3>1, <3>2 DEF IdInv
  <2> QED
    BY <1>3, <2>1, <2>2
<1> QED
  BY <1>2, <1>3 DEF IdInv

\* What the sets will be.
LEMMA IdNext ==
  /\ Lacked' = stale' \ (hidden' \cup tied') /\ Good' = Behind' \ Lacked'
  /\ \A k : k \in Low' <=> k \in Lacked' /\ k <= topId'
  /\ \A k : k \in LeftOut' <=> k \in Lacked' /\ k \notin Selected(config)' /\ k <= topId'
  BY DEF Lacked, Low, LeftOut, Good

\* The end of a run that is counted: what it has not delivered is behind it or left out.
LEMMA IdCounted ==
  ASSUME SyncTypes, IdInv, Counted, ~ByStamp, NEW S, S \subseteq Lacked \ PageAt(offset),
         Selected(config) \subseteq Behind \cup PageAt(offset)
  PROVE  Cardinality(S) <= gaps
<1> DEFINE Missed == Behind \cap Lacked
<1>1. S \subseteq Missed \cup LeftOut
  <2> SUFFICES ASSUME NEW k \in S PROVE k \in Missed \cup LeftOut
    OBVIOUS
  <2>1. CASE k \in Selected(config)
    BY <2>1
  <2>2. CASE k \notin Selected(config)
    <3>1. k \in stale \ Selected(config) /\ k \in Existing
      BY <2>2, SyncSets DEF Lacked
    <3>2. ById
      BY <3>1, Selects DEF ById, ByStamp
    <3>3. k <= topId
      BY <3>1, <3>2, PassedOverId DEF Counted
    <3> QED
      BY <2>2, <3>3 DEF LeftOut
  <2> QED
    BY <2>1, <2>2
<1>2. /\ IsFiniteSet(Missed) /\ Cardinality(Missed) \in Nat
      /\ Cardinality(Behind) = Cardinality(Missed) + Cardinality(Good)
  <2>1. Missed \subseteq Key /\ Good \subseteq Key
    BY IdSets
  <2>2. Missed \cap Good = {} /\ Missed \cup Good = Behind
    BY DEF Good
  <2>3. IsFiniteSet(Missed) /\ IsFiniteSet(Good) /\ Cardinality(Missed) \in Nat
    BY <2>1, KeysFinite
  <2> HIDE DEF Missed
  <2> QED
    BY <2>2, <2>3, DisjointSize
<1>3. Cardinality(Behind) <= offset /\ Cardinality(Behind) \in Nat
  <2>1. Selected(config) \subseteq Key /\ offset \in Nat
    BY SyncSets
  <2> QED
    BY <2>1, UptoSize DEF Behind
<1>4. /\ IsFiniteSet(S) /\ Cardinality(S) \in Nat
      /\ Cardinality(S) <= Cardinality(Missed) + Cardinality(LeftOut)
  <2>1. IsFiniteSet(Missed) /\ IsFiniteSet(LeftOut)
    BY <1>2, IdSets
  <2> HIDE DEF Missed
  <2>2. /\ IsFiniteSet(Missed \cup LeftOut)
        /\ Cardinality(Missed \cup LeftOut)
             = Cardinality(Missed) + Cardinality(LeftOut) - Cardinality(Missed \cap LeftOut)
    BY <2>1, FS_Union
  <2>3. Cardinality(Missed \cap LeftOut) \in Nat
    BY <2>1, PartSize
  <2>4. /\ IsFiniteSet(S) /\ Cardinality(S) \in Nat
        /\ Cardinality(S) <= Cardinality(Missed \cup LeftOut)
        /\ Cardinality(Missed \cup LeftOut) \in Nat
    BY <1>1, <2>2, PartSize
  <2> QED
    BY <1>2, <2>2, <2>3, <2>4, IdSets
<1>5. offset + Cardinality(LeftOut) <= Cardinality(Good) + gaps
  BY DEF IdInv
<1> HIDE DEF Missed
<1> QED
  BY <1>2, <1>3, <1>4, <1>5, IdSets

\* Every step of a careful application keeps it: those of a run,
LEMMA IdRun ==
  ASSUME Careful, SyncTypes, IdInv, Start \/ DeliverPage \/ QueryFails
  PROVE  IdInv'
<1>0. Selected(config) \subseteq Key
  BY SyncSets
<1>1. CASE Start
  <2>1. /\ offset' = 0 /\ tied' = tied \cup {k \in stale : Tied(k)}
        /\ UNCHANGED <<config, rows, stale, topId, hidden, gaps>>
    BY <1>1 DEF Start, table, app
  <2>2. Selected(config)' = Selected(config) /\ Behind' = {}
    BY <1>0, <2>1, SelectedSame, BehindNext, UptoNone
  <2>3. Lacked' \subseteq Lacked
    BY <2>1 DEF Lacked
  <2>4. Low' \subseteq Low /\ LeftOut' \subseteq Low /\ Good' = {}
    BY <2>1, <2>2, <2>3, IdNext DEF Low
  <2> QED
    BY <2>1, <2>4, IdPart
<1>2. CASE DeliverPage
  <2>1. /\ ipc = "read" /\ stale' = stale \ PageAt(offset)
        /\ UNCHANGED <<config, switched, valueOf, gaps, tied, hidden>>
        /\ Selected(config)' = Selected(config)
        /\ Behind \cap PageAt(offset) = {} /\ PageAt(offset) \subseteq Selected(config)
    BY <1>2, Delivered DEF Behind
  <2>2. Lacked' = Lacked \ PageAt(offset)
    BY <2>1 DEF Lacked
  <2>3. CASE ipc' = "idle" /\ TakeNote
             /\ Selected(config) \subseteq Behind \cup PageAt(offset)
    <3>1. ~Counted'
      BY <2>3 DEF Counted
    <3>2. CASE topId' = topId
      <4>1. Low' \subseteq Low
        BY <2>2, <3>2, IdNext DEF Low
      <4> QED
        BY <2>1, <3>1, <4>1, IdPart
    <3>3. CASE topId' # topId
      <4>1. ~(switched \/ Foreign)
        BY <2>3, <3>3, Zenon DEF TakeNote, app
      <4>2. ~ByStamp
        <5>1. topId' = IF Filters(config) /\ config.field # "id" THEN topId
                       ELSE Max({topId, last} \cup PageAt(offset))
          BY <2>3, <4>1 DEF TakeNote
        <5> QED
          BY <3>3, <5>1 DEF ByStamp
      <4>3. Counted
        BY <2>1, <4>1, Zenon DEF Counted
      <4>4. Low' \subseteq Lacked \ PageAt(offset)
        BY <2>2, IdNext
      <4>5. Cardinality(Low') <= gaps'
        BY <2>1, <2>3, <4>2, <4>3, <4>4, IdCounted
      <4> QED
        BY <3>1, <4>5 DEF IdInv
    <3> QED
      BY <3>2, <3>3
  <2>4. CASE /\ offset' = offset + BatchSize /\ UNCHANGED <<ipc, started, covered, topId>>
             /\ Upto(Selected(config), offset + BatchSize) = Behind \cup PageAt(offset)
             /\ Cardinality(PageAt(offset)) >= BatchSize
    <3>1. Behind' = Behind \cup PageAt(offset)
      BY <2>1, <2>4, BehindNext
    <3>2. Low' \subseteq Low /\ LeftOut' \subseteq LeftOut
      BY <2>1, <2>2, <2>4, IdNext DEF Low, LeftOut
    <3>3. Good \cup PageAt(offset) \subseteq Good' /\ Good \cap PageAt(offset) = {}
      BY <2>1, <2>2, <3>1, IdNext DEF Good
    <3>4. Cardinality(Good) + BatchSize <= Cardinality(Good') /\ Cardinality(Good') \in Nat
      <4>1. /\ Good' \subseteq Key /\ PageAt(offset) \subseteq Key
        BY <1>0, <2>1, <3>1, IdSets, IdNext
      <4>2. IsFiniteSet(Good') /\ IsFiniteSet(Good) /\ IsFiniteSet(PageAt(offset))
        BY <4>1, IdSets, KeysFinite
      <4>3. /\ Cardinality(Good \cup PageAt(offset)) = Cardinality(Good) + Cardinality(PageAt(offset))
            /\ Cardinality(Good) \in Nat /\ Cardinality(PageAt(offset)) \in Nat
        BY <3>3, <4>2, DisjointSize
      <4>4. /\ Cardinality(Good \cup PageAt(offset)) <= Cardinality(Good')
            /\ Cardinality(Good') \in Nat
        BY <3>3, <4>2, PartSize
      <4> QED
        BY <2>4, <4>3, <4>4, SizesAssumption
    <3>5. Cardinality(Low') <= gaps'
      <4>1. Cardinality(Low') \in Nat /\ Cardinality(Low') <= Cardinality(Low)
        BY <3>2, IdSets, PartSize
      <4> QED
        BY <2>1, <4>1, IdSets DEF IdInv
    <3>6. ASSUME Counted', ~ByStamp'
          PROVE  offset' + Cardinality(LeftOut') <= Cardinality(Good') + gaps'
      <4>0. UNCHANGED <<config, valueOf, ipc, switched>>
        BY <2>1, <2>4
      <4>1. Counted' => Counted
        BY <4>0, KindSame, Zenon DEF Counted
      <4>2. ~ByStamp
        BY <3>6, <4>0, KindSame
      <4>3. offset + Cardinality(LeftOut) <= Cardinality(Good) + gaps
        BY <3>6, <4>1, <4>2 DEF IdInv
      <4>4. Cardinality(LeftOut') \in Nat /\ Cardinality(LeftOut') <= Cardinality(LeftOut)
        BY <3>2, IdSets, PartSize
      <4> QED
        BY <2>1, <2>4, <3>4, <4>3, <4>4, IdSets, SizesAssumption
    <3> QED
      BY <3>5, <3>6 DEF IdInv
  <2> QED
    BY <1>2, <2>3, <2>4, Delivered DEF Behind
<1>3. CASE QueryFails
  <2>1. ipc' = "idle" /\ UNCHANGED <<stale, topId, tied, hidden, gaps>>
    BY <1>3 DEF QueryFails, Ends, table, app, changes
  <2>2. Low' \subseteq Low /\ ~Counted'
    BY <2>1 DEF Low, Lacked, Counted
  <2> QED
    BY <2>1, <2>2, IdPart
<1> QED
  BY <1>1, <1>2, <1>3

\* a change of a row, which is hidden unless its key is the greatest of all,
LEMMA IdChange ==
  ASSUME SyncTypes, IdInv, NEW k \in Key, Change(k)
  PROVE  IdInv'
<1> DEFINE S == Selected(config)
<1>0. S \subseteq Existing /\ Existing \subseteq Key /\ offset \in Nat /\ Behind = Upto(S, offset)
  BY SyncSets DEF Behind
<1>1. /\ stale' = stale \cup {k} /\ tied' = tied \ {k}
      /\ UNCHANGED <<config, ipc, offset, topId, switched, valueOf, gaps>>
  BY Changed
<1>2. \/ Selected(config)' = S
      \/ k \notin S /\ Selected(config)' = S \cup {k}
  BY Changed
<1>3. Behind' \subseteq Behind \cup {k} /\ Behind' \subseteq Key /\ IsFiniteSet(Behind')
  <2>1. Behind' \subseteq Behind \cup {k}
    BY <1>0, <1>1, <1>2, UptoAdded, BehindNext
  <2>2. Behind' \subseteq Key
    BY <2>1, IdSets
  <2> QED
    BY <2>1, <2>2, KeysFinite
<1>4. IsFiniteSet(Good') /\ Cardinality(Good') \in Nat
  <2>1. Good' \subseteq Key
    BY <1>3, IdNext
  <2> QED
    BY <2>1, KeysFinite
<1>5. /\ Low' \subseteq Low /\ LeftOut' \subseteq LeftOut
      /\ Cardinality(Good) <= Cardinality(Good')
  <2>1. CASE hidden' = hidden \cup {k}
    <3>1. Lacked' = Lacked \ {k}
      BY <1>1, <2>1 DEF Lacked
    <3>2. Low' \subseteq Low /\ LeftOut' \subseteq LeftOut
      BY <1>1, <1>2, <3>1, IdNext DEF Low, LeftOut
    <3>3. CASE Behind \subseteq Behind'
      <4>1. Good \subseteq Good'
        BY <3>1, <3>3, IdNext DEF Good
      <4> QED
        BY <1>4, <3>2, <4>1, PartSize
    <3>4. CASE k \in Behind' \ Behind /\ \E y \in S : Behind \ {y} \subseteq Behind'
      <4>1. PICK y \in S : Behind \ {y} \subseteq Behind'
        BY <3>4
      <4>2. Good \subseteq (Good' \ {k}) \cup {y} /\ k \in Good'
        BY <3>1, <3>4, <4>1, IdNext DEF Good
      <4>3. IsFiniteSet(Good' \ {k}) /\ Cardinality(Good' \ {k}) = Cardinality(Good') - 1
        BY <1>4, <4>2, FS_RemoveElement
      <4>4. Cardinality(Good) <= Cardinality(Good' \ {k}) + 1
        BY <4>2, <4>3, OneMore
      <4> QED
        BY <1>4, <3>2, <4>3, <4>4
    <3>5. CASE Selected(config)' = S
      BY <1>0, <1>1, <3>3, <3>5, BehindNext
    <3>6. CASE k \notin S /\ Selected(config)' = S \cup {k}
      <4>1. S \subseteq Key /\ k \in Key \ S /\ k \notin Behind /\ Behind' = Upto(S \cup {k}, offset)
        BY <1>0, <1>1, <3>6, BehindNext DEF Upto
      <4>2. \/ Behind \subseteq Behind'
            \/ k \in Behind' /\ \E y \in S : Behind \ {y} \subseteq Behind'
        BY <1>0, <4>1, UptoAdded
      <4> QED
        BY <3>3, <3>4, <4>1, <4>2
    <3> QED
      BY <1>2, <3>5, <3>6
  <2>2. CASE /\ hidden' = hidden \ {k} /\ topId < k
             /\ k \notin Existing /\ \A j \in Existing : j < k
    <3>1. Lacked' \subseteq Lacked \cup {k}
      BY <1>1, <2>2 DEF Lacked
    <3>2. k \notin Low' /\ k \notin LeftOut'
      BY <1>1, <2>2, IdNext, SyncSets
    <3>3. Low' \subseteq Low /\ LeftOut' \subseteq LeftOut
      BY <1>1, <1>2, <3>1, <3>2, IdNext DEF Low, LeftOut
    <3>4. Behind \subseteq Behind' /\ k \notin Behind
      <4>1. k \notin S /\ \A j \in S : j < k
        BY <1>0, <2>2
      <4>2. CASE Selected(config)' = S
        BY <1>0, <1>1, <4>1, <4>2, BehindNext DEF Upto
      <4>3. CASE Selected(config)' = S \cup {k}
        BY <1>0, <1>1, <4>1, <4>3, UptoAdded, BehindNext DEF Upto
      <4> QED
        BY <1>2, <4>2, <4>3
    <3>5. Good \subseteq Good'
      BY <3>1, <3>4, IdNext DEF Good
    <3> QED
      BY <1>4, <3>3, <3>5, PartSize
  <2> QED
    BY <2>1, <2>2, Changed
<1>6. Counted' => Counted
  BY <1>1, KindSame, Zenon DEF Counted
<1>7. ByStamp' <=> ByStamp
  BY <1>1, KindSame
<1> QED
  BY <1>1, <1>4, <1>5, <1>6, <1>7, IdPart

\* and all the others.
LEMMA IdStep ==
  ASSUME Careful, SyncTypes, IdInv, [SyncNext]_syncVars
  PROVE  IdInv'
<1> DEFINE S == Selected(config)
<1>0. S \subseteq Key /\ offset \in Nat /\ Behind = Upto(S, offset) /\ Behind \subseteq S
  BY SyncSets DEF Behind, Upto
<1>1. CASE Start \/ DeliverPage \/ QueryFails
  BY <1>1, IdRun
<1>2. CASE SwitchToFullSync \/ SwitchToIncrementalSync \/ SwitchToRealtimeSync \/ SetMark
  <2>1. /\ UNCHANGED <<stale, ipc, topId, gaps, tied, hidden>>
        /\ ~switched' => ~switched /\ ipc = "idle"
    BY <1>2, Switched
  <2>2. Low' \subseteq Low /\ ~Counted'
    BY <2>1 DEF Low, Lacked, Counted
  <2> QED
    BY <2>1, <2>2, IdPart
<1>3. ASSUME NEW k \in Key, Change(k) PROVE IdInv'
  BY <1>3, IdChange
<1>4. ASSUME NEW k \in Key, Remove(k) PROVE IdInv'
  <2>1. /\ gaps' = gaps + 1 /\ stale' = stale \ {k}
        /\ UNCHANGED <<config, ipc, offset, topId, switched, valueOf, tied, hidden>>
        /\ Selected(config)' = S \ {k}
    BY <1>4, Removed
  <2>2. Behind \ {k} \subseteq Behind' /\ Behind' \subseteq Key
    <3>1. CASE k \in S
      <4>1. Behind \ {k} \subseteq Behind'
        BY <1>0, <2>1, <3>1, UptoRemoved, BehindNext
      <4> QED
        BY <1>0, <2>1, <4>1, BehindNext DEF Upto
    <3>2. CASE k \notin S
      <4>1. S \ {k} = S
        BY <3>2
      <4> QED
        BY <1>0, <2>1, <4>1, BehindNext
    <3> QED
      BY <3>1, <3>2
  <2>3. Lacked' = Lacked \ {k}
    BY <2>1 DEF Lacked
  <2>4. Low' \subseteq Low /\ LeftOut' \subseteq LeftOut
    BY <2>1, <2>3, IdNext DEF Low, LeftOut
  <2>5. Good \subseteq Good' \cup {k} /\ Good' \subseteq Key
    BY <2>2, <2>3, IdNext DEF Good
  <2>6. /\ Cardinality(Good') \in Nat /\ Cardinality(Good) <= Cardinality(Good') + 1
    BY <2>5, KeysFinite, OneMore
  <2>7. Cardinality(Low') <= gaps'
    <3>1. Cardinality(Low') \in Nat /\ Cardinality(Low') <= Cardinality(Low)
      BY <2>4, IdSets, PartSize
    <3> QED
      BY <2>1, <3>1, IdSets DEF IdInv
  <2>8. ASSUME Counted', ~ByStamp'
        PROVE  offset' + Cardinality(LeftOut') <= Cardinality(Good') + gaps'
    <3>0. UNCHANGED <<config, valueOf, ipc, switched>>
      BY <2>1
    <3>1. Counted' => Counted
      BY <3>0, KindSame, Zenon DEF Counted
    <3>2. ~ByStamp
      BY <2>8, <3>0, KindSame
    <3>3. offset + Cardinality(LeftOut) <= Cardinality(Good) + gaps
      BY <2>8, <3>1, <3>2 DEF IdInv
    <3>4. Cardinality(LeftOut') \in Nat /\ Cardinality(LeftOut') <= Cardinality(LeftOut)
      BY <2>4, IdSets, PartSize
    <3> QED
      BY <2>1, <2>6, <3>3, <3>4, IdSets
  <2> QED
    BY <2>7, <2>8 DEF IdInv
<1>5. CASE Tick \/ UNCHANGED syncVars
  <2>1. UNCHANGED <<config, rows, stale, ipc, offset, topId, switched, valueOf, gaps, tied, hidden>>
    BY <1>5 DEF Tick, syncVars, table, app, changes
  <2>2. Selected(config)' = S /\ Behind' = Behind
    BY <1>0, <2>1, SelectedSame, BehindNext
  <2>3. UNCHANGED <<Low, LeftOut, Good>>
    BY <2>1, <2>2 DEF Low, LeftOut, Good, Lacked
  <2>4. Counted' => Counted
    BY <2>1, KindSame, Zenon DEF Counted
  <2>5. ByStamp' <=> ByStamp
    BY <2>1, KindSame
  <2> QED
    BY <2>1, <2>3, <2>4, <2>5, IdPart, IdSets
<1> QED
  BY <1>1, <1>2, <1>3, <1>4, <1>5 DEF SyncNext

\* What the condition of a statement passes over is in the target, but for one row for
\* each one that was deleted during a run, if the application counts no run in which it
\* has switched (BuildCondition of incremental.go, and the switches of types.go).
THEOREM FewPassedOver == ASSUME Careful PROVE SyncSpec => []PassedOverBounded
<1>1. SyncInit => SyncTypes /\ StampInv /\ IdInv
  BY InitSync, InitStamp, InitId
<1>2. SyncTypes /\ StampInv /\ IdInv /\ [SyncNext]_syncVars => (SyncTypes /\ StampInv /\ IdInv)'
  BY SyncTypesStep, StampStep, IdStep
<1>3. SyncTypes /\ StampInv /\ IdInv => PassedOverBounded
  <2> SUFFICES ASSUME SyncTypes, StampInv, IdInv, Filters(config), ~Foreign
               PROVE  Cardinality({k \in stale \ Selected(config) : ~Unseen(k)}) <= gaps
    BY DEF PassedOverBounded
  <2> DEFINE Over == {k \in stale \ Selected(config) : ~Unseen(k)}
  <2>1. CASE ByStamp
    <3>1. \A k \in Over : k \in stale \ Selected(config) /\ ~Tied(k) /\ k \notin tied
      BY DEF Unseen
    <3>2. Over \subseteq Past
      BY <2>1, <3>1, PassedOverStamp DEF Past
    <3> HIDE DEF Over
    <3>3. Cardinality(Over) \in Nat /\ Cardinality(Over) <= Cardinality(Past)
      BY <3>2, StampSets, PartSize
    <3>4. Cardinality(Over) <= gaps
      BY <3>3, StampSets, IdSets DEF StampInv
    <3> QED
      BY <3>4 DEF Over
  <2>2. CASE ById
    <3>1. config.strategy = "autoinc"
      BY <2>2, Conditions DEF ById
    <3>2. \A k \in Over : k \in stale \ Selected(config) /\ k \notin hidden /\ k \notin tied
      BY <3>1 DEF Unseen
    <3>3. Over \subseteq Low
      BY <2>2, <3>2, PassedOverId DEF Low, Lacked
    <3> HIDE DEF Over
    <3>4. Cardinality(Over) \in Nat /\ Cardinality(Over) <= Cardinality(Low)
      BY <3>3, IdSets, PartSize
    <3>5. Cardinality(Over) <= gaps
      BY <3>4, IdSets DEF IdInv
    <3> QED
      BY <3>5 DEF Over
  <2> QED
    BY <2>1, <2>2 DEF ById, ByStamp
<1> QED
  BY <1>1, <1>2, <1>3, PTL DEF SyncSpec

=============================================================================
